------------------------- MODULE TabIngestionProofs -------------------------
(***************************************************************************)
(* TabIngestion, for every set of pollers, races, runners and documents.   *)
(***************************************************************************)
EXTENDS TabIngestion, TLAPS

LEMMA PlacesTyped ==
    /\ Positions \subseteq Int /\ Null \in Positions /\ NoPlace \in [Runners -> Positions]
    /\ \A d \in Docs \cup {NoDoc, Removed} : d.place \in [Runners -> Positions] /\ d.times \subseteq Times
    /\ \A d \in Docs : d.status \in SourceStatus /\ d # NoDoc /\ d # Removed
<1>1. Positions \subseteq Int /\ Null \in Positions
    BY PlacesAreCounted DEF Positions, Null
<1>2. NoPlace \in [Runners -> Positions]
    BY <1>1 DEF NoPlace
<1>3. \A d \in Docs : /\ d.status \in SourceStatus /\ d.place \in [Runners -> Positions]
                      /\ d.times \subseteq Times
    BY DocsAreDocuments
<1>4. \A d \in Docs : d # NoDoc /\ d # Removed
    BY <1>3 DEF NoDoc, Removed, SourceStatus
<1>5. \A d \in {NoDoc, Removed} : d.place \in [Runners -> Positions] /\ d.times \subseteq Times
    BY <1>2 DEF NoDoc, Removed
<1> QED BY <1>1, <1>2, <1>3, <1>4, <1>5

LEMMA DocsTyped ==
    ASSUME TypeOK
    PROVE  \A p \in Pollers, r \in Races :
              /\ poll[p].docs[r].place \in [Runners -> Positions]
              /\ poll[p].docs[r].times \subseteq Times
<1>1. \A p \in Pollers, r \in Races : poll[p].docs[r] \in Docs \cup {NoDoc}
    BY DEF TypeOK, Poll
<1> QED BY <1>1, PlacesTyped

LEMMA IdleTyped == Idle \in Poll /\ Idle.step = "idle" /\ Idle.got = {}
BY DEF Idle, Poll, Steps, Ages, Listings

-----------------------------------------------------------------------------
(***************************************************************************)
(* Types.                                                                  *)
(***************************************************************************)
LEMMA TypeInit == Init => TypeOK
<1> SUFFICES ASSUME Init PROVE TypeOK
    OBVIOUS
<1>1. age \in Ages /\ lock \in Pollers \cup {Nobody}
    BY DEF Init, Ages
<1>l. {"open"} \subseteq Listings /\ listing \in [Races -> {"open"}]
    BY DEF Init, Listings, SourceStatus
<1>m. listing \in [Races -> Listings]
    BY <1>l
<1>d. detail \in [Races -> Docs \cup {Removed}]
    BY DEF Init
<1>2. poll \in [Pollers -> Poll]
    BY IdleTyped DEF Init
<1>3. /\ payload \in [Races -> Docs \cup {NoDoc}]
      /\ finalPos \in [Races -> [Runners -> Positions]]
      /\ result \in [Races -> [Runners -> Positions]]
      /\ outcome \in [Races -> [Runners -> Positions]]
    BY PlacesTyped DEF Init
<1>4. /\ status \in [Races -> {"none", "scheduled", "finished", "abandoned"}]
      /\ meeting \in {"none", "scheduled", "completed", "abandoned"}
      /\ starts \in [Races -> SUBSET Times]
      /\ torn \subseteq Races /\ publishes = 0 /\ failures = 0
    BY DEF Init
<1> QED BY <1>1, <1>m, <1>d, <1>2, <1>3, <1>4, BoundsCounted DEF TypeOK

LEMMA KeptTyped ==
    ASSUME NEW old, NEW s
    PROVE  /\ old \in {"none", "scheduled", "finished", "abandoned"} =>
                Kept(old, RaceStatus(s), {"finished", "abandoned"})
                    \in {"scheduled", "finished", "abandoned"}
           /\ old \in {"none", "scheduled", "completed", "abandoned"} =>
                Kept(old, MeetingStatus(s), {"completed", "abandoned"})
                    \in {"scheduled", "completed", "abandoned"}
BY DEF Kept, RaceStatus, MeetingStatus

LEMMA PollReplaced ==
    ASSUME NEW p \in Pollers, NEW f \in [Pollers -> Poll], NEW x \in Poll
    PROVE  [f EXCEPT ![p] = x] \in [Pollers -> Poll]
OBVIOUS

LEMMA Moved ==
    ASSUME TypeOK, NEW p \in Pollers, NEW s \in Steps, Goto(p, s)
    PROVE  poll' \in [Pollers -> Poll]
<1>1. poll[p] \in Poll /\ poll \in [Pollers -> Poll]
    BY DEF TypeOK
<1>2. [poll[p] EXCEPT !.step = s] \in Poll
    BY <1>1 DEF Poll
<1>3. poll' = [poll EXCEPT ![p] = [poll[p] EXCEPT !.step = s]]
    BY DEF Goto
<1> QED BY <1>1, <1>2, <1>3

\* Where a poller is after a step of its own.
LEMMA Advance ==
    ASSUME TypeOK, NEW p \in Pollers
    PROVE  /\ Start(p) => poll'[p].step = "listing"
           /\ ListDays(p) => poll'[p].step = "relisting"
           /\ ListTargets(p) => poll'[p].step = "details"
           /\ \A r \in Races : Fetch(p, r) \/ Miss(p, r) => poll'[p].step = "details"
           /\ LoadPayloads(p) => poll'[p].step = "meeting"
           /\ \A s : Goto(p, s) => poll'[p].step = s /\ poll'[p].got = poll[p].got
           /\ Release(p) => poll'[p].step = "idle"
<1>1. /\ poll \in [Pollers -> Poll] /\ DOMAIN poll = Pollers
      /\ poll[p] \in [step : Steps, age : Ages, targets : SUBSET Races, listed : [Races -> Listings],
                      pending : SUBSET Races, got : SUBSET Races, docs : [Races -> Docs \cup {NoDoc}]]
    BY DEF TypeOK, Poll
<1>2. Start(p) => poll'[p].step = "listing"
    <2> SUFFICES ASSUME Start(p) PROVE poll'[p].step = "listing"
        OBVIOUS
    <2>1. poll'[p] = [Idle EXCEPT !.step = "listing", !.age = age,
                                  !.targets = {r \in Races : Target(r)}]
        BY <1>1 DEF Start
    <2> QED BY <2>1 DEF Idle
<1>3. ListDays(p) => poll'[p].step = "relisting"
    BY <1>1 DEF ListDays
<1>4. ListTargets(p) => poll'[p].step = "details"
    BY <1>1 DEF ListTargets
<1>5. ASSUME NEW r \in Races, Fetch(p, r) PROVE poll'[p].step = "details"
    BY <1>1, <1>5 DEF Fetch, At
<1>6. ASSUME NEW r \in Races, Miss(p, r) PROVE poll'[p].step = "details"
    BY <1>1, <1>6 DEF Miss, At
<1>7. ASSUME LoadPayloads(p) PROVE poll'[p].step = "meeting"
    <2> DEFINE full == {r \in poll[p].got : poll[p].docs[r] # NoDoc}
               stored == [r \in Races |-> IF r \in full THEN poll[p].docs[r] ELSE payload[r]]
    <2>1. poll' = [poll EXCEPT ![p].step = "meeting",
                               ![p].got  = {r \in @ : stored[r] # NoDoc},
                               ![p].docs = stored]
        BY <1>7 DEF LoadPayloads
    <2> HIDE DEF stored
    <2> QED BY <1>1, <2>1
<1>8. ASSUME NEW s, Goto(p, s) PROVE poll'[p].step = s /\ poll'[p].got = poll[p].got
    BY <1>1, <1>8 DEF Goto
<1>9. Release(p) => poll'[p].step = "idle"
    BY <1>1, IdleTyped DEF Release
<1> QED BY <1>2, <1>3, <1>4, <1>5, <1>6, <1>7, <1>8, <1>9

LEMMA TypeStep == TypeOK /\ [Next]_vars => TypeOK'
<1> SUFFICES ASSUME TypeOK, [Next]_vars PROVE TypeOK'
    OBVIOUS
<1> USE DEF TypeOK
<1>1. ASSUME NEW r \in Races, List(r) \/ Revise(r) \/ Remove(r)
      PROVE  TypeOK'
    <2>1. listing' \in [Races -> Listings] /\ detail' \in [Races -> Docs \cup {Removed}]
        BY <1>1 DEF List, Revise, Remove
    <2>2. Publish
        BY <1>1 DEF List, Revise, Remove
    <2>3. publishes' \in 0..MaxPublishes
        BY <2>2, BoundsCounted DEF Publish
    <2> QED BY <2>1, <2>2, <2>3 DEF Publish, rowVars
<1>2. ASSUME TimePasses PROVE TypeOK'
    BY <1>2 DEF TimePasses, Ages, rowVars
<1>3. ASSUME NEW p \in Pollers, Start(p) PROVE TypeOK'
    <2>1. [Idle EXCEPT !.step = "listing", !.age = age, !.targets = {r \in Races : Target(r)}] \in Poll
        BY DEF Idle, Poll, Steps, Listings, Ages
    <2>2. poll' \in [Pollers -> Poll]
        BY <1>3, <2>1 DEF Start
    <2> QED BY <1>3, <2>2 DEF Start, sourceVars, rowVars
<1>4. ASSUME NEW p \in Pollers, ListDays(p) \/ ListTargets(p) PROVE TypeOK'
    <2> DEFINE q == poll[p]
               known == IF q.age < 2 THEN listing ELSE q.listed
               listed == [r \in Races |-> IF r \in q.targets /\ listing[r] # Unlisted
                                          THEN listing[r] ELSE q.listed[r]]
               events == q.targets \cup {r \in Races : q.listed[r] # Unlisted}
    <2>1. q \in Poll /\ q.targets \subseteq Races /\ q.listed \in [Races -> Listings]
        BY DEF Poll
    <2>2. known \in [Races -> Listings] /\ listed \in [Races -> Listings] /\ events \subseteq Races
        BY <2>1
    <2>3. \/ poll' = [poll EXCEPT ![p] = [q EXCEPT !.step = "relisting", !.listed = known]]
          \/ poll' = [poll EXCEPT ![p] = [q EXCEPT !.step = "details", !.listed = listed,
                                                   !.pending = events]]
        BY <1>4 DEF ListDays, ListTargets
    <2>4. /\ [q EXCEPT !.step = "relisting", !.listed = known] \in Poll
          /\ [q EXCEPT !.step = "details", !.listed = listed, !.pending = events] \in Poll
        BY <2>1, <2>2 DEF Poll, Steps
    <2>5. poll' \in [Pollers -> Poll]
        BY <2>3, <2>4, PollReplaced
    <2> QED BY <1>4, <2>5 DEF ListDays, ListTargets, sourceVars, rowVars
<1>5. ASSUME NEW p \in Pollers, NEW r \in Races, Fetch(p, r) \/ Miss(p, r) PROVE TypeOK'
    <2> DEFINE q == poll[p]
               doc == [q.docs EXCEPT ![r] = detail[r]]
               bare == IF q.listed[r] = "abandoned" THEN q.got \cup {r} ELSE q.got
    <2>3. q \in Poll /\ q.pending \subseteq Races /\ q.got \subseteq Races
          /\ q.docs \in [Races -> Docs \cup {NoDoc}]
        BY DEF Poll
    <2>4. ASSUME Fetch(p, r) PROVE poll' \in [Pollers -> Poll]
        <3>1. doc \in [Races -> Docs \cup {NoDoc}]
            BY <2>3, <2>4 DEF Fetch
        <3>2. [q EXCEPT !.pending = q.pending \ {r}, !.got = q.got \cup {r}, !.docs = doc] \in Poll
            BY <2>3, <3>1 DEF Poll
        <3>3. poll' = [poll EXCEPT ![p] = [q EXCEPT !.pending = q.pending \ {r},
                                                    !.got = q.got \cup {r}, !.docs = doc]]
            BY <2>4 DEF Fetch
        <3> QED BY <3>2, <3>3, PollReplaced
    <2>5. ASSUME Miss(p, r) PROVE poll' \in [Pollers -> Poll]
        <3>1. [q EXCEPT !.pending = q.pending \ {r}, !.got = bare] \in Poll
            BY <2>3 DEF Poll
        <3>2. poll' = [poll EXCEPT ![p] = [q EXCEPT !.pending = q.pending \ {r}, !.got = bare]]
            BY <2>5 DEF Miss
        <3> QED BY <3>1, <3>2, PollReplaced
    <2>1. poll' \in [Pollers -> Poll]
        BY <1>5, <2>4, <2>5
    <2>2. failures' \in 0..MaxFailures
        BY <1>5, BoundsCounted DEF Fetch, Miss
    <2> QED BY <1>5, <2>1, <2>2 DEF Fetch, Miss, sourceVars, rowVars
<1>6. ASSUME NEW p \in Pollers, Fetched(p) PROVE TypeOK'
    <2>1. poll' \in [Pollers -> Poll] /\ lock' \in Pollers \cup {Nobody}
        BY <1>6, IdleTyped, Moved DEF Fetched, Release, Steps
    <2> QED BY <1>6, <2>1 DEF Fetched, sourceVars, rowVars
<1>7. ASSUME NEW p \in Pollers, LoadPayloads(p) PROVE TypeOK'
    <2> DEFINE full == {r \in poll[p].got : poll[p].docs[r] # NoDoc}
               stored == [r \in Races |-> IF r \in full THEN poll[p].docs[r] ELSE payload[r]]
    <2>1. poll[p] \in Poll /\ poll[p].docs \in [Races -> Docs \cup {NoDoc}] /\ poll[p].got \subseteq Races
        BY DEF Poll
    <2>2. stored \in [Races -> Docs \cup {NoDoc}]
        BY <2>1
    <2>3. /\ payload' = stored
          /\ poll' = [poll EXCEPT ![p].step = "meeting",
                                  ![p].got  = {r \in @ : stored[r] # NoDoc},
                                  ![p].docs = stored]
        BY <1>7 DEF LoadPayloads
    <2> HIDE DEF stored
    <2>4. poll' \in [Pollers -> Poll]
        BY <2>1, <2>2, <2>3 DEF Poll, Steps
    <2> QED BY <1>7, <2>2, <2>3, <2>4 DEF LoadPayloads, sourceVars
<1>8. ASSUME NEW p \in Pollers, LoadMeeting(p) PROVE TypeOK'
    <2>1. meeting' \in {"none", "scheduled", "completed", "abandoned"}
        BY <1>8, KeptTyped DEF LoadMeeting
    <2>2. poll' \in [Pollers -> Poll]
        BY <1>8, Moved DEF LoadMeeting, Steps
    <2> QED BY <1>8, <2>1, <2>2 DEF LoadMeeting, sourceVars
<1>10. ASSUME NEW p \in Pollers, LoadRaces(p) PROVE TypeOK'
    <2>1. \A r \in Races : Kept(status[r], RaceStatus(Told(p, r)), {"finished", "abandoned"})
                              \in {"scheduled", "finished", "abandoned"}
        BY KeptTyped
    <2>2. status' \in [Races -> {"none", "scheduled", "finished", "abandoned"}]
        BY <1>10, <2>1 DEF LoadRaces
    <2>3. poll' \in [Pollers -> Poll]
        BY <1>10, Moved DEF LoadRaces, Steps
    <2>4. starts' \in [Races -> SUBSET Times]
        <3>1. \A r \in Races : poll[p].docs[r].times \subseteq Times
            BY DocsTyped
        <3> QED BY <1>10, <3>1 DEF LoadRaces
    <2> QED BY <1>10, <2>2, <2>3, <2>4 DEF LoadRaces, sourceVars
<1>11. ASSUME NEW p \in Pollers, LoadEntries(p) PROVE TypeOK'
    <2>1. poll[p].got \subseteq Races /\ \A r \in Races : poll[p].docs[r].place \in [Runners -> Positions]
        BY DocsTyped DEF Poll
    <2>2. finalPos' \in [Races -> [Runners -> Positions]] /\ torn' \subseteq Races
        BY <1>11, <2>1 DEF LoadEntries
    <2>3. poll' \in [Pollers -> Poll]
        BY <1>11, Moved DEF LoadEntries, Steps
    <2> QED BY <1>11, <2>2, <2>3 DEF LoadEntries, sourceVars
<1>12. ASSUME NEW p \in Pollers, LoadResults(p) PROVE TypeOK'
    <2>1. \A r \in Races : poll[p].docs[r].place \in [Runners -> Positions]
        BY DocsTyped
    <2>2. result' \in [Races -> [Runners -> Positions]]
        BY <1>12, <2>1 DEF LoadResults
    <2>3. poll' \in [Pollers -> Poll]
        BY <1>12, Moved DEF LoadResults, Steps
    <2> QED BY <1>12, <2>2, <2>3 DEF LoadResults, sourceVars
<1>13. ASSUME NEW p \in Pollers, RepairEntries(p) PROVE TypeOK'
    <2>1. finalPos' \in [Races -> [Runners -> Positions]]
        BY <1>13 DEF RepairEntries, Repaired
    <2>2. poll' \in [Pollers -> Poll]
        BY <1>13, Moved DEF RepairEntries, Steps
    <2> QED BY <1>13, <2>1, <2>2 DEF RepairEntries, sourceVars
<1>14. ASSUME NEW p \in Pollers, LoadOutcomes(p) PROVE TypeOK'
    <2>1. outcome' \in [Races -> [Runners -> Positions]] /\ torn' \subseteq Races
        BY <1>14 DEF LoadOutcomes
    <2>2. poll' \in [Pollers -> Poll] /\ lock' \in Pollers \cup {Nobody}
        BY <1>14, IdleTyped DEF LoadOutcomes, Release
    <2> QED BY <1>14, <2>1, <2>2 DEF LoadOutcomes, sourceVars
<1>15. ASSUME NEW p \in Pollers, Fail(p) PROVE TypeOK'
    <2>1. poll' \in [Pollers -> Poll] /\ lock' \in Pollers \cup {Nobody}
        BY <1>15, IdleTyped DEF Fail, Release
    <2> QED BY <1>15, <2>1, BoundsCounted DEF Fail, sourceVars, rowVars
<1>16. CASE UNCHANGED vars
    BY <1>16 DEF vars, sourceVars, rowVars
<1> QED BY <1>1, <1>2, <1>3, <1>4, <1>5, <1>6, <1>7, <1>8, <1>10, <1>11, <1>12, <1>13, <1>14,
           <1>15, <1>16 DEF Next, Source, Work, Load

\* No step of TAB, of the calendar or of a poller leaves the state badly typed.
THEOREM IngestionTyped == Spec => []TypeOK
BY TypeInit, TypeStep, PTL DEF Spec

-----------------------------------------------------------------------------
(***************************************************************************)
(* Entries, results and outcomes of a race agree unless a load of it is    *)
(* under way or was cut short.  Only the holder of the lock is at work,    *)
(* and between two statements of a load the tables relate to the documents *)
(* it carries.                                                             *)
(***************************************************************************)
LockHeld == \A p \in Pollers : ~At(p, "idle") => lock = p

Aligned(r, e) == /\ result[r][e] > 0 => finalPos[r][e] = result[r][e]
                 /\ finalPos[r][e] # Null => result[r][e] = finalPos[r][e]

HalfLoaded ==
    \A p \in Pollers : \A r \in poll[p].got :
        /\ At(p, "results")  => r \in torn /\ finalPos[r] = poll[p].docs[r].place
        /\ At(p, "repair")   => /\ r \in torn
                                /\ \A e \in Runners : finalPos[r][e] \in {Null, result[r][e]}
        /\ At(p, "outcomes") => /\ r \in torn
                                /\ \A e \in Runners : Aligned(r, e)

LoadInv == TypeOK /\ LockHeld /\ HalfLoaded /\ CompletedLoadAgrees

LEMMA LoadInit == Init => LoadInv
<1> SUFFICES ASSUME Init PROVE LockHeld /\ HalfLoaded /\ CompletedLoadAgrees
    BY TypeInit DEF LoadInv
<1>1. \A p \in Pollers : poll[p].step = "idle" /\ poll[p].got = {}
    BY IdleTyped DEF Init
<1>2. \A r \in Races, e \in Runners : finalPos[r][e] = Null /\ result[r][e] = Null
    BY DEF Init, NoPlace
<1> QED BY <1>1, <1>2 DEF LockHeld, HalfLoaded, CompletedLoadAgrees, At, Null

\* While one poller is at work the others are idle.
LEMMA OthersIdle ==
    ASSUME LockHeld, NobodyPolls, NEW p \in Pollers, lock \in {p, Nobody}
    PROVE  \A q \in Pollers \ {p} : At(q, "idle")
BY DEF LockHeld, NobodyPolls

\* A step that leaves the tables alone and does not enter the middle of a load.
LEMMA StepOutsideLoad ==
    ASSUME LoadInv, NEW p \in Pollers, lock \in {p, Nobody},
           \A q \in Pollers \ {p} : poll'[q] = poll[q],
           ~(poll'[p].step \in {"results", "repair", "outcomes"}),
           poll'[p].step = "idle" \/ lock' = p,
           UNCHANGED <<finalPos, result, outcome, torn>>
    PROVE  (LockHeld /\ HalfLoaded /\ CompletedLoadAgrees)'
<1>1. \A q \in Pollers \ {p} : poll'[q].step = "idle"
    BY OthersIdle, NobodyPolls DEF LoadInv, At
<1>2. LockHeld'
    BY <1>1 DEF LockHeld, At
<1>3. HalfLoaded'
    BY <1>1 DEF HalfLoaded, At
<1>4. CompletedLoadAgrees'
    BY DEF LoadInv, CompletedLoadAgrees
<1> QED BY <1>2, <1>3, <1>4

LEMMA LoadStep == LoadInv /\ [Next]_vars => LoadInv'
<1> SUFFICES ASSUME LoadInv, [Next]_vars
             PROVE  (LockHeld /\ HalfLoaded /\ CompletedLoadAgrees)'
    BY TypeStep DEF LoadInv
<1>0. /\ TypeOK /\ LockHeld /\ HalfLoaded /\ CompletedLoadAgrees
      /\ poll \in [Pollers -> Poll] /\ torn \subseteq Races
      /\ \A p \in Pollers : poll[p].got \subseteq Races
      /\ \A p \in Pollers : poll[p] \in [step : Steps, age : Ages, targets : SUBSET Races,
                                         listed : [Races -> Listings], pending : SUBSET Races,
                                         got : SUBSET Races, docs : [Races -> Docs \cup {NoDoc}]]
    BY DEF LoadInv, TypeOK, Poll
<1>f. /\ finalPos \in [Races -> [Runners -> Positions]]
      /\ result \in [Races -> [Runners -> Positions]]
      /\ outcome \in [Races -> [Runners -> Positions]]
      /\ \A p \in Pollers, r \in Races : poll[p].docs[r].place \in [Runners -> Positions]
      /\ Positions \subseteq Int
    BY <1>0, PlacesTyped, DocsTyped DEF TypeOK
<1>1. ASSUME NEW p \in Pollers,
             Start(p) \/ ListDays(p) \/ ListTargets(p) \/ Fetched(p) \/ LoadPayloads(p)
                 \/ LoadMeeting(p) \/ LoadRaces(p) \/ Fail(p) \/ \E r \in Races : Fetch(p, r) \/ Miss(p, r)
      PROVE  (LockHeld /\ HalfLoaded /\ CompletedLoadAgrees)'
    <2>1. lock \in {p, Nobody}
        BY <1>0, <1>1 DEF LockHeld, At, Start, ListDays, ListTargets, Fetched, LoadPayloads,
               LoadMeeting, LoadRaces, Fail, Fetch, Miss
    <2>2. \A q \in Pollers \ {p} : poll'[q] = poll[q]
        BY <1>0, <1>1 DEF Start, ListDays, ListTargets, Fetched, LoadPayloads, LoadMeeting, LoadRaces,
               Fail, Fetch, Miss, Goto, Release
    <2>3. UNCHANGED <<finalPos, result, outcome, torn>>
        BY <1>1 DEF Start, ListDays, ListTargets, Fetched, LoadPayloads, LoadMeeting, LoadRaces,
               Fail, Fetch, Miss, rowVars
    <2>4. /\ poll'[p].step \in {"idle", "listing", "relisting", "details", "payloads", "meeting",
                                "races", "entries"}
          /\ poll'[p].step = "idle" \/ lock' = p
        <3>1. CASE Start(p)
            BY <1>0, <3>1, Advance DEF Start
        <3>2. CASE Fail(p) \/ (Fetched(p) /\ Release(p))
            BY <1>0, <3>2, Advance DEF Fail
        <3>3. ASSUME ~At(p, "idle"), UNCHANGED lock PROVE lock' = p
            BY <1>0, <3>3 DEF LockHeld
        <3>4. CASE ListDays(p) \/ ListTargets(p)
            BY <1>0, <3>4, <3>3, Advance DEF ListDays, ListTargets, At
        <3>5. CASE \E r \in Races : Fetch(p, r) \/ Miss(p, r)
            BY <1>0, <3>5, <3>3, Advance DEF Fetch, Miss, At
        <3>6. CASE LoadPayloads(p) \/ LoadMeeting(p) \/ LoadRaces(p) \/ (Fetched(p) /\ ~Release(p))
            <4>1. UNCHANGED lock /\ ~At(p, "idle")
                BY <3>6 DEF LoadPayloads, LoadMeeting, LoadRaces, Fetched, At
            <4>2. LoadPayloads(p) \/ Goto(p, "payloads") \/ Goto(p, "races") \/ Goto(p, "entries")
                BY <3>6 DEF LoadMeeting, LoadRaces, Fetched
            <4> QED BY <1>0, <4>1, <4>2, <3>3, Advance
        <3> QED BY <1>1, <3>1, <3>2, <3>4, <3>5, <3>6
    <2> QED BY <1>0, <2>1, <2>2, <2>3, <2>4, StepOutsideLoad
<1>2. ASSUME NEW p \in Pollers, LoadEntries(p)
      PROVE  (LockHeld /\ HalfLoaded /\ CompletedLoadAgrees)'
    <2>1. lock = p /\ lock' = p /\ At(p, "entries")
        BY <1>0, <1>2 DEF LoadEntries, LockHeld, At
    <2>2. \A q \in Pollers \ {p} : poll'[q].step = "idle"
        BY <1>0, <1>2, <2>1, OthersIdle, NobodyPolls DEF LoadEntries, Goto, At
    <2>3. poll'[p].step = "results" /\ poll'[p].got = poll[p].got /\ poll'[p].docs = poll[p].docs
        BY <1>0, <1>2 DEF LoadEntries, Goto
    <2>4. /\ \A r \in poll[p].got : finalPos'[r] = poll[p].docs[r].place
          /\ \A r \in Races \ poll[p].got : finalPos'[r] = finalPos[r]
          /\ torn' = torn \cup poll[p].got /\ UNCHANGED <<result, outcome>>
        BY <1>0, <1>2 DEF LoadEntries
    <2>5. LockHeld'
        BY <2>1, <2>2 DEF LockHeld, At
    <2>6. HalfLoaded'
        BY <2>2, <2>3, <2>4 DEF HalfLoaded, At
    <2>7. CompletedLoadAgrees'
        BY <1>0, <2>4 DEF CompletedLoadAgrees
    <2> QED BY <2>5, <2>6, <2>7
<1>3. ASSUME NEW p \in Pollers, LoadResults(p)
      PROVE  (LockHeld /\ HalfLoaded /\ CompletedLoadAgrees)'
    <2>1. lock = p /\ lock' = p /\ At(p, "results")
        BY <1>0, <1>3 DEF LoadResults, LockHeld, At
    <2>2. \A q \in Pollers \ {p} : poll'[q].step = "idle"
        BY <1>0, <1>3, <2>1, OthersIdle, NobodyPolls DEF LoadResults, Goto, At
    <2>3. poll'[p].step = "repair" /\ poll'[p].got = poll[p].got
        BY <1>0, <1>3 DEF LoadResults, Goto
    <2>4. \A r \in poll[p].got : r \in torn /\ finalPos[r] = poll[p].docs[r].place
        BY <1>0, <2>1 DEF HalfLoaded
    <2>5. /\ \A r \in poll[p].got : \A e \in Runners :
                poll[p].docs[r].place[e] # Null => result'[r][e] = poll[p].docs[r].place[e]
          /\ \A r \in Races \ poll[p].got : \A e \in Runners : result'[r][e] = result[r][e]
          /\ UNCHANGED <<finalPos, outcome, torn>>
        BY <1>0, <1>3 DEF LoadResults
    <2>6. ASSUME NEW r \in poll[p].got, NEW e \in Runners
          PROVE  finalPos[r][e] \in {Null, result'[r][e]}
        BY <2>4, <2>5
    <2>7. LockHeld'
        BY <2>1, <2>2 DEF LockHeld, At
    <2>8. HalfLoaded'
        BY <2>2, <2>3, <2>4, <2>5, <2>6 DEF HalfLoaded, At
    <2>9. CompletedLoadAgrees'
        BY <1>0, <2>4, <2>5 DEF CompletedLoadAgrees
    <2> QED BY <2>7, <2>8, <2>9
<1>4. ASSUME NEW p \in Pollers, RepairEntries(p)
      PROVE  (LockHeld /\ HalfLoaded /\ CompletedLoadAgrees)'
    <2>1. lock = p /\ lock' = p /\ At(p, "repair")
        BY <1>0, <1>4 DEF RepairEntries, LockHeld, At
    <2>2. \A q \in Pollers \ {p} : poll'[q].step = "idle"
        BY <1>0, <1>4, <2>1, OthersIdle, NobodyPolls DEF RepairEntries, Goto, At
    <2>3. poll'[p].step = "outcomes" /\ poll'[p].got = poll[p].got
        BY <1>0, <1>4 DEF RepairEntries, Goto
    <2>4. \A r \in poll[p].got : /\ r \in torn
                                 /\ \A e \in Runners : finalPos[r][e] \in {Null, result[r][e]}
        BY <1>0, <2>1 DEF HalfLoaded
    <2>5. /\ \A r \in poll[p].got : \A e \in Runners :
                finalPos'[r][e] = IF result[r][e] > 0 THEN result[r][e] ELSE finalPos[r][e]
          /\ \A r \in Races \ poll[p].got : \A e \in Runners : finalPos'[r][e] = finalPos[r][e]
          /\ UNCHANGED <<result, outcome, torn>>
        BY <1>0, <1>4 DEF RepairEntries, Repaired
    <2>6. ASSUME NEW r \in poll[p].got, NEW e \in Runners
          PROVE  Aligned(r, e)'
        <3>1. r \in Races
            BY <1>0
        <3>2. result[r][e] \in Int
            BY <3>1, <1>f
        <3>3. ~(Null > 0)
            BY DEF Null
        <3> QED BY <2>4, <2>5, <3>2, <3>3 DEF Aligned
    <2>7. LockHeld'
        BY <2>1, <2>2 DEF LockHeld, At
    <2>8. HalfLoaded'
        BY <2>2, <2>3, <2>4, <2>5, <2>6 DEF HalfLoaded, At
    <2>9. CompletedLoadAgrees'
        BY <1>0, <2>4, <2>5 DEF CompletedLoadAgrees
    <2> QED BY <2>7, <2>8, <2>9
<1>5. ASSUME NEW p \in Pollers, LoadOutcomes(p)
      PROVE  (LockHeld /\ HalfLoaded /\ CompletedLoadAgrees)'
    <2>1. lock = p /\ At(p, "outcomes")
        BY <1>0, <1>5 DEF LoadOutcomes, LockHeld, At
    <2>2. \A q \in Pollers : poll'[q].step = "idle"
        BY <1>0, <1>5, <2>1, OthersIdle, NobodyPolls, IdleTyped DEF LoadOutcomes, Release, At
    <2>3. \A r \in poll[p].got : \A e \in Runners : Aligned(r, e)
        BY <1>0, <2>1 DEF HalfLoaded
    <2>4. /\ \A r \in poll[p].got : \A e \in Runners :
                finalPos[r][e] # Null => outcome'[r][e] = finalPos[r][e]
          /\ \A r \in Races \ poll[p].got : \A e \in Runners : outcome'[r][e] = outcome[r][e]
          /\ torn' = torn \ poll[p].got /\ UNCHANGED <<finalPos, result>>
        BY <1>0, <1>5 DEF LoadOutcomes
    <2>5. LockHeld' /\ HalfLoaded'
        BY <2>2 DEF LockHeld, HalfLoaded, At
    <2>6. CompletedLoadAgrees'
        BY <1>0, <2>3, <2>4 DEF CompletedLoadAgrees, Aligned
    <2> QED BY <2>5, <2>6
<1>6. CASE UNCHANGED <<poll, lock, finalPos, result, outcome, torn>>
    BY <1>0, <1>6 DEF LockHeld, HalfLoaded, Aligned, CompletedLoadAgrees, At
<1>7. ASSUME Source PROVE UNCHANGED <<poll, lock, finalPos, result, outcome, torn>>
    BY <1>7 DEF Source, List, Revise, Remove, TimePasses, Publish, rowVars
<1>8. ASSUME UNCHANGED vars PROVE UNCHANGED <<poll, lock, finalPos, result, outcome, torn>>
    BY <1>8 DEF vars, rowVars
<1> QED BY <1>1, <1>2, <1>3, <1>4, <1>5, <1>6, <1>7, <1>8 DEF Next, Work, Load

\* After a load that went through, entries, result rows and outcomes of its races agree.
THEOREM LoadsAgree == Spec => []CompletedLoadAgrees
<1>1. LoadInv => CompletedLoadAgrees
    BY DEF LoadInv
<1> QED BY <1>1, LoadInit, LoadStep, PTL DEF Spec

-----------------------------------------------------------------------------
(***************************************************************************)
(* The loader implements the card.  A race has a row before its result     *)
(* rows are written, because its load has come through LoadRaces.          *)
(***************************************************************************)
Declared ==
    \A p \in Pollers : \A r \in poll[p].got :
        poll[p].step \in {"entries", "results"} => status[r] # "none"

CardInv == TypeOK /\ Declared

LEMMA CardInit == Init => CardInv /\ Card!Init
<1> SUFFICES ASSUME Init PROVE Declared /\ Card!Init
    BY TypeInit DEF CardInv
<1>1. \A p \in Pollers : poll[p].step = "idle"
    BY IdleTyped DEF Init
<1>2. Card!Init
    BY DEF Init, Card!Init, NoPlace, Card!Null, Null
<1> QED BY <1>1, <1>2 DEF Declared

\* What a step may do to the status of a race.
LEMMA StatusKept ==
    ASSUME TypeOK, NEW p \in Pollers, LoadRaces(p), NEW r \in Races
    PROVE  /\ status'[r] \in {"none", "scheduled", "finished", "abandoned"}
           /\ status'[r] = status[r] \/ status'[r] \in {"finished", "abandoned"} \/ status[r] = "none"
           /\ r \in poll[p].got => status'[r] # "none"
           /\ status[r] # "none" => status'[r] # "none"
<1>1. status[r] \in {"none", "scheduled", "finished", "abandoned"}
    BY DEF TypeOK
<1>2. status'[r] = IF r \in poll[p].got
                   THEN Kept(status[r], RaceStatus(Told(p, r)), {"finished", "abandoned"})
                   ELSE status[r]
    BY DEF LoadRaces
<1>3. RaceStatus(Told(p, r)) \in {"scheduled", "finished", "abandoned"}
    BY DEF RaceStatus
<1> QED BY <1>1, <1>2, <1>3 DEF Kept

LEMMA CardStep == CardInv /\ [Next]_vars => CardInv' /\ [Card!Next]_<<status, result>>
<1> SUFFICES ASSUME CardInv, [Next]_vars PROVE Declared' /\ [Card!Next]_<<status, result>>
    BY TypeStep DEF CardInv
<1>0. /\ TypeOK /\ Declared /\ poll \in [Pollers -> Poll]
      /\ status \in [Races -> {"none", "scheduled", "finished", "abandoned"}]
      /\ \A p \in Pollers : poll[p].got \subseteq Races
    BY DEF CardInv, TypeOK, Poll
<1>1. ASSUME NEW p \in Pollers, LoadRaces(p) PROVE Declared' /\ [Card!Next]_<<status, result>>
    <2>1. /\ \A q \in Pollers : poll'[q].got = poll[q].got
          /\ \A q \in Pollers \ {p} : poll'[q].step = poll[q].step
        BY <1>0, <1>1 DEF LoadRaces, Goto
    <2>2. Declared'
        BY <1>0, <1>1, <2>1, StatusKept DEF Declared
    <2>3. Card!UpdateStatus
        <3>1. status' \in [Races -> {"none", "scheduled"} \cup {"finished", "abandoned"}]
            <4>1. status' = [r \in Races |->
                     IF r \in poll[p].got
                     THEN Kept(status[r], RaceStatus(Told(p, r)), {"finished", "abandoned"})
                     ELSE status[r]]
                BY <1>1 DEF LoadRaces
            <4>2. \A r \in Races : status'[r] \in {"none", "scheduled", "finished", "abandoned"}
                BY <1>0, <1>1, StatusKept
            <4> QED BY <4>1, <4>2
        <3>2. \A r \in Races : \/ status'[r] = status[r]
                               \/ status'[r] \in {"finished", "abandoned"}
                               \/ status[r] = "none"
            BY <1>0, <1>1, StatusKept
        <3>3. UNCHANGED result
            BY <1>1 DEF LoadRaces
        <3> QED BY <3>1, <3>2, <3>3 DEF Card!UpdateStatus, Card!Ended
    <2> QED BY <2>2, <2>3 DEF Card!Next
<1>2. ASSUME NEW p \in Pollers, LoadResults(p) PROVE Declared' /\ [Card!Next]_<<status, result>>
    <2>1. /\ \A q \in Pollers : poll'[q].got = poll[q].got
          /\ \A q \in Pollers \ {p} : poll'[q].step = poll[q].step
          /\ poll'[p].step = "repair" /\ poll[p].step = "results" /\ UNCHANGED status
        BY <1>0, <1>2 DEF LoadResults, Goto, At
    <2>2. Declared'
        BY <1>0, <2>1 DEF Declared
    <2>3. Card!RecordPlacings
        <3>1. \A r \in Races, e \in Runners :
                  result'[r][e] = IF r \in poll[p].got /\ poll[p].docs[r].place[e] # Null
                                  THEN poll[p].docs[r].place[e] ELSE result[r][e]
            BY <1>2 DEF LoadResults
        <3>2. result' \in [Races -> [Runners -> Positions]]
            BY <1>0, <1>2, TypeStep DEF TypeOK
        <3>3. result \in [Races -> [Runners -> Positions]]
            BY <1>0 DEF TypeOK
        <3>4. ASSUME NEW r \in Races, result'[r] # result[r]
              PROVE  status[r] # "none" /\ \A e \in Runners : result[r][e] # Null => result'[r][e] # Null
            <4>1. r \in poll[p].got
                BY <3>1, <3>2, <3>3, <3>4
            <4>2. \A e \in Runners : \/ /\ result'[r][e] = poll[p].docs[r].place[e]
                                        /\ poll[p].docs[r].place[e] # Null
                                     \/ result'[r][e] = result[r][e]
                BY <3>1
            <4> QED BY <1>0, <2>1, <4>1, <4>2 DEF Declared
        <3> QED BY <2>1, <3>2, <3>4 DEF Card!RecordPlacings, Card!Positions, Positions, Card!Null, Null
    <2> QED BY <2>2, <2>3 DEF Card!Next
<1>3. ASSUME UNCHANGED <<status, result>>,
             \A q \in Pollers : \/ poll'[q].step = poll[q].step /\ poll'[q].got = poll[q].got
                                \/ ~(poll'[q].step \in {"entries", "results"})
                                \/ poll[q].step = "entries" /\ poll'[q].got = poll[q].got
      PROVE  Declared' /\ [Card!Next]_<<status, result>>
    BY <1>0, <1>3 DEF Declared
<1>4. ASSUME NEW p \in Pollers,
             \/ LoadEntries(p) \/ RepairEntries(p) \/ LoadOutcomes(p) \/ Start(p) \/ ListDays(p)
             \/ ListTargets(p) \/ Fetched(p) \/ LoadPayloads(p) \/ LoadMeeting(p) \/ Fail(p)
             \/ \E r \in Races : Fetch(p, r) \/ Miss(p, r)
      PROVE  Declared' /\ [Card!Next]_<<status, result>>
    <2>1. UNCHANGED <<status, result>>
        BY <1>4 DEF LoadEntries, RepairEntries, LoadOutcomes, Start, ListDays, ListTargets, Fetched,
               LoadPayloads, LoadMeeting, Fail, Fetch, Miss, rowVars
    <2>2. \A q \in Pollers \ {p} : poll'[q] = poll[q]
        BY <1>0, <1>4 DEF LoadEntries, RepairEntries, LoadOutcomes, Start, ListDays, ListTargets,
               Fetched, LoadPayloads, LoadMeeting, Fail, Fetch, Miss, Goto, Release
    <2>3. \/ ~(poll'[p].step \in {"entries", "results"})
          \/ poll[p].step = "entries" /\ poll'[p].got = poll[p].got
        <3>1. CASE \/ Start(p) \/ ListDays(p) \/ ListTargets(p) \/ LoadPayloads(p)
                   \/ \E r \in Races : Fetch(p, r) \/ Miss(p, r)
            BY <1>0, <3>1, Advance
        <3>2. CASE Fail(p) \/ LoadOutcomes(p) \/ (Fetched(p) /\ Release(p))
            <4>1. Release(p)
                BY <3>2 DEF Fail, LoadOutcomes
            <4> QED BY <1>0, <4>1, Advance
        <3>3. CASE LoadMeeting(p) \/ RepairEntries(p) \/ (Fetched(p) /\ ~Release(p))
            <4>1. Goto(p, "payloads") \/ Goto(p, "races") \/ Goto(p, "outcomes")
                BY <3>3 DEF LoadMeeting, RepairEntries, Fetched
            <4> QED BY <1>0, <4>1, Advance
        <3>4. CASE LoadEntries(p)
            <4>1. Goto(p, "results") /\ poll[p].step = "entries"
                BY <3>4 DEF LoadEntries, At
            <4> QED BY <1>0, <4>1, Advance
        <3> QED BY <1>4, <3>1, <3>2, <3>3, <3>4
    <2> QED BY <1>3, <2>1, <2>2, <2>3
<1>5. ASSUME Source \/ UNCHANGED vars PROVE Declared' /\ [Card!Next]_<<status, result>>
    <2>1. UNCHANGED <<poll, status, result>>
        BY <1>5 DEF Source, List, Revise, Remove, TimePasses, Publish, rowVars, vars
    <2> QED BY <1>3, <2>1
<1> QED BY <1>1, <1>2, <1>4, <1>5 DEF Next, Work, Load

\* The poller and its loader implement what the card promises its readers.
THEOREM KeepsCard == Spec => CardKept
<1> QED BY CardInit, CardStep, PTL DEF Spec, CardKept, Card!Spec, Card!cardVars

=============================================================================
