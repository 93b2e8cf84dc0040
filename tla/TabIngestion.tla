---------------------------- MODULE TabIngestion ----------------------------
(***************************************************************************)
(* The TAB poller: how the races of one meeting get from the bookmaker's   *)
(* API into the tables.  A poll takes the lock, asks the database which    *)
(* past races still need attention, reads the meeting listing, then each   *)
(* race's event document, and runs the loader, whose statements commit one *)
(* by one.  TAB changes its listing and its documents at any time and does *)
(* not change them together; a request, a statement or the poll itself may *)
(* fail at any step, and the next poll starts over.                        *)
(***************************************************************************)
EXTENDS Integers

CONSTANTS Pollers,        \* invocations of poll_tab_events.sh: the timer's, an operator's
          Races,          \* the races of one meeting in New Zealand, Australia or Hong Kong
          Runners,        \* the entrants of a race: not scratched, with a barrier
          MaxPlace,       \* the largest finishing position
          Docs,           \* event documents TAB may publish
          MaxPublishes,   \* bound on the changes TAB makes
          MaxFailures     \* bound on transient failures

VARIABLES
    listing,      \* listing[r]: race status in TAB's meeting listing, Unlisted if not listed
    detail,       \* detail[r]: TAB's event document, Removed if it has gone
    age,          \* how long ago the meeting was, see Ages
    lock,         \* the poller that holds the lock file, or Nobody
    poll,         \* poll[p]: what a poller knows, and where it is
    payload,      \* payload[r]: the row of tab_event_payloads, NoDoc if none
    meeting,      \* meetings.status, "none" if there is no row
    status,       \* status[r]: races.status, "none" if there is no row
    starts,       \* starts[r]: the start times of the races row that are not NULL
    finalPos,     \* finalPos[r][e]: race_entries.final_position, or Null
    result,       \* result[r][e]: race_results.finish_position, Null if there is no row
    outcome,      \* outcome[r][e]: barrier_outcomes.final_position, Null if there is no row
    torn,         \* history: races whose last load stopped between entries and outcomes
    publishes,    \* number of changes TAB has made
    failures      \* number of transient failures

sourceVars == <<listing, detail, publishes, age>>
rowVars    == <<payload, meeting, status, starts, finalPos, result, outcome>>
vars       == <<sourceVars, lock, poll, rowVars, torn, failures>>

Nobody == "nobody"

(***************************************************************************)
(* A position may be 0, and 0 is not NULL: the loader stores a 0 like any  *)
(* position, and no repair, no recheck takes it for a placing.             *)
(***************************************************************************)
Null      == -1
Positions == 0 .. MaxPlace \cup {Null}
NoPlace   == [e \in Runners |-> Null]

Times   == {"advertised", "actual"}
NoDoc   == [status |-> "none", place |-> NoPlace, times |-> {}]
Removed == [status |-> "removed", place |-> NoPlace, times |-> {}]

(***************************************************************************)
(* "final" stands for Final and Closed, "open" for every other status.  A  *)
(* race may be listed with an empty status.                                *)
(***************************************************************************)
SourceStatus == {"open", "final", "abandoned"}
Unlisted     == "unlisted"
Listings     == SourceStatus \cup {"", Unlisted}

ASSUME DocsAreDocuments == Docs \subseteq [status : SourceStatus, place : [Runners -> Positions],
                                           times : SUBSET Times]
ASSUME PlacesAreCounted == MaxPlace \in Nat
ASSUME BoundsCounted    == MaxPublishes \in Nat /\ MaxFailures \in Nat
ASSUME NobodyPolls      == Nobody \notin Pollers

(***************************************************************************)
(* 0: the day of the races, or the day before; 1: the same window, and the *)
(* races started hours ago; 2: older than LOOKBACK_DAYS, and within        *)
(* RECONCILE_DAYS, which is as far as the model goes.                      *)
(***************************************************************************)
Ages == 0 .. 2

Steps == {"idle", "listing", "relisting", "details", "payloads", "meeting", "races",
          "entries", "results", "repair", "outcomes"}
Loading == {"payloads", "meeting", "races", "entries", "results", "repair", "outcomes"}

Idle == [step    |-> "idle",
         age     |-> 0,                            \* the meeting's age when the poll started
         targets |-> {},                           \* races to recheck
         listed  |-> [r \in Races |-> Unlisted],   \* listing_statuses
         pending |-> {},                           \* event documents not asked for yet
         got     |-> {},                           \* races with a line in the JSONL file
         docs    |-> [r \in Races |-> NoDoc]]      \* their documents, NoDoc: status only

Poll == [step : Steps, age : Ages, targets : SUBSET Races, listed : [Races -> Listings],
         pending : SUBSET Races, got : SUBSET Races, docs : [Races -> Docs \cup {NoDoc}]]

At(p, s) == poll[p].step = s

(***************************************************************************)
(* The poller has done what its step asked for.                            *)
(***************************************************************************)
Goto(p, s) == poll' = [poll EXCEPT ![p].step = s]

Release(p) == /\ poll' = [poll EXCEPT ![p] = Idle]
              /\ lock' = Nobody

\* mutant: a row follows TAB wherever it goes
KeptNever(old, new, ended) == new

(***************************************************************************)
(* A terminal state of a row is not overwritten by a scheduled one.        *)
(***************************************************************************)
Kept(old, new, ended) == IF old \in ended /\ new = "scheduled" THEN old ELSE new

\* mutant: the listing's status is stored as it is
RaceStatusRaw(s) == s

RaceStatus(s) ==
    CASE s = "final"     -> "finished"
      [] s = "abandoned" -> "abandoned"
      [] OTHER           -> "scheduled"

MeetingStatus(s) ==
    CASE s = "final"     -> "completed"
      [] s = "abandoned" -> "abandoned"
      [] OTHER           -> "scheduled"

(***************************************************************************)
(* The status a load goes by: the listing's, if it had one.                *)
(***************************************************************************)
Told(p, r) == IF poll[p].listed[r] \in SourceStatus THEN poll[p].listed[r]
                                                    ELSE poll[p].docs[r].status

-----------------------------------------------------------------------------
(***************************************************************************)
(* TAB and the calendar.                                                   *)
(***************************************************************************)
Init ==
    /\ listing \in [Races -> {"open"}]
    /\ detail \in [Races -> {d \in Docs : d.status = "open" /\ d.place = NoPlace}]
    /\ age = 0
    /\ lock = Nobody
    /\ poll = [p \in Pollers |-> Idle]
    /\ payload = [r \in Races |-> NoDoc]
    /\ meeting = "none"
    /\ status = [r \in Races |-> "none"]
    /\ starts = [r \in Races |-> {}]
    /\ finalPos = [r \in Races |-> NoPlace]
    /\ result = [r \in Races |-> NoPlace]
    /\ outcome = [r \in Races |-> NoPlace]
    /\ torn = {}
    /\ publishes = 0
    /\ failures = 0

Publish ==
    /\ publishes < MaxPublishes
    /\ publishes' = publishes + 1
    /\ UNCHANGED <<age, lock, poll, rowVars, torn, failures>>

List(r) ==
    /\ \E s \in Listings \ {listing[r]} : listing' = [listing EXCEPT ![r] = s]
    /\ UNCHANGED detail
    /\ Publish

Revise(r) ==
    /\ \E d \in Docs \ {detail[r]} : detail' = [detail EXCEPT ![r] = d]
    /\ UNCHANGED listing
    /\ Publish

(***************************************************************************)
(* TAB can remove the event document of an abandoned race.                 *)
(***************************************************************************)
Remove(r) ==
    /\ listing[r] = "abandoned"
    /\ detail[r] # Removed
    /\ detail' = [detail EXCEPT ![r] = Removed]
    /\ UNCHANGED listing
    /\ Publish

(***************************************************************************)
(* A poll is over before the meeting has aged twice.                       *)
(***************************************************************************)
TimePasses ==
    /\ age < 2
    /\ \A p \in Pollers : ~At(p, "idle") => poll[p].age = age
    /\ age' = age + 1
    /\ UNCHANGED <<listing, detail, publishes, lock, poll, rowVars, torn, failures>>

-----------------------------------------------------------------------------
(***************************************************************************)
(* poll_tab_events.sh: the lock, and the races outside the window that     *)
(* still need attention: scheduled long after their advertised start       *)
(* unless the meeting was abandoned, or finished without any result row,   *)
(* or with an entry that disagrees with a placing.  A race without a start *)
(* time is never one of them.                                              *)
(***************************************************************************)
NoResults(r) == \A e \in Runners : result[r][e] = Null

Mismatch(r) == \E e \in Runners : result[r][e] > 0 /\ finalPos[r][e] # result[r][e]

\* mutant: only finished races are rechecked
TargetFinished(r) ==
    age >= 1 /\ status[r] = "finished" /\ starts[r] # {} /\ (NoResults(r) \/ Mismatch(r))

\* mutant: a race without results is not rechecked
TargetMismatched(r) ==
    /\ age >= 1
    /\ \/ status[r] = "scheduled" /\ meeting # "abandoned" /\ "advertised" \in starts[r]
       \/ status[r] = "finished" /\ starts[r] # {} /\ Mismatch(r)

Target(r) ==
    /\ age >= 1
    /\ \/ status[r] = "scheduled" /\ meeting # "abandoned" /\ "advertised" \in starts[r]
       \/ status[r] = "finished" /\ starts[r] # {} /\ (NoResults(r) \/ Mismatch(r))

\* mutant: the lock is not tested
StartUnlocked(p) ==
    /\ At(p, "idle")
    /\ lock' = p
    /\ poll' = [poll EXCEPT ![p] = [Idle EXCEPT !.step    = "listing",
                                                !.age     = age,
                                                !.targets = {r \in Races : Target(r)}]]
    /\ UNCHANGED <<sourceVars, rowVars, torn, failures>>

Start(p) ==
    /\ lock = Nobody
    /\ At(p, "idle")
    /\ lock' = p
    /\ poll' = [poll EXCEPT ![p] = [Idle EXCEPT !.step    = "listing",
                                                !.age     = age,
                                                !.targets = {r \in Races : Target(r)}]]
    /\ UNCHANGED <<sourceVars, rowVars, torn, failures>>

(***************************************************************************)
(* fetch_tab_event_history.py: the listing of the window's days, ...       *)
(***************************************************************************)
ListDays(p) ==
    /\ At(p, "listing")
    /\ poll' = [poll EXCEPT ![p].step   = "relisting",
                            ![p].listed = IF poll[p].age < 2 THEN listing ELSE @]
    /\ UNCHANGED <<sourceVars, lock, rowVars, torn, failures>>

(***************************************************************************)
(* ... then of the targets' days, which overrides it for the targets.  The *)
(* documents of targets and of all races listed in the window are fetched. *)
(***************************************************************************)
ListTargets(p) ==
    /\ At(p, "relisting")
    /\ LET listed == [r \in Races |-> IF r \in poll[p].targets /\ listing[r] # Unlisted
                                      THEN listing[r] ELSE poll[p].listed[r]]
           events == poll[p].targets \cup {r \in Races : poll[p].listed[r] # Unlisted} IN
       poll' = [poll EXCEPT ![p].step    = "details",
                            ![p].listed  = listed,
                            ![p].pending = events]
    /\ UNCHANGED <<sourceVars, lock, rowVars, torn, failures>>

(***************************************************************************)
(* The event documents arrive in any order.  A race whose document cannot  *)
(* be had gets a line with its status alone if it is listed as abandoned,  *)
(* and no line otherwise.                                                  *)
(***************************************************************************)
Fetch(p, r) ==
    /\ At(p, "details")
    /\ r \in poll[p].pending
    /\ detail[r] # Removed
    /\ poll' = [poll EXCEPT ![p].pending = @ \ {r},
                            ![p].got     = @ \cup {r},
                            ![p].docs[r] = detail[r]]
    /\ UNCHANGED <<sourceVars, lock, rowVars, torn, failures>>

Miss(p, r) ==
    /\ At(p, "details")
    /\ r \in poll[p].pending
    /\ \/ detail[r] = Removed /\ UNCHANGED failures
       \/ failures < MaxFailures /\ failures' = failures + 1
    /\ poll' = [poll EXCEPT ![p].pending = @ \ {r},
                            ![p].got     = IF poll[p].listed[r] = "abandoned" THEN @ \cup {r} ELSE @]
    /\ UNCHANGED <<sourceVars, lock, rowVars, torn>>

(***************************************************************************)
(* Nothing fetched: nothing to load.                                       *)
(***************************************************************************)
Fetched(p) ==
    /\ At(p, "details")
    /\ poll[p].pending = {}
    /\ IF poll[p].got = {} THEN Release(p)
                           ELSE Goto(p, "payloads") /\ UNCHANGED lock
    /\ UNCHANGED <<sourceVars, rowVars, torn, failures>>

-----------------------------------------------------------------------------
(***************************************************************************)
(* load_tab_event_payloads.sql, statement by statement.  The full          *)
(* documents are stored; a line with a status alone is loaded with the     *)
(* document stored before, and is dropped if there is none.                *)
(***************************************************************************)
LoadPayloads(p) ==
    /\ At(p, "payloads")
    /\ LET full   == {r \in poll[p].got : poll[p].docs[r] # NoDoc}
           stored == [r \in Races |-> IF r \in full THEN poll[p].docs[r] ELSE payload[r]] IN
       /\ payload' = stored
       /\ poll' = [poll EXCEPT ![p].step = "meeting",
                               ![p].got  = {r \in @ : stored[r] # NoDoc},
                               ![p].docs = stored]
    /\ UNCHANGED <<sourceVars, lock, meeting, status, starts, finalPos, result, outcome, torn,
                   failures>>

(***************************************************************************)
(* DISTINCT ON (meeting_id): the meeting's status is that of some race.    *)
(***************************************************************************)
LoadMeeting(p) ==
    /\ At(p, "meeting")
    /\ IF poll[p].got = {}
       THEN UNCHANGED meeting
       ELSE \E r \in poll[p].got :
               meeting' = Kept(meeting, MeetingStatus(Told(p, r)), {"completed", "abandoned"})
    /\ Goto(p, "races")
    /\ UNCHANGED <<sourceVars, lock, payload, status, starts, finalPos, result, outcome, torn,
                   failures>>

LoadRaces(p) ==
    /\ At(p, "races")
    /\ status' = [r \in Races |->
                     IF r \in poll[p].got
                     THEN Kept(status[r], RaceStatus(Told(p, r)), {"finished", "abandoned"})
                     ELSE status[r]]
    /\ starts' = [r \in Races |-> IF r \in poll[p].got THEN poll[p].docs[r].times ELSE starts[r]]
    /\ Goto(p, "entries")
    /\ UNCHANGED <<sourceVars, lock, payload, meeting, finalPos, result, outcome, torn, failures>>

(***************************************************************************)
(* An entry takes its position from the document's results, or NULL.       *)
(***************************************************************************)
LoadEntries(p) ==
    /\ At(p, "entries")
    /\ finalPos' = [r \in Races |-> IF r \in poll[p].got THEN poll[p].docs[r].place
                                                         ELSE finalPos[r]]
    /\ torn' = torn \cup poll[p].got
    /\ Goto(p, "results")
    /\ UNCHANGED <<sourceVars, lock, payload, meeting, status, starts, result, outcome, failures>>

(***************************************************************************)
(* Result rows are inserted and updated, never deleted; a position of 0    *)
(* replaces a placing.                                                     *)
(***************************************************************************)
LoadResults(p) ==
    /\ At(p, "results")
    /\ result' = [r \in Races |-> [e \in Runners |->
                     IF r \in poll[p].got /\ poll[p].docs[r].place[e] # Null
                     THEN poll[p].docs[r].place[e] ELSE result[r][e]]]
    /\ Goto(p, "repair")
    /\ UNCHANGED <<sourceVars, lock, payload, meeting, status, starts, finalPos, outcome, torn, failures>>

(***************************************************************************)
(* A placing of a result row is authoritative for the entry's position.    *)
(***************************************************************************)
Repaired(p) == [r \in Races |-> [e \in Runners |->
                   IF r \in poll[p].got /\ result[r][e] > 0 THEN result[r][e] ELSE finalPos[r][e]]]

RepairEntries(p) ==
    /\ At(p, "repair")
    /\ finalPos' = Repaired(p)
    /\ Goto(p, "outcomes")
    /\ UNCHANGED <<sourceVars, lock, payload, meeting, status, starts, result, outcome, torn, failures>>

(***************************************************************************)
(* Entries with a position get a barrier outcome.  The statements that     *)
(* follow (odds, pools, signals, scores) write no table of this module.    *)
(***************************************************************************)
LoadOutcomes(p) ==
    /\ At(p, "outcomes")
    /\ outcome' = [r \in Races |-> [e \in Runners |->
                      IF r \in poll[p].got /\ finalPos[r][e] # Null
                      THEN finalPos[r][e] ELSE outcome[r][e]]]
    /\ torn' = torn \ poll[p].got
    /\ Release(p)
    /\ UNCHANGED <<sourceVars, payload, meeting, status, starts, finalPos, result, failures>>

(***************************************************************************)
(* A listing request fails after its retries, a statement fails, or the    *)
(* poller is killed: set -e ends the poll, committed statements stay.      *)
(***************************************************************************)
Fail(p) ==
    /\ ~At(p, "idle")
    /\ failures < MaxFailures
    /\ failures' = failures + 1
    /\ Release(p)
    /\ UNCHANGED <<sourceVars, rowVars, torn>>

-----------------------------------------------------------------------------
Load(p) == \/ LoadPayloads(p) \/ LoadMeeting(p) \/ LoadRaces(p) \/ LoadEntries(p)
           \/ LoadResults(p) \/ RepairEntries(p) \/ LoadOutcomes(p)

Work(p) == \/ Start(p) \/ ListDays(p) \/ ListTargets(p)
           \/ \E r \in Races : Fetch(p, r) \/ Miss(p, r)
           \/ Fetched(p) \/ Load(p)

Source == \/ \E r \in Races : List(r) \/ Revise(r) \/ Remove(r)
          \/ TimePasses

Next == Source \/ \E p \in Pollers : Work(p) \/ Fail(p)

(***************************************************************************)
(* The timer starts the poller every minute, and a poll that is running    *)
(* goes on: requests time out, statements end.                             *)
(***************************************************************************)
Spec == Init /\ [][Next]_vars /\ WF_vars(\E p \in Pollers : Work(p))

-----------------------------------------------------------------------------
TypeOK ==
    /\ listing \in [Races -> Listings]
    /\ detail \in [Races -> Docs \cup {Removed}]
    /\ age \in Ages
    /\ lock \in Pollers \cup {Nobody}
    /\ poll \in [Pollers -> Poll]
    /\ payload \in [Races -> Docs \cup {NoDoc}]
    /\ meeting \in {"none", "scheduled", "completed", "abandoned"}
    /\ status \in [Races -> {"none", "scheduled", "finished", "abandoned"}]
    /\ starts \in [Races -> SUBSET Times]
    /\ finalPos \in [Races -> [Runners -> Positions]]
    /\ result \in [Races -> [Runners -> Positions]]
    /\ outcome \in [Races -> [Runners -> Positions]]
    /\ torn \subseteq Races
    /\ publishes \in 0..MaxPublishes
    /\ failures \in 0..MaxFailures

(***************************************************************************)
(* Once a load of a race has gone through, a placing of a result row is    *)
(* the position of its entry, and a position of an entry is that of its    *)
(* result row and of its barrier outcome, whatever earlier polls left      *)
(* behind half-done and even if TAB meanwhile dropped or revoked placings. *)
(***************************************************************************)
CompletedLoadAgrees ==
    \A r \in Races \ torn : \A e \in Runners :
        /\ result[r][e] > 0 => finalPos[r][e] = result[r][e]
        /\ finalPos[r][e] # Null => result[r][e] = finalPos[r][e] /\ outcome[r][e] = finalPos[r][e]

(***************************************************************************)
(* The loader keeps what readers of the card rely on.                      *)
(***************************************************************************)
Card == INSTANCE RaceCard
          WITH Races <- Races, Runners <- Runners, MaxPlace <- MaxPlace,
               status <- status, result <- result
CardKept == Card!Spec

(***************************************************************************)
(* A race that TAB has ended does not stay scheduled, unless its meeting   *)
(* counts as abandoned or its row has no advertised start: polls that      *)
(* fail, stale documents and documents that are gone only delay it, also   *)
(* after its day has left the window.                                      *)
(***************************************************************************)
Unresolved(r) ==
    /\ status[r] = "scheduled" /\ meeting # "abandoned" /\ "advertised" \in starts[r]
    /\ \/ listing[r] = "abandoned"
       \/ listing[r] = "final" /\ detail[r] # Removed

EndsAreNoticed == \A r \in Races : Unresolved(r) ~> ~Unresolved(r)

(***************************************************************************)
(* A race with a start time that was called finished before any position   *)
(* was out gets its result rows when there are positions.                  *)
(***************************************************************************)
Unplaced(r) ==
    /\ status[r] = "finished" /\ NoResults(r) /\ starts[r] # {}
    /\ listing[r] # Unlisted
    /\ detail[r] # Removed /\ \E e \in Runners : detail[r].place[e] # Null

PlacingsArrive == \A r \in Races : Unplaced(r) ~> ~Unplaced(r)

(***************************************************************************)
(* "Late results or a transient poll failure must not leave history gaps": *)
(* a finished race with a start time but without the barrier outcomes of   *)
(* its placings is one that a poll comes back to.                          *)
(***************************************************************************)
Gap(r) == /\ status[r] = "finished" /\ starts[r] # {}
          /\ \E e \in Runners : result[r][e] > 0 /\ outcome[r][e] # result[r][e]

NoHistoryGaps == \A r \in Races : Gap(r) /\ lock = Nobody => age < 2 \/ Target(r)
=============================================================================
