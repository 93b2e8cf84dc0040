---------------------------- MODULE MeetingQueue ----------------------------
(***************************************************************************)
(* What Race Day promises about the order in which a meeting's races are   *)
(* worked: a run of a meeting has one open race at a time, closing it      *)
(* archives it for good and opens a locked one, and the run is completed   *)
(* exactly when nothing is left to close.  Runners, cameras, clocks, locks *)
(* and requests do not appear: RaceDay adds them and implements this       *)
(* specification.                                                          *)
(***************************************************************************)

CONSTANTS Runs,    \* identities of meeting_runs rows
          Races    \* the races of every meeting

VARIABLES runState,   \* runState[n]: state of the meeting run, "none" if not inserted
          raceRun     \* raceRun[n][r]: state of race r in run n, "none" if not inserted

queueVars == <<runState, raceRun>>

RunStates  == {"none", "active", "completed", "cancelled"}
RaceStates == {"none", "locked", "open", "archived"}

(***************************************************************************)
(* The races of run n in a given state.                                    *)
(***************************************************************************)
RacesIn(n, s) == {r \in Races : raceRun[n][r] = s}

Init ==
    /\ runState = [n \in Runs |-> "none"]
    /\ raceRun  = [n \in Runs |-> [r \in Races |-> "none"]]

(***************************************************************************)
(* A meeting is selected: a new run becomes the active one, any run that   *)
(* was active is cancelled, and the new run has one open race, the others  *)
(* locked behind it.                                                       *)
(***************************************************************************)
Start(n, first, listing) ==
    /\ runState[n] = "none"
    /\ first \in listing
    /\ runState' = [k \in Runs |-> IF k = n THEN "active"
                                   ELSE IF runState[k] = "active" THEN "cancelled"
                                   ELSE runState[k]]
    /\ raceRun' = [raceRun EXCEPT ![n] =
                     [r \in Races |-> IF r = first THEN "open"
                                      ELSE IF r \in listing THEN "locked"
                                      ELSE "none"]]

(***************************************************************************)
(* Races synced later join the active run, locked.                         *)
(***************************************************************************)
Extend(n, listing) ==
    /\ runState[n] = "active"
    /\ raceRun' = [raceRun EXCEPT ![n] =
                     [r \in Races |-> IF r \in listing /\ raceRun[n][r] = "none"
                                      THEN "locked" ELSE raceRun[n][r]]]
    /\ UNCHANGED runState

(***************************************************************************)
(* The open race is archived and a locked one opens.                       *)
(***************************************************************************)
Advance(n, r, next) ==
    /\ raceRun[n][r] = "open"
    /\ raceRun[n][next] = "locked"
    /\ raceRun' = [raceRun EXCEPT ![n][r] = "archived", ![n][next] = "open"]
    /\ UNCHANGED runState

(***************************************************************************)
(* The last race is archived and the run is completed.                     *)
(***************************************************************************)
Complete(n, r) ==
    /\ RacesIn(n, "open") = {r}
    /\ RacesIn(n, "locked") = {}
    /\ raceRun'  = [raceRun EXCEPT ![n][r] = "archived"]
    /\ runState' = [runState EXCEPT ![n] = "completed"]

Next ==
    \E n \in Runs :
       \/ \E listing \in SUBSET Races : \/ \E first \in Races : Start(n, first, listing)
                                        \/ Extend(n, listing)
       \/ \E r \in Races : \/ \E next \in Races : Advance(n, r, next)
                           \/ Complete(n, r)

Spec == Init /\ [][Next]_queueVars

=============================================================================
