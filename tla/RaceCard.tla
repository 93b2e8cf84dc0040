------------------------------ MODULE RaceCard ------------------------------
(***************************************************************************)
(* What the tables races and race_results promise their readers (the API,  *)
(* Race Day, scoring, the statistics): a race that has ended does not go   *)
(* back on the card, a result row may be corrected, also to position 0,    *)
(* but is never taken away, and result rows belong to races that are on    *)
(* the card.  TabIngestion, which writes the tables, implements this       *)
(* specification.                                                          *)
(***************************************************************************)
EXTENDS Integers

CONSTANTS Races, Runners, MaxPlace

VARIABLES status,   \* status[r]: races.status, "none" if there is no row
          result    \* result[r][e]: race_results.finish_position, Null if there is no row

cardVars == <<status, result>>

Null      == -1
Positions == 0 .. MaxPlace \cup {Null}
Ended     == {"finished", "abandoned"}

Init ==
    /\ status = [r \in Races |-> "none"]
    /\ result = [r \in Races |-> [e \in Runners |-> Null]]

(***************************************************************************)
(* Any number of races are declared, end, or have their ending corrected.  *)
(***************************************************************************)
UpdateStatus ==
    /\ status' \in [Races -> {"none", "scheduled"} \cup Ended]
    /\ \A r \in Races : \/ status'[r] = status[r]
                        \/ status'[r] \in Ended
                        \/ status[r] = "none"
    /\ UNCHANGED result

(***************************************************************************)
(* Positions of declared races are recorded or corrected.                  *)
(***************************************************************************)
RecordPlacings ==
    /\ result' \in [Races -> [Runners -> Positions]]
    /\ \A r \in Races : result'[r] # result[r] =>
          /\ status[r] # "none"
          /\ \A e \in Runners : result[r][e] # Null => result'[r][e] # Null
    /\ UNCHANGED status

Next == UpdateStatus \/ RecordPlacings

Spec == Init /\ [][Next]_cardVars
=============================================================================
