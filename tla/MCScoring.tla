----------------------------- MODULE MCScoring -----------------------------
(***************************************************************************)
(* An instance of Scoring for TLC: a race of one runner and a late entry   *)
(* without a price, between two races that have no runners yet; of the     *)
(* three, two fit into a cycle.                                            *)
(***************************************************************************)
EXTENDS Scoring

TheRaceOf   == (1 :> 1) @@ (2 :> 1)
TheStart    == (0 :> 0) @@ (1 :> 0) @@ (2 :> 1)
TheOpening  == (1 :> 2) @@ (2 :> 0)
TheRates    == (1 :> <<120, 2000>>) @@ (2 :> <<>>)

\* No field is left out; that it is compared makes TLC keep the table.
ASSUME EveryFieldHasProbabilities ==
    FieldProbabilities # [ps \in {<<>>} |-> <<>>]

=============================================================================
