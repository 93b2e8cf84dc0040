----------------------------- MODULE MCRaceDay -----------------------------
(***************************************************************************)
(* Instances of RaceDay for TLC: a meeting with two races and one with a   *)
(* single race, a runner each, of which one race or one entry is synced    *)
(* only after the day has started.                                         *)
(***************************************************************************)
EXTENDS RaceDay, TLC

CONSTANTS m1, m2, r1, r2, r3, e1, e2, e3, e4

TheMeetings == {m1, m2}
TheRaces    == {r1, r2, r3}
TheEntries  == {e1, e2, e3, e4}

TheMeetingOf == (r1 :> m1) @@ (r2 :> m1) @@ (r3 :> m2)
TheNumber    == (r1 :> 1) @@ (r2 :> 2) @@ (r3 :> 1)
TheRaceOf    == (e1 :> r1) @@ (e2 :> r2) @@ (e3 :> r3) @@ (e4 :> r1)

\* r2 is synced late; m1's first race jumps at 1, the late one is scheduled at 1 too
TheListed   == {r1, r3}
TheDeclared == {e1, e3, e4}
TheSched    == (r1 :> 1) @@ (r2 :> 1) @@ (r3 :> NoTime)

\* the instance of the liveness run: one runner, in the race of the small meeting
FewEntries  == {e3}
FewRaceOf   == (e3 :> r3)
FewDeclared == {e3}

Symm == Permutations(Runs) \cup Permutations(Reqs)

=============================================================================
