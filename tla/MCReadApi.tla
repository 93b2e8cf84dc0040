------------------------------ MODULE MCReadApi ------------------------------
(***************************************************************************)
(* An instance of ReadApi for TLC: a race run the day before, the race of  *)
(* today that is being loaded, with two of the same horses on another      *)
(* track, and one of its meeting without entries.                          *)
(***************************************************************************)
EXTENDS ReadApi, TLC

CONSTANTS past, live, bare, m1, m2, p1, p2, p3, l1, l2, l3, l4

TheRaceOf == [e \in Entries |-> IF e \in {p1, p2, p3} THEN past ELSE live]

OfPast(a, b, c)    == (p1 :> a) @@ (p2 :> b) @@ (p3 :> c)
OfLive(a, b, c, d) == (l1 :> a) @@ (l2 :> b) @@ (l3 :> c) @@ (l4 :> d)

MeetingAt(track, day) == [track |-> track, day |-> day]
RaceIn(meeting, number, distance, class) ==
    [meeting |-> meeting, number |-> number, distance |-> distance, class |-> class,
     surface |-> "turf"]
From(barrier, trainer, jockey) == [barrier |-> barrier, trainer |-> trainer, jockey |-> jockey]

\* Everything as TAB has it first; what a document changes is said with it.
Today ==
    [meeting |-> MeetingAt(1, 2), race |-> RaceIn(m2, 1, 1600, "R65"), going |-> "good",
     status |-> "scheduled", scratched |-> {}, horse |-> OfLive("a", "b", "d", ""),
     entry |-> OfLive(From(2, "T", "J"), From(1, "U", "J"), From(4, "", "K"), From(3, "U", "")),
     place |-> OfLive(Null, Null, Null, Null), price |-> OfLive(2, 4, 6, 8),
     flucs |-> OfLive({}, {}, {}, {})]

Yesterday ==
    [meeting |-> MeetingAt(2, 1), race |-> RaceIn(m1, 1, 1200, "R65"), going |-> "good",
     status |-> "finished", scratched |-> {}, horse |-> OfPast("a", "b", "c"),
     entry |-> OfPast(From(1, "T", "J"), From(2, "T", "K"), From(2, "", "L")),
     place |-> OfPast(1, 2, 3), price |-> OfPast(2, 2, 2), flucs |-> OfPast({}, {}, {})]

TheDocs ==
    (live :> {Today,
              [Today EXCEPT !.scratched = {l4}, !.price = OfLive(3, 3, 6, 0), !.flucs[l1] = {<<0, 5>>},
                            !.entry[l1].barrier = 3, !.entry[l4].barrier = Null],
              [Today EXCEPT !.status = "finished", !.place = OfLive(1, 2, 3, 4), !.going = "soft"],
              [Today EXCEPT !.status = "finished", !.place = OfLive(1, 0, Null, Null),
                            !.price = OfLive(2, 5, 6, 8), !.race.distance = 1200,
                            !.entry[l2].barrier = Null, !.meeting.day = 1]})
 @@ (past :> {[Yesterday EXCEPT !.place = OfPast(2, 1, 3), !.price = OfPast(2, 3, 9),
                                !.race.distance = 1600, !.going = "soft", !.entry[p3].barrier = 3]})
 @@ (bare :> {})

\* The past race loaded, its prices seen n times; live and bare are listed
\* when they have a number.
Loaded(n, numbers) ==
    LET OfOne(S, x, y) == [e \in Entries |-> IF e \in S THEN x ELSE y]
        place == OfPast(1, 2, 3) @@ OfLive(Null, Null, Null, Null)
    IN  [meeting |-> (m1 :> MeetingAt(2, 1)) @@ (m2 :> MeetingAt(1, 2)),
         listed |-> {past} \cup DOMAIN numbers,
         race |-> (past :> Yesterday.race)
               @@ [r \in DOMAIN numbers |-> RaceIn(m2, numbers[r], 1200, "MDN")]
               @@ [r \in {live, bare} |-> RaceIn(m2, 0, Null, "UNKNOWN")],
         status |-> [r \in Races |-> IF r = past THEN "finished" ELSE "scheduled"],
         horse |-> Yesterday.horse @@ OfLive("", "", "", ""),
         entered |-> Runs(past), scratched |-> {},
         entry |-> Yesterday.entry @@ [e \in Entries |-> From(Null, "", "")],
         position |-> place, result |-> place,
         going |-> [r \in Races |-> IF r = past THEN "good" ELSE ""],
         outcome |-> [e \in Entries |->
                         IF e \in Runs(past)
                         THEN [zone |-> OutcomeZone(Yesterday.entry[e].barrier, 3),
                               barrier |-> Yesterday.entry[e].barrier, field |-> 3,
                               position |-> place[e], track |-> 2, day |-> 1, distance |-> 1200,
                               class |-> "R65", surface |-> "turf", going |-> "good"]
                         ELSE NoOutcome],
         snaps |-> OfOne(Runs(past), [i \in 1 .. n |-> <<i, 2>>], <<>>),
         ticks |-> OfOne(Runs(past), {<<i, 2>> : i \in 1 .. n}, {}),
         moves |-> OfOne({}, {}, {}),
         counted |-> OfOne(Runs(past), [firm |-> 0, drift |-> 0, ticks |-> n],
                           [firm |-> 0, drift |-> 0, ticks |-> 0]),
         cells |-> {}]

OneRace == {"race", "odds", "analysis", "context", "fit"}
TheKinds == OneRace \cup {"list", "people", "pulse", "barriers", "heatmap"}

TheAsks == [k \in TheKinds |-> IF k = "list" THEN 3 ELSE IF k \in {"fit", "people"} THEN 2 ELSE 1]

TheBefore ==
    [k \in TheKinds |->
        CASE k = "odds" -> {Loaded(n, bare :> 2) : n \in {1, 6, 7, 9, 12}}
          [] k = "list" -> LET two == {Loaded(2, (live :> 1) @@ (bare :> n)) : n \in {1, 2}}
                           IN  two \cup {[t EXCEPT !.meeting[m1] = MeetingAt(1, 2)] : t \in two}
          [] OTHER      -> {Loaded(2, bare :> 2)}]

TheLoads == [k \in TheKinds |-> IF k \in {"analysis", "context"} THEN 2 ELSE 1]

Days == {{1, 2}, {2}}
TheAbout ==
    [k \in TheKinds |->
        CASE k = "odds" -> [kind : {k}, race : {past, live}]
          [] k \in OneRace \ {"odds"} -> [kind : {k}, race : {live}]
          [] k \in {"list", "pulse"} -> [kind : {k}, days : Days]
          [] k = "people" -> [kind : {k}, days : {{1, 2}}, role : {"trainer", "jockey"},
                              order : {"win_rate", "roi"}]
          [] k = "barriers" -> [kind : {k},
                                where : {[track |-> {1}], [track |-> {2}],
                                         [track |-> {2}, going |-> {"good"}, distance |-> {1200}],
                                         [track |-> {2}, distance |-> {1600}]}]
          [] OTHER -> [kind : {k}, band : {NoBand, "middle", "sprint"},
                       where : {[track |-> {1}], [track |-> {2}],
                                [track |-> {2}, going |-> {"good"}]}]]

=============================================================================
