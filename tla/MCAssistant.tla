---------------------------- MODULE MCAssistant ----------------------------
(***************************************************************************)
(* An instance of Assistant for TLC: one phrase or two per intent of the   *)
(* rules, with the terms of the rules that are substrings of each, and the *)
(* kinds of statement a language model may return.                         *)
(***************************************************************************)
EXTENDS Assistant, TLC

TheInside ==
    ("market movers" :> {"market", "market mover"}) @@
    ("biggest movers" :> {"biggest movers"}) @@
    ("price" :> {"price"}) @@
    ("shortest" :> {"shortest"}) @@
    ("card" :> {"card"}) @@
    ("meeting" :> {"meeting"}) @@
    ("races" :> {"race"}) @@
    ("find horse" :> {"find", "find horse"}) @@
    ("pedigree" :> {"pedigree"}) @@
    ("top sire" :> {"sire", "top sire"}) @@
    ("bloodlines" :> {"bloodline", "bloodlines"}) @@
    ("pattern signals" :> {"pattern", "pattern signal"}) @@
    ("discovery" :> {"discovery"}) @@
    ("top value" :> {"top value"}) @@
    ("market-implied" :> {"market", "market-implied"}) @@
    ("trainer" :> {"trainer"}) @@
    ("over-performing" :> {"over-performing"}) @@
    ("jockey" :> {"jockey"}) @@
    ("smart money" :> {"smart money"}) @@
    ("smart money summary" :> {"smart money", "summary"}) @@
    ("odds summary" :> {"odds", "summary"}) @@
    ("stable signals" :> {"stable signal", "table"}) @@
    ("weather" :> {"weather"}) @@
    ("going" :> {"going"}) @@
    ("transcripts" :> {"transcript"}) @@
    ("ocr" :> {"ocr"}) @@
    ("race summaries" :> {"race", "summaries"}) @@
    ("mentions" :> {"mention"}) @@
    ("show" :> {"show"}) @@
    ("search" :> {"search"}) @@
    ("steamer" :> {"steamer"}) @@
    ("drifter" :> {"drifter"}) @@
    ("gate" :> {"gate"}) @@
    ("speed ratings" :> {}) @@
    ("speed_ratings" :> {}) @@
    ("market signals" :> {"market"})

ThePhrases == DOMAIN TheInside

TheAliases ==
    << <<"smart money summary", "smart_money_daily_summary">>,
       <<"pattern signals", "pattern_signals">>,
       <<"market signals", "market_signals">>,
       <<"race summaries", "race_summaries">>,
       <<"stable signals", "stable_signals">>,
       <<"speed ratings", "speed_ratings">>,
       <<"odds summary", "odds_snapshot_daily_summary">>,
       <<"smart money", "smart_money_indicators">>,
       <<"transcripts", "transcript_segments">>,
       <<"bloodlines", "bloodline_performance">>, <<"pedigree", "pedigrees">>,
       <<"weather", "weather_readings">>, <<"races", "races">>,
       <<"ocr", "ocr_observations">> >>

TheSnakeNames == "speed_ratings" :> "speed_ratings"

TheColumns == {TheAliases[i][2] : i \in DOMAIN TheAliases}

TheTextColumns ==
    {"ocr_observations", "pedigrees", "race_summaries", "races", "transcript_segments"}

TheAllowed == {
    "barrier_outcomes", "bloodline_performance", "discovered_patterns",
    "fixed_odds_tick_daily_summary", "horse_scores",
    "market_signal_daily_summary", "market_signals", "meetings",
    "ocr_observations", "odds_snapshot_daily_summary", "odds_snapshots",
    "pattern_signals", "pedigrees", "race_entries", "race_summaries", "races",
    "runners", "smart_money_daily_summary", "smart_money_indicators",
    "speed_ratings", "stable_signals", "tote_pool_daily_summary",
    "track_condition_readings", "transcript_segments", "weather_readings",
    "weather_stations" }

\* An acceptable statement, one for no rows, one with a name of its own, one with a
\* name the validation leaves out, one that asks for an argument, one limited only
\* inside, one that reads a table the validation does not see, three that are refused.
TheModelPlans ==
    LET M(tables, limit) == Statement("openai", tables, tables, limit, <<>>, <<>>)
    IN  { M({"races"}, 50), M({"races"}, 0), M({"races", "results"}, 50),
          [M({"races", "prices"}, NoLimit) EXCEPT !.ctes = {"prices"}],
          [M({"races"}, 50) EXCEPT !.holes = <<"text">>],
          [M({"races"}, NoLimit) EXCEPT !.first = 1],
          [M({"races"}, 50) EXCEPT !.reads = {"races", "tenants"}],
          M({"tenants"}, 50), M({"races"}, MaxLimit + 1), M({"races", "prices"}, 50) }

=============================================================================
