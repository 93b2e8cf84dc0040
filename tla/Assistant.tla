----------------------------- MODULE Assistant -----------------------------
(***************************************************************************)
(* The assistant (services/api/app/assistant_service.py): a question in    *)
(* plain words becomes one SELECT statement, through the language model    *)
(* when it answers with an acceptable statement and through an ordered     *)
(* list of rules otherwise.  The statement is validated and executed       *)
(* read-only.                                                              *)
(*                                                                         *)
(* A question is the set of phrases it is made of.  Most tests of the code *)
(* are substring tests, so a phrase sets off every term inside it.  A      *)
(* statement is what the validation sees of it (the names its expression   *)
(* finds after FROM and JOIN, WITH names, the first LIMIT), what it really *)
(* does (the tables it reads, the LIMIT of the whole), and which kind of   *)
(* value each placeholder stands for.  The two agree in the statements of  *)
(* the rules, and need not in a statement of the language model.           *)
(***************************************************************************)
EXTENDS Naturals, Sequences

CONSTANTS
    Phrases,       \* what a question is made of
    Inside,        \* Inside[p]: the terms of the rules that are substrings of phrase p
    Aliases,       \* TABLE_ALIASES in use, longest first: <<phrase, table>>
    SnakeNames,    \* SnakeNames[p]: the table a snake_case phrase names; other phrases have none
    Columns,       \* keys of TABLE_SEARCH_COLUMNS
    TextColumns,   \* keys of TEXT_SEARCH_TABLES
    Allowed,       \* ALLOWED_TABLES
    ModelPlans,    \* statements the language model may come up with
    NoPlan,        \* a rule does not apply, a provider returns None
    NoLimit        \* the statement has no LIMIT

DefaultLimit == 100
MaxLimit     == 200

VARIABLES
    question,  \* the question: phrases said and values the extractors find in it
    plan,      \* the plan being made, NoPlan before there is one
    pc,        \* "model", "rules", "check", "run", "done"
    answer     \* "", "rows", "empty", "refused" (400), "error" (500)

vars == <<question, plan, pc, answer>>

\* Two phrases (bound), and what the extractors find: the time it is about (today
\* or "last N days"; "week" only changes the number), whether it has a track, a
\* distance, a condition, a search term, the name of a runner.
Questions ==
    [said : {{p, r} : p \in Phrases, r \in Phrases},
     time : {"", "today", "days"},
     track : BOOLEAN, distance : BOOLEAN, condition : BOOLEAN,
     term : BOOLEAN, runner : BOOLEAN]

Statement(provider, seen, reads, limit, holes, params) ==
    [provider |-> provider, seen |-> seen, reads |-> reads, ctes |-> {}, first |-> limit,
     limit |-> limit, holes |-> holes, params |-> params]

\* A rule's statement names each of its tables after FROM or JOIN.  holes[i] is
\* the kind of value $i stands for.
Rule(tables, holes, params) == Statement("rule_based", tables, tables, 50, holes, params)

-----------------------------------------------------------------------------
(* Tests on the words of a question                                        *)

Mentions(q, terms) == \E p \in q.said : Inside[p] \cap terms # {}
Today(q) == q.time = "today"

Shortest == {"shortest", "lowest", "favourite", "favorite"}

IsMarketMover(q) == Mentions(q, {"market mover", "biggest movers", "price movers"})
IsOdds(q) == Mentions(q, {"odds", "price", "market"} \cup Shortest)
IsValue(q) ==
    Mentions(q, {"horse score", "alpha score", "alpha runners", "top alpha", "top-scored",
                 "top scored", "leaderboard", "betman probability", "betman edge",
                 "probability edge", "biggest edge", "market-implied", "market implied",
                 "value score", "value runner", "top value"})
IsRaceCard(q) ==
    q.time \in {"today", "days"} /\ Mentions(q, {"race", "card", "meeting"})

\* An alias counts only next to a word that asks for a listing; the longest
\* alias wins.  A snake_case name counts by itself.
TableReference(q) ==
    LET asked == {i \in DOMAIN Aliases : Aliases[i][1] \in q.said}
        snake == {SnakeNames[p] : p \in q.said \cap DOMAIN SnakeNames} \cap Columns
    IN  IF asked # {} /\ Mentions(q, {"show", "list", "search", "table", "recent", "latest", "all"})
        THEN {Aliases[i][2] : i \in {m \in asked : \A n \in asked : m <= n}}
        ELSE snake

-----------------------------------------------------------------------------
(* The builders of plans several rules share                               *)

\* The date clause of movers, value runners and race cards: a question about
\* today compares with CURRENT_DATE and binds nothing.
Dated(q, reads) ==
    IF Today(q) THEN Rule(reads, <<>>, <<>>) ELSE Rule(reads, <<"days">>, <<"days">>)

\* A WHERE clause for the search term, when the table has text to search.
TableScan(q, table) ==
    LET args == IF q.term /\ table \in TextColumns THEN <<"text">> ELSE <<>>
    IN  Rule({table}, args, args)

\* The placeholder number n stands for a value of this kind.
Numbered(holes, n, kind) ==
    [i \in DOMAIN holes \cup {n} |-> IF i = n THEN kind ELSE holes[i]]

\* All optional filters at the same index.
AddFilterSameIndex(acc, wanted, kind) ==
    IF wanted
    THEN [holes |-> Numbered(acc.holes, acc.next, kind), params |-> Append(acc.params, kind),
          next |-> acc.next]
    ELSE acc

\* One more optional filter: its placeholder gets the next index and its
\* value goes to the end of the arguments.
AddFilter(acc, wanted, kind) ==
    IF wanted
    THEN [holes |-> Numbered(acc.holes, acc.next, kind), params |-> Append(acc.params, kind),
          next |-> acc.next + 1]
    ELSE acc

-----------------------------------------------------------------------------
(* The rules, in the order build_rule_based_plan tries them                *)

MeetingTables == {"races", "meetings"}
RunnerTables  == MeetingTables \cup {"race_entries", "runners"}

MarketMovers(q) ==
    IF IsMarketMover(q) THEN Dated(q, RunnerTables \cup {"market_signals"}) ELSE NoPlan

\* Ahead of everything its name might set off ("odds summary", ...).
DailySummaries == {"fixed_odds_tick_daily_summary", "market_signal_daily_summary",
                   "odds_snapshot_daily_summary", "smart_money_daily_summary",
                   "tote_pool_daily_summary"}

SummaryTable(q) ==
    LET named == TableReference(q) \cap DailySummaries
    IN  IF named = {} THEN NoPlan ELSE TableScan(q, CHOOSE t \in named : TRUE)

\* The shortest prices of a runner's meeting read WITH names, the first LIMIT
\* is that of the target; any other odds question is one runner's history.
RunnerOdds(q) ==
    IF ~(IsOdds(q) /\ (q.runner \/ q.term)) THEN NoPlan
    ELSE IF Mentions(q, {"meeting", "card"}) /\ Mentions(q, Shortest)
    THEN LET names == {"target", "latest_prices"}
         IN  [Rule(RunnerTables \cup {"odds_snapshots"}, <<"text">>, <<"text">>)
                EXCEPT !.seen = @ \cup names, !.ctes = names, !.first = 1]
    ELSE Rule(RunnerTables \cup {"odds_snapshots"}, <<"text">>, <<"text">>)

\* Searches by one text, which may be empty.
TextRule(q, terms, reads) ==
    IF Mentions(q, terms) THEN Rule(reads, <<"text">>, <<"text">>) ELSE NoPlan

FindRunner(q) ==
    TextRule(q, {"find horse", "find runner", "search horse", "search runner",
                 "runner named", "horse named"}, {"runners", "pedigrees"})

Pedigree(q) ==
    TextRule(q, {"pedigree", "progeny", "sire", "dam", "bloodline"},
             IF Mentions(q, {"top sire", "best sire", "wet sire", "bloodline performance", "bloodlines"})
             THEN {"bloodline_performance"} ELSE {"pedigrees", "runners"})

Patterns(q)    == TextRule(q, {"pattern", "discovery", "discoveries"}, {"discovered_patterns"})
Transcripts(q) == TextRule(q, {"transcript", "commentary"},
                           MeetingTables \cup {"transcript_segments"})
Ocr(q)         == TextRule(q, {"ocr", "screen text", "vision text"}, {"ocr_observations"})
Summaries(q)   == TextRule(q, {"summary", "summaries", "story"},
                           MeetingTables \cup {"race_summaries"})
Weather(q)     == TextRule(q, {"weather", "rain", "wind", "humidity", "temperature"},
                           {"weather_readings", "weather_stations"})
Condition(q)   == TextRule(q, {"condition", "going", "penetrometer", "moisture"},
                           MeetingTables \cup {"track_condition_readings"})

\* Signals and statistics since a number of days.
DaysRule(applies, reads) == IF applies THEN Rule(reads, <<"days">>, <<"days">>) ELSE NoPlan

PatternSignals(q) ==
    DaysRule(Mentions(q, {"pattern signal", "signals from patterns"}),
             RunnerTables \cup {"pattern_signals", "discovered_patterns"})
TrainerValue(q) ==
    IF Mentions(q, {"trainer"}) /\
       Mentions(q, {"over-performing", "overperforming", "over performing", "market"})
    THEN [Rule(MeetingTables \cup {"race_entries", "horse_scores"}, <<"days">>, <<"days">>)
            EXCEPT !.first = 25, !.limit = 25]
    ELSE NoPlan
SmartMoney(q) ==
    DaysRule(Mentions(q, {"smart money"}), RunnerTables \cup {"smart_money_indicators"})
StableSignals(q) ==
    DaysRule(Mentions(q, {"stable signal"}), RunnerTables \cup {"stable_signals"})

ValueRunners(q) ==
    IF IsValue(q) THEN Dated(q, MeetingTables \cup {"runners", "horse_scores"}) ELSE NoPlan
RaceCard(q) == IF IsRaceCard(q) THEN Dated(q, MeetingTables) ELSE NoPlan

TextSearch(q) ==
    IF Mentions(q, {"search", "find", "mention"}) /\ q.term
    THEN Rule({"runners", "races", "transcript_segments", "ocr_observations",
               "discovered_patterns"}, <<"text">>, <<"text">>)
    ELSE NoPlan

NamedTable(q) ==
    LET named == TableReference(q)
    IN  IF named = {} THEN NoPlan ELSE TableScan(q, CHOOSE t \in named : TRUE)

Steamers(q) ==
    IF Mentions(q, {"steamer", "drifter"})
    THEN LET args == IF Today(q) THEN <<"types">> ELSE <<"types", "days">>
         IN  Rule(RunnerTables \cup {"market_signals"}, args, args)
    ELSE NoPlan

\* The lateral join of the last condition reading follows JOIN, and its
\* LIMIT 1 is the first of the statement.
People(q) ==
    IF ~Mentions(q, {"jockey", "trainer"}) THEN NoPlan
    ELSE LET days  == [holes |-> <<"days">>, params |-> <<"days">>, next |-> 2]
             args  == AddFilter(AddFilter(AddFilter(days, q.track, "track"),
                                          q.condition, "condition"),
                                q.distance, "distance")
         IN  [Rule(MeetingTables \cup {"race_entries", "track_condition_readings"},
                   args.holes, args.params)
                EXCEPT !.seen = @ \cup {"lateral"}, !.first = 1, !.limit = 25]

Barriers(q) ==
    IF ~Mentions(q, {"gate", "barrier"}) THEN NoPlan
    ELSE LET both == [holes |-> <<"track", "days">>, params |-> <<"track", "days">>, next |-> 3]
             args == AddFilter(AddFilter(both, q.condition, "condition"), q.distance, "distance")
         IN  [Rule({"barrier_outcomes"}, args.holes, args.params)
                EXCEPT !.first = 20, !.limit = 20]

RecentRaces(q) == Rule(MeetingTables, <<"days">>, <<"days">>)

OddsBeforeSummaries(q) == <<MarketMovers(q), RunnerOdds(q), SummaryTable(q)>>

MarketFirst(q) == <<MarketMovers(q), SummaryTable(q), RunnerOdds(q)>>

InOrder(q) ==
    <<MarketFirst(q)[1], MarketFirst(q)[2], MarketFirst(q)[3], FindRunner(q),
      Pedigree(q), PatternSignals(q), Patterns(q), ValueRunners(q), RaceCard(q),
      TrainerValue(q), SmartMoney(q), StableSignals(q), Weather(q), Condition(q),
      Transcripts(q), Ocr(q), Summaries(q), TextSearch(q), NamedTable(q), Steamers(q),
      People(q), Barriers(q), RecentRaces(q)>>

\* The first rule that applies has the question.
BuildRuleBasedPlan(q) ==
    LET plans == InOrder(q)
    IN  plans[CHOOSE i \in DOMAIN plans :
                 plans[i] # NoPlan /\ \A j \in 1 .. i - 1 : plans[j] = NoPlan]

RuleTables ==
    RunnerTables \cup
    {"market_signals", "odds_snapshots", "pedigrees", "bloodline_performance",
     "discovered_patterns", "transcript_segments", "ocr_observations", "race_summaries",
     "weather_readings", "weather_stations", "track_condition_readings", "pattern_signals",
     "horse_scores", "smart_money_indicators", "stable_signals", "barrier_outcomes"}

\* Statements of the language model: a plan of OpenAIProvider has no arguments.
\* What it reads need not be what is seen.
ModelStatements ==
    [provider : {"openai"}, seen : SUBSET STRING, reads : SUBSET STRING, ctes : SUBSET STRING,
     first : Nat \cup {NoLimit}, limit : Nat \cup {NoLimit},
     holes : Seq(STRING), params : {<<>>}]

\* Statements of rules with one argument at most.
PlainStatements ==
    [provider : {"rule_based"}, seen : SUBSET Allowed, reads : SUBSET Allowed, ctes : {{}},
     first : {50}, limit : {50}, holes : {<<>>, <<"text">>, <<"days">>},
     params : {<<>>, <<"text">>, <<"days">>}]

\* The tables of the rules, and those a question can name, are allowed; NoPlan
\* is not a statement.
ASSUME AssistantAssumption ==
    /\ RuleTables \cup Columns \subseteq Allowed
    /\ \A i \in DOMAIN Aliases : Aliases[i][2] \in Allowed
    /\ ModelPlans \subseteq ModelStatements
    /\ NoLimit \notin Nat
    /\ NoPlan \notin PlainStatements \cup ModelStatements

-----------------------------------------------------------------------------
(* Validation                                                              *)

EnforceLimit(s) ==
    IF s.first = NoLimit THEN [s EXCEPT !.first = DefaultLimit, !.limit = DefaultLimit] ELSE s

\* TABLE_EXPRESSION_KEYWORDS.  None is the name of a table.
Expressions == {"lateral", "target", "latest_prices", "base_entries", "results"}

\* The names seen that are neither table expressions of the rules nor WITH names
\* of the statement.
TablesSeen(s) == s.seen \ (Expressions \cup s.ctes)

\* A LIMIT, however large.
SafeAnyLimit(s) ==
    /\ TablesSeen(s) \subseteq Allowed
    /\ s.first # NoLimit

\* validate_safe_select looks at the first LIMIT it finds.
Safe(s) ==
    /\ TablesSeen(s) \subseteq Allowed
    /\ s.first # NoLimit
    /\ s.first <= MaxLimit

-----------------------------------------------------------------------------

Init ==
    /\ question \in Questions
    /\ plan = NoPlan
    /\ pc = "model"
    /\ answer = ""

\* Without the validation inside the provider.
ModelAnswersUnchecked ==
    /\ pc = "model"
    /\ \E s \in ModelPlans : plan' = EnforceLimit(s)
    /\ pc' = "check"
    /\ UNCHANGED <<question, answer>>

\* The language model answers with an acceptable statement: read under the
\* validation's rules and without arguments.
ModelAnswers ==
    /\ pc = "model"
    /\ \E s \in ModelPlans :
          /\ Safe(EnforceLimit(s))
          /\ plan' = EnforceLimit(s)
    /\ pc' = "check"
    /\ UNCHANGED <<question, answer>>

\* As if it always had an answer.
ModelFailsPassesOn ==
    /\ pc = "model"
    /\ pc' = "check"
    /\ UNCHANGED <<question, plan, answer>>

\* It has no key, does not answer in time, answers with something that is not
\* a plan, or with a statement that the validation refuses.
ModelFails ==
    /\ pc = "model"
    /\ pc' = "rules"
    /\ UNCHANGED <<question, plan, answer>>

UseRules ==
    /\ pc = "rules"
    /\ plan' = BuildRuleBasedPlan(question)
    /\ pc' = "check"
    /\ UNCHANGED <<question, answer>>

\* resolve_plan validates whatever a provider returned; a refusal is a 400.
Check ==
    /\ pc = "check"
    /\ plan' = EnforceLimit(plan)
    /\ IF Safe(plan') THEN pc' = "run" /\ UNCHANGED answer
                      ELSE pc' = "done" /\ answer' = "refused"
    /\ UNCHANGED question

\* asyncpg binds the arguments to the placeholders; without a pool nothing is
\* executed and there are no rows.
Bound(s) == s.holes = s.params

Execute ==
    /\ pc = "run"
    /\ answer' \in {"empty", IF Bound(plan) THEN "rows" ELSE "error"}
    /\ pc' = "done"
    /\ UNCHANGED <<question, plan>>

\* The statement runs into its 1.5 s timeout or the database is away.
ExecuteFails ==
    /\ pc = "run"
    /\ answer' = "error"
    /\ pc' = "done"
    /\ UNCHANGED <<question, plan>>

Next == ModelAnswers \/ ModelFails \/ UseRules \/ Check \/ Execute \/ ExecuteFails

Spec == Init /\ [][Next]_vars

-----------------------------------------------------------------------------
(***************************************************************************)
(* The variables have their types; what is executed is a plan.             *)
(***************************************************************************)
TypeOK ==
    /\ question \in Questions
    /\ pc \in {"model", "rules", "check", "run", "done"}
    /\ answer \in {"", "rows", "empty", "refused", "error"}
    /\ (answer # "") <=> (pc = "done")
    /\ (plan = NoPlan) <=> (pc \in {"model", "rules"})

(***************************************************************************)
(* "allow-listed tables only", "required LIMIT" (docs/api-spec.md): a       *)
(* statement of a rule that is executed reads allowed tables only and has  *)
(* a LIMIT of at most MAX_LIMIT on the whole of it.  Of a statement of the *)
(* language model the same is true only of what the validation sees: the   *)
(* names it finds and the first LIMIT.                                     *)
(***************************************************************************)
StatementsGuarded ==
    pc = "run" =>
        /\ plan.seen \subseteq Allowed \cup plan.ctes \cup Expressions
        /\ plan.first \in 0..MaxLimit
        /\ plan.provider = "rule_based" => plan.reads \subseteq Allowed /\ plan.limit \in 1..MaxLimit

(***************************************************************************)
(* A question is never refused: what the language model makes of it is     *)
(* replaced by the rules when it does not pass, and a rule's statement     *)
(* always passes, with its lateral joins and WITH names.                   *)
(***************************************************************************)
NeverRefused == answer # "refused"

(***************************************************************************)
(* A rule's statement has one argument for every placeholder and each is   *)
(* the value the placeholder stands for, whichever of the optional filters *)
(* and of the two date clauses the question calls for.                     *)
(***************************************************************************)
RulesBind ==
    pc \in {"check", "run"} /\ plan.provider = "rule_based" => Bound(plan)

(***************************************************************************)
(* A question that names a daily summary is answered from that table,      *)
(* though the name contains the words that set off other rules.            *)
(***************************************************************************)
SummaryTableNamed ==
    LET named == TableReference(question) \cap DailySummaries
    IN  pc = "run" /\ plan.provider = "rule_based" /\ ~IsMarketMover(question) /\ named # {} =>
            \E t \in named : plan.reads = {t}

=============================================================================
