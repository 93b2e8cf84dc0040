--------------------------- MODULE AssistantProofs ---------------------------
(***************************************************************************)
(* Assistant, for every vocabulary and every list of names a question can  *)
(* call a table by, and whatever acceptable statements the language model  *)
(* comes up with.                                                          *)
(***************************************************************************)
EXTENDS Assistant, SequenceTheorems, WellFoundedInduction, TLAPS

\* A statement a rule may return.
Good(s) ==
    /\ s.provider = "rule_based"
    /\ s.reads \subseteq Allowed /\ s.seen \subseteq Allowed \cup s.ctes \cup {"lateral"}
    /\ s.first \in 1..MaxLimit /\ s.limit \in 1..MaxLimit
    /\ s.holes = s.params

GoodOrNone(s) == s = NoPlan \/ Good(s)

LEMMA GoodRule ==
    ASSUME NEW reads, reads \subseteq Allowed, NEW args
    PROVE  Good(Rule(reads, args, args))
BY DEF Good, Rule, Statement, MaxLimit

LEMMA GoodDated ==
    ASSUME NEW q, NEW reads, reads \subseteq Allowed
    PROVE  Good(Dated(q, reads))
BY GoodRule DEF Dated

LEMMA GoodText ==
    ASSUME NEW q, NEW terms, NEW reads, reads \subseteq Allowed
    PROVE  GoodOrNone(TextRule(q, terms, reads))
BY GoodRule DEF TextRule, GoodOrNone

LEMMA GoodDays ==
    ASSUME NEW applies, NEW reads, reads \subseteq Allowed
    PROVE  GoodOrNone(DaysRule(applies, reads))
BY GoodRule DEF DaysRule, GoodOrNone

\* The tables a question can name are allowed, and read without more than a text.
LEMMA NamedAllowed ==
    ASSUME NEW q
    PROVE  TableReference(q) \subseteq Allowed
<1> DEFINE asked == {i \in DOMAIN Aliases : Aliases[i][1] \in q.said}
<1>1. {Aliases[i][2] : i \in {m \in asked : \A n \in asked : m <= n}} \subseteq Allowed
    BY AssistantAssumption
<1>2. {SnakeNames[p] : p \in q.said \cap DOMAIN SnakeNames} \cap Columns \subseteq Allowed
    BY AssistantAssumption
<1> QED BY <1>1, <1>2 DEF TableReference

LEMMA GoodScan ==
    ASSUME NEW q, NEW table \in Allowed
    PROVE  Good(TableScan(q, table))
BY GoodRule DEF TableScan

LEMMA AllowedTables ==
    /\ MeetingTables \subseteq Allowed /\ RunnerTables \subseteq Allowed
    /\ RuleTables \subseteq Allowed
BY AssistantAssumption DEF RuleTables, RunnerTables, MeetingTables

\* The arguments of a rule with optional filters: one placeholder for each, in step.
Kinds == {"days", "track", "condition", "distance"}

InStep(acc) ==
    /\ acc.holes = acc.params /\ acc.next = Len(acc.params) + 1
    /\ acc.params \in Seq(Kinds)

LEMMA FilterInStep ==
    ASSUME NEW acc, InStep(acc), NEW wanted, NEW kind \in Kinds
    PROVE  InStep(AddFilter(acc, wanted, kind))
<1> DEFINE s == acc.params
           n == Len(s) + 1
<1>1. s \in Seq(Kinds) /\ acc.holes = s /\ acc.next = n
    BY DEF InStep
<1>2. Numbered(s, n, kind) = Append(s, kind)
    <2>1. s = [i \in 1..Len(s) |-> s[i]] /\ Len(s) \in Nat
        BY <1>1
    <2>2. Append(s, kind) \in Seq(Kinds)
          /\ Append(s, kind) = [i \in 1..Len(s) + 1 |-> IF i = Len(s) + 1 THEN kind ELSE s[i]]
        BY <1>1
    <2>3. DOMAIN s = 1..Len(s)
        BY <1>1
    <2>4. Numbered(s, n, kind) = [i \in {n} \cup 1..Len(s) |-> IF i = n THEN kind ELSE s[i]]
        BY <2>3 DEF Numbered
    <2>5. {n} \cup 1..Len(s) = 1..Len(s) + 1
        BY <2>1
    <2> QED BY <2>2, <2>4, <2>5
<1>3. Append(s, kind) \in Seq(Kinds) /\ Len(Append(s, kind)) = n
    BY <1>1
<1>4. CASE wanted
    <2>1. AddFilter(acc, wanted, kind) =
             [holes |-> Append(s, kind), params |-> Append(s, kind), next |-> n + 1]
        BY <1>1, <1>2, <1>4 DEF AddFilter
    <2> HIDE DEF s
    <2> QED BY <1>3, <2>1 DEF InStep
<1>5. CASE ~wanted
    BY <1>5 DEF AddFilter
<1> QED BY <1>4, <1>5

LEMMA GoodPeople ==
    ASSUME NEW q
    PROVE  GoodOrNone(People(q))
<1> DEFINE days == [holes |-> <<"days">>, params |-> <<"days">>, next |-> 2]
           args == AddFilter(AddFilter(AddFilter(days, q.track, "track"),
                                       q.condition, "condition"), q.distance, "distance")
           reads == MeetingTables \cup {"race_entries", "track_condition_readings"}
<1>1. InStep(days)
    <2>1. <<"days">> \in Seq(Kinds) /\ Len(<<"days">>) = 1
        BY DEF Kinds
    <2> QED BY <2>1 DEF InStep
<1>2. InStep(args)
    <2> HIDE DEF days
    <2> DEFINE a == AddFilter(days, q.track, "track")
               b == AddFilter(a, q.condition, "condition")
    <2>1. InStep(a)
        BY <1>1, FilterInStep DEF Kinds
    <2>2. InStep(b)
        BY <2>1, FilterInStep DEF Kinds
    <2>3. InStep(AddFilter(b, q.distance, "distance"))
        BY <2>2, FilterInStep DEF Kinds
    <2> QED BY <2>3
<1>3. reads \subseteq Allowed
    BY AllowedTables DEF RuleTables, RunnerTables
<1> HIDE DEF args, reads
<1>4. Good([Rule(reads, args.holes, args.params)
               EXCEPT !.seen = @ \cup {"lateral"}, !.first = 1, !.limit = 25])
    BY <1>2, <1>3 DEF Good, Rule, Statement, MaxLimit, InStep
<1> QED BY <1>4 DEF People, GoodOrNone, args, reads

LEMMA GoodBarriers ==
    ASSUME NEW q
    PROVE  GoodOrNone(Barriers(q))
<1> DEFINE both == [holes |-> <<"track", "days">>, params |-> <<"track", "days">>, next |-> 3]
           args == AddFilter(AddFilter(both, q.condition, "condition"), q.distance, "distance")
<1>1. InStep(both)
    <2>1. <<"track", "days">> \in Seq(Kinds) /\ Len(<<"track", "days">>) = 2
        BY DEF Kinds
    <2> QED BY <2>1 DEF InStep
<1>2. InStep(args)
    <2> HIDE DEF both
    <2> DEFINE a == AddFilter(both, q.condition, "condition")
    <2>1. InStep(a)
        BY <1>1, FilterInStep DEF Kinds
    <2>2. InStep(AddFilter(a, q.distance, "distance"))
        BY <2>1, FilterInStep DEF Kinds
    <2> QED BY <2>2
<1>3. "barrier_outcomes" \in Allowed
    BY AllowedTables DEF RuleTables
<1> HIDE DEF args
<1>4. Good([Rule({"barrier_outcomes"}, args.holes, args.params) EXCEPT !.first = 20, !.limit = 20])
    BY <1>2, <1>3 DEF Good, Rule, Statement, MaxLimit, InStep
<1> QED BY <1>4 DEF Barriers, GoodOrNone, args

-----------------------------------------------------------------------------

\* Any plan of the list of rules.
Rules(q) ==
    {MarketMovers(q), SummaryTable(q), RunnerOdds(q), FindRunner(q), Pedigree(q),
     PatternSignals(q), Patterns(q), ValueRunners(q), RaceCard(q), TrainerValue(q),
     SmartMoney(q), StableSignals(q), Weather(q), Condition(q), Transcripts(q), Ocr(q),
     Summaries(q), TextSearch(q), NamedTable(q), Steamers(q), People(q), Barriers(q),
     RecentRaces(q)}

LEMMA GoodRules ==
    ASSUME NEW q
    PROVE  \A p \in Rules(q) : GoodOrNone(p)
<1> USE AllowedTables DEF RuleTables
<1>1. GoodOrNone(MarketMovers(q))
    BY GoodDated DEF MarketMovers, GoodOrNone
<1>2. GoodOrNone(SummaryTable(q))
    BY NamedAllowed, GoodScan DEF SummaryTable, GoodOrNone
<1>3. GoodOrNone(RunnerOdds(q))
    <2> DEFINE reads == RunnerTables \cup {"odds_snapshots"}
               names == {"target", "latest_prices"}
    <2>1. reads \subseteq Allowed
        OBVIOUS
    <2> HIDE DEF reads, names
    <2>2. Good([Rule(reads, <<"text">>, <<"text">>)
                   EXCEPT !.seen = @ \cup names, !.ctes = names, !.first = 1])
        BY <2>1 DEF Good, Rule, Statement, MaxLimit
    <2>3. Good(Rule(reads, <<"text">>, <<"text">>))
        BY <2>1, GoodRule
    <2> QED BY <2>2, <2>3 DEF RunnerOdds, GoodOrNone, reads, names
<1>4. GoodOrNone(FindRunner(q))
    <2>1. {"runners", "pedigrees"} \subseteq Allowed
        BY DEF RunnerTables
    <2> QED BY <2>1, GoodText DEF FindRunner
<1>5. GoodOrNone(Pedigree(q))
    <2>1. {"bloodline_performance"} \subseteq Allowed /\ {"pedigrees", "runners"} \subseteq Allowed
        BY DEF RunnerTables
    <2> DEFINE reads == IF Mentions(q, {"top sire", "best sire", "wet sire",
                                        "bloodline performance", "bloodlines"})
                        THEN {"bloodline_performance"} ELSE {"pedigrees", "runners"}
    <2>2. reads \subseteq Allowed
        BY <2>1
    <2> HIDE DEF reads
    <2> QED BY <2>2, GoodText DEF Pedigree, reads
<1>6. GoodOrNone(PatternSignals(q))
    BY GoodDays DEF PatternSignals
<1>7. GoodOrNone(Patterns(q))
    BY GoodText DEF Patterns
<1>8. GoodOrNone(ValueRunners(q))
    BY GoodDated DEF ValueRunners, GoodOrNone, RunnerTables
<1>9. GoodOrNone(RaceCard(q))
    BY GoodDated DEF RaceCard, GoodOrNone
<1>10. GoodOrNone(TrainerValue(q))
    <2> DEFINE reads == MeetingTables \cup {"race_entries", "horse_scores"}
    <2>1. reads \subseteq Allowed
        BY DEF RunnerTables
    <2> HIDE DEF reads
    <2>2. Good([Rule(reads, <<"days">>, <<"days">>) EXCEPT !.first = 25, !.limit = 25])
        BY <2>1 DEF Good, Rule, Statement, MaxLimit
    <2> QED BY <2>2 DEF TrainerValue, GoodOrNone, reads
<1>11. GoodOrNone(SmartMoney(q))
    BY GoodDays DEF SmartMoney
<1>12. GoodOrNone(StableSignals(q))
    BY GoodDays DEF StableSignals
<1>13. GoodOrNone(Weather(q))
    BY GoodText DEF Weather
<1>14. GoodOrNone(Condition(q))
    BY GoodText DEF Condition
<1>15. GoodOrNone(Transcripts(q))
    BY GoodText DEF Transcripts
<1>16. GoodOrNone(Ocr(q))
    BY GoodText DEF Ocr
<1>17. GoodOrNone(Summaries(q))
    BY GoodText DEF Summaries
<1>18. GoodOrNone(TextSearch(q))
    BY GoodRule DEF TextSearch, GoodOrNone, RunnerTables, MeetingTables
<1>19. GoodOrNone(NamedTable(q))
    BY NamedAllowed, GoodScan DEF NamedTable, GoodOrNone
<1>20. GoodOrNone(Steamers(q))
    BY GoodRule DEF Steamers, GoodOrNone
<1>21. GoodOrNone(People(q)) /\ GoodOrNone(Barriers(q))
    BY GoodPeople, GoodBarriers
<1>22. GoodOrNone(RecentRaces(q))
    BY GoodRule DEF RecentRaces, GoodOrNone
<1> QED
    BY <1>1, <1>2, <1>3, <1>4, <1>5, <1>6, <1>7, <1>8, <1>9, <1>10, <1>11, <1>12, <1>13, <1>14,
       <1>15, <1>16, <1>17, <1>18, <1>19, <1>20, <1>21, <1>22 DEF Rules

LEMMA Ordered ==
    ASSUME NEW q
    PROVE  /\ InOrder(q) \in Seq(Rules(q)) /\ Len(InOrder(q)) = 23
           /\ InOrder(q)[1] = MarketMovers(q) /\ InOrder(q)[2] = SummaryTable(q)
           /\ InOrder(q)[23] = RecentRaces(q)
<1> DEFINE m1 == MarketFirst(q)[1]
           m2 == MarketFirst(q)[2]
           m3 == MarketFirst(q)[3]
<1>1. m1 = MarketMovers(q) /\ m2 = SummaryTable(q)
    BY DEF MarketFirst
<1>2. m1 \in Rules(q) /\ m2 \in Rules(q) /\ m3 \in Rules(q)
    BY DEF MarketFirst, Rules
<1> HIDE DEF m1, m2, m3
<1>3. InOrder(q) =
      <<m1, m2, m3, FindRunner(q), Pedigree(q), PatternSignals(q), Patterns(q),
        ValueRunners(q), RaceCard(q), TrainerValue(q), SmartMoney(q), StableSignals(q),
        Weather(q), Condition(q), Transcripts(q), Ocr(q), Summaries(q), TextSearch(q),
        NamedTable(q), Steamers(q), People(q), Barriers(q), RecentRaces(q)>>
    BY DEF InOrder, m1, m2, m3
<1>4. Len(InOrder(q)) = 23 /\ InOrder(q)[1] = m1 /\ InOrder(q)[2] = m2
      /\ InOrder(q)[23] = RecentRaces(q)
    BY <1>3
<1>5. InOrder(q) \in Seq(Rules(q))
    BY <1>2, <1>3 DEF Rules
<1> QED BY <1>1, <1>4, <1>5

\* A set of numbers has a least.
LEMMA Least ==
    ASSUME NEW T, T \subseteq Nat, T # {}
    PROVE  \E x \in T : \A y \in T : x <= y
<1> DEFINE R == {ss \in Nat \X Nat : ss[1] < ss[2]}
<1>1. OpToRel(<, Nat) = R
    BY DEF OpToRel
<1>2. IsWellFoundedOn(R, Nat)
    BY <1>1, NatLessThanWellFounded
<1> HIDE DEF R
<1>3. PICK x \in T : \A y \in T : ~(<<y, x>> \in R)
    BY <1>2, WFMin
<1>4. ASSUME NEW y \in T PROVE x <= y
    <2>1. x \in Nat /\ y \in Nat /\ ~(<<y, x>> \in R)
        BY <1>3
    <2> QED BY <2>1 DEF R
<1> QED BY <1>4

\* The rule that has the question is the first that applies; the last always does.
LEMMA Built ==
    ASSUME NEW q
    PROVE  \E i \in 1..23 : /\ BuildRuleBasedPlan(q) = InOrder(q)[i]
                            /\ InOrder(q)[i] # NoPlan
                            /\ \A j \in 1..i - 1 : InOrder(q)[j] = NoPlan
<1> DEFINE plans == InOrder(q)
           applies == {i \in 1..23 : plans[i] # NoPlan}
           first(i) == plans[i] # NoPlan /\ \A j \in 1..i - 1 : plans[j] = NoPlan
<1>1. DOMAIN plans = 1..23 /\ plans[23] = RecentRaces(q)
    BY Ordered
<1>2. RecentRaces(q) # NoPlan
    <2>1. RecentRaces(q) = [provider |-> "rule_based", seen |-> MeetingTables, reads |-> MeetingTables, ctes |-> {},
                            first |-> 50, limit |-> 50,
                            holes |-> <<"days">>, params |-> <<"days">>]
        BY DEF RecentRaces, Rule, Statement
    <2>2. MeetingTables \in SUBSET Allowed
        BY AllowedTables
    <2> QED BY <2>1, <2>2, AssistantAssumption DEF PlainStatements
<1> HIDE DEF plans
<1>3. 23 \in applies /\ applies \subseteq Nat
    BY <1>1, <1>2
<1>4. PICK i \in applies : \A j \in applies : i <= j
    BY <1>3, Least
<1>5. i \in 1..23 /\ first(i)
    BY <1>4
<1>6. \E k \in DOMAIN plans : first(k)
    BY <1>1, <1>5
<1> DEFINE k == CHOOSE n \in DOMAIN plans : first(n)
<1>7. k \in DOMAIN plans /\ first(k)
    BY <1>6
<1>8. BuildRuleBasedPlan(q) = plans[k]
    BY DEF BuildRuleBasedPlan, plans
<1> HIDE DEF k
<1> QED BY <1>1, <1>7, <1>8 DEF plans

LEMMA GoodBuilt ==
    ASSUME NEW q
    PROVE  Good(BuildRuleBasedPlan(q))
<1>1. PICK i \in 1..23 : BuildRuleBasedPlan(q) = InOrder(q)[i] /\ InOrder(q)[i] # NoPlan
    BY Built
<1>2. InOrder(q) \in Seq(Rules(q)) /\ i \in 1..Len(InOrder(q))
    BY Ordered
<1>3. InOrder(q)[i] \in Rules(q)
    BY <1>2, ElementOfSeq
<1> QED BY <1>1, <1>3, GoodRules DEF GoodOrNone

-----------------------------------------------------------------------------

\* What may be checked or run: the rules' plan, or an acceptable one of the language model.
Planned ==
    pc \in {"check", "run"} =>
        \/ plan = BuildRuleBasedPlan(question)
        \/ plan.provider = "openai" /\ Safe(plan) /\ EnforceLimit(plan) = plan
           /\ plan.first \in Nat

IInv == Planned /\ answer # "refused"

\* A rule's statement passes the validation as it is.
LEMMA GoodPasses ==
    ASSUME NEW s, Good(s)
    PROVE  Safe(s) /\ EnforceLimit(s) = s
<1>1. s.first # NoLimit /\ s.first <= MaxLimit
    BY AssistantAssumption DEF Good, MaxLimit
<1>2. TablesSeen(s) \subseteq Allowed
    BY DEF Good, TablesSeen, Expressions
<1> QED BY <1>1, <1>2 DEF Safe, EnforceLimit

LEMMA ModelPasses ==
    ASSUME NEW s \in ModelPlans
    PROVE  LET t == EnforceLimit(s)
           IN  t.provider = "openai" /\ t.first \in Nat /\ EnforceLimit(t) = t
<1>1. /\ s.provider = "openai" /\ s.first \in Nat \cup {NoLimit}
      /\ s = [provider |-> s.provider, seen |-> s.seen, reads |-> s.reads, ctes |-> s.ctes, first |-> s.first,
              limit |-> s.limit, holes |-> s.holes, params |-> s.params]
    BY AssistantAssumption DEF ModelStatements
<1>2. CASE s.first = NoLimit
    <2>1. EnforceLimit(s) = [provider |-> s.provider, seen |-> s.seen, reads |-> s.reads, ctes |-> s.ctes,
                             first |-> DefaultLimit, limit |-> DefaultLimit,
                             holes |-> s.holes, params |-> s.params]
        BY <1>1, <1>2 DEF EnforceLimit
    <2>2. DefaultLimit \in Nat /\ DefaultLimit # NoLimit
        BY AssistantAssumption DEF DefaultLimit
    <2> QED BY <1>1, <2>1, <2>2 DEF EnforceLimit
<1>3. CASE s.first # NoLimit
    BY <1>1, <1>3 DEF EnforceLimit
<1> QED BY <1>2, <1>3

LEMMA Inductive == Spec => []IInv
<1>1. Init => IInv
    BY DEF Init, IInv, Planned
<1>2. ASSUME IInv, [Next]_vars PROVE IInv'
    <2> USE <1>2 DEF IInv
    <2>1. CASE ModelAnswers
        <3>1. PICK s \in ModelPlans : Safe(EnforceLimit(s)) /\ plan' = EnforceLimit(s)
            BY <2>1 DEF ModelAnswers
        <3>2. Safe(plan)'
            BY <3>1 DEF Safe, TablesSeen
        <3>3. plan'.provider = "openai" /\ plan'.first \in Nat /\ EnforceLimit(plan)' = plan'
            BY <3>1, ModelPasses DEF EnforceLimit
        <3> QED BY <2>1, <3>2, <3>3 DEF ModelAnswers, Planned
    <2>2. CASE ModelFails
        BY <2>2 DEF ModelFails, Planned
    <2>3. CASE UseRules
        <3>1. BuildRuleBasedPlan(question)' = BuildRuleBasedPlan(question')
            OBVIOUS
        <3> QED BY <2>3 DEF UseRules, Planned
    <2>4. CASE Check
        <3>1. Safe(plan) /\ EnforceLimit(plan) = plan
            BY <2>4, GoodBuilt, GoodPasses DEF Check, Planned
        <3>2. plan' = plan /\ pc' = "run" /\ UNCHANGED <<answer, question>>
            BY <2>4, <3>1 DEF Check, Safe, TablesSeen
        <3> QED BY <2>4, <3>2 DEF Check, Planned, Safe, TablesSeen, EnforceLimit
    <2>5. CASE Execute \/ ExecuteFails
        BY <2>5 DEF Execute, ExecuteFails, Planned
    <2>6. CASE UNCHANGED vars
        BY <2>6 DEF vars, Planned, Safe, TablesSeen, EnforceLimit
    <2> QED BY <2>1, <2>2, <2>3, <2>4, <2>5, <2>6 DEF Next
<1> QED BY <1>1, <1>2, PTL DEF Spec

\* A statement of the language model is a plan, also with the default limit.
LEMMA ModelPlanned == \A s \in ModelPlans : EnforceLimit(s) # NoPlan
<1> SUFFICES ASSUME NEW s \in ModelPlans PROVE EnforceLimit(s) \in ModelStatements
    BY AssistantAssumption
<1>1. s \in ModelStatements /\ DefaultLimit \in Nat
    BY AssistantAssumption DEF DefaultLimit
<1> QED BY <1>1 DEF EnforceLimit, ModelStatements

\* The variables have their types: an answer is there exactly at the end, and a plan from the
\* first validation on, whichever provider it comes from.
THEOREM AssistantTypes == Spec => []TypeOK
<1>1. Init => TypeOK
    BY DEF Init, TypeOK
<1>2. ASSUME IInv, TypeOK, [Next]_vars PROVE TypeOK'
    <2> USE <1>2 DEF TypeOK
    <2>1. CASE ModelAnswers
        BY <2>1, ModelPlanned DEF ModelAnswers
    <2>2. CASE ModelFails
        BY <2>2 DEF ModelFails
    <2>3. CASE UseRules
        BY <2>3, Built DEF UseRules
    <2>4. CASE Check
        <3>1. EnforceLimit(plan) = plan
            BY <2>4, GoodBuilt, GoodPasses DEF IInv, Check, Planned
        <3>2. plan' = plan /\ pc' \in {"run", "done"} /\ question' = question
              /\ ((pc' = "run" /\ answer' = answer) \/ (pc' = "done" /\ answer' = "refused"))
            BY <2>4, <3>1 DEF Check
        <3> QED BY <2>4, <3>2 DEF Check
    <2>5. CASE Execute \/ ExecuteFails
        BY <2>5 DEF Execute, ExecuteFails
    <2>6. CASE UNCHANGED vars
        BY <2>6 DEF vars
    <2> QED BY <2>1, <2>2, <2>3, <2>4, <2>5, <2>6 DEF Next
<1> QED BY <1>1, <1>2, Inductive, PTL DEF Spec

\* What is executed is what the validation lets through, and a rule's statement reads allowed
\* tables and is limited as a whole, whatever is asked and whatever the language model answers
\* (validate_safe_select, enforce_limit).
THEOREM Guarded == Spec => []StatementsGuarded
<1>1. ASSUME IInv PROVE StatementsGuarded
    <2> SUFFICES ASSUME pc = "run"
                 PROVE  /\ plan.seen \subseteq Allowed \cup plan.ctes \cup Expressions
                        /\ plan.first \in 0..MaxLimit
                        /\ plan.provider = "rule_based" =>
                              plan.reads \subseteq Allowed /\ plan.limit \in 1..MaxLimit
        BY DEF StatementsGuarded
    <2>1. CASE plan = BuildRuleBasedPlan(question)
        <3>1. Good(plan)
            BY <2>1, GoodBuilt
        <3> QED BY <3>1 DEF Good, Expressions, MaxLimit
    <2>2. CASE plan.provider = "openai" /\ Safe(plan) /\ plan.first \in Nat
        BY <2>2 DEF Safe, TablesSeen, MaxLimit
    <2> QED BY <1>1, <2>1, <2>2 DEF IInv, Planned
<1> QED BY <1>1, Inductive, PTL

\* No question is answered with the refusal of a statement (resolve_plan).
THEOREM AnswersAll == Spec => []NeverRefused
<1>1. IInv => NeverRefused
    BY DEF IInv, NeverRefused
<1> QED BY <1>1, Inductive, PTL

\* Every placeholder of a rule's statement is bound to a value of its kind.
THEOREM RulesAreBound == Spec => []RulesBind
<1>1. ASSUME IInv PROVE RulesBind
    <2>1. Good(BuildRuleBasedPlan(question))
        BY GoodBuilt
    <2> QED BY <1>1, <2>1 DEF IInv, Planned, RulesBind, Bound, Good
<1> QED BY <1>1, Inductive, PTL

\* A daily summary that a question names is what answers it.
THEOREM SummariesAnswer == Spec => []SummaryTableNamed
<1>1. ASSUME NEW q, ~IsMarketMover(q), TableReference(q) \cap DailySummaries # {}
      PROVE  \E t \in TableReference(q) \cap DailySummaries : BuildRuleBasedPlan(q).reads = {t}
    <2> DEFINE t == CHOOSE u \in TableReference(q) \cap DailySummaries : TRUE
    <2>1. t \in TableReference(q) \cap DailySummaries
        BY <1>1
    <2>2. MarketMovers(q) = NoPlan /\ SummaryTable(q) = TableScan(q, t)
        BY <1>1 DEF MarketMovers, SummaryTable
    <2> HIDE DEF t
    <2>3. TableScan(q, t).reads = {t} /\ TableScan(q, t) # NoPlan
        <3>1. t \in Allowed
            BY <2>1, NamedAllowed
        <3> DEFINE args == IF q.term /\ t \in TextColumns THEN <<"text">> ELSE <<>>
        <3>2. args \in {<<>>, <<"text">>}
            OBVIOUS
        <3>3. TableScan(q, t) = [provider |-> "rule_based", seen |-> {t}, reads |-> {t}, ctes |-> {},
                                 first |-> 50, limit |-> 50, holes |-> args, params |-> args]
            BY DEF TableScan, Rule, Statement
        <3> HIDE DEF args
        <3> QED BY <3>1, <3>2, <3>3, AssistantAssumption DEF PlainStatements
    <2>4. BuildRuleBasedPlan(q) = TableScan(q, t)
        <3>1. PICK i \in 1..23 : /\ BuildRuleBasedPlan(q) = InOrder(q)[i]
                                 /\ InOrder(q)[i] # NoPlan
                                 /\ \A j \in 1..i - 1 : InOrder(q)[j] = NoPlan
            BY Built
        <3>2. InOrder(q)[1] = NoPlan /\ InOrder(q)[2] # NoPlan
            BY <2>2, <2>3, Ordered
        <3>3. i = 2
            BY <3>1, <3>2
        <3> QED BY <2>2, <3>1, <3>3, Ordered
    <2> QED BY <2>1, <2>3, <2>4
<1>2. ASSUME IInv PROVE SummaryTableNamed
    BY <1>1, <1>2 DEF IInv, Planned, SummaryTableNamed
<1> QED BY <1>2, Inductive, PTL

==============================================================================
