SPECIFICATION Spec
CONSTANTS
    Phrases <- ThePhrases
    Inside <- TheInside
    Aliases <- TheAliases
    SnakeNames <- TheSnakeNames
    Columns <- TheColumns
    TextColumns <- TheTextColumns
    Allowed <- TheAllowed
    ModelPlans <- TheModelPlans
    NoPlan = NoPlan  NoLimit = NoLimit
INVARIANTS TypeOK StatementsGuarded NeverRefused RulesBind SummaryTableNamed
CHECK_DEADLOCK FALSE
