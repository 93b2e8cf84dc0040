SPECIFICATION Spec
CONSTANTS
    Races = {0, 1, 2}
    Entries = {1, 2}
    RaceOf <- TheRaceOf
    Declared = {1}
    Start <- TheStart
    Prices = {2, 4}
    Opening <- TheOpening
    Rates <- TheRates
    Imports = {{1}}
    Before = 0  Ahead = 1
    Recent = 1
    CycleLimit = 2
    Window = 0
    MaxTime = 1
    MaxMoves = 2
    MaxFails = 1
INVARIANTS TypeOK WritersNeverDeadlock FieldOfOneWriter FieldAtMostCertain PredictionsRecorded
PROPERTIES RacesAreScored
CHECK_DEADLOCK FALSE
