CONSTANTS
    Pollers = {timer}
    Races = {r1}
    a = a
    b = b
    Runners = {a, b}
    MaxPlace = 1
    Docs <- MCDocs
    MaxPublishes = 3
    MaxFailures = 1
SPECIFICATION Spec
INVARIANT NoHistoryGaps

