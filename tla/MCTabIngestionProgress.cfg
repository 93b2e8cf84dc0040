CONSTANTS
    Pollers = {timer}
    Races = {r1, r2}
    a = a
    b = b
    Runners = {a, b}
    MaxPlace = 1
    Docs <- MCTimedDocs
    MaxPublishes = 2
    MaxFailures = 1
SPECIFICATION Spec
PROPERTIES EndsAreNoticed PlacingsArrive
