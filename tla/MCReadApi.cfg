CONSTANTS
    past = past
    live = live
    bare = bare
    m1 = m1
    m2 = m2
    p1 = p1
    p2 = p2
    p3 = p3
    l1 = l1
    l2 = l2
    l3 = l3
    l4 = l4
    Races = {past, live, bare}
    Meetings = {m1, m2}
    Entries = {p1, p2, p3, l1, l2, l3, l4}
    RaceOf <- TheRaceOf
    Unverified = {}
    Docs <- TheDocs
    Kinds <- TheKinds
    Asks <- TheAsks
    Before <- TheBefore
    About <- TheAbout
    Start = 20
    MaxLoads <- TheLoads
    MaxSnapshots = 5
    Notable = 3
    PageSize = 1
    Limit = 9
SPECIFICATION Spec
INVARIANTS
    TypeOK
    AnalysisIsBacked
    ZonesAgree
    FitLooksBack
    PagesCover
    SeriesSpans
    SplitsAddUp
    PulseAddsUp
    SampleCoversBarriers
    HeatmapIsNotBlank
CHECK_DEADLOCK FALSE
