SPECIFICATION FairSpec
CONSTANTS
    m1 = m1  m2 = m2
    r1 = r1  r2 = r2  r3 = r3
    e1 = e1  e2 = e2  e3 = e3  e4 = e4
    Meetings <- TheMeetings
    Races <- TheRaces
    Entries <- FewEntries
    MeetingOf <- TheMeetingOf
    Number <- TheNumber
    RaceOf <- FewRaceOf
    Listed0 <- TheListed
    Declared0 <- FewDeclared
    Sched0 <- TheSched
    Runs = {n1, n2}
    Reqs = {t1, t2}
    ScanWindow = 1
    MaxTime = 1
    MaxEdits = 0
    NoTime = NoTime
    NoRun = NoRun
    NoRace = NoRace
    NoMeeting = NoMeeting
PROPERTY RequestsEnd
CHECK_DEADLOCK FALSE
