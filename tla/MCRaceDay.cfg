SPECIFICATION Spec
CONSTANTS
    m1 = m1  m2 = m2
    r1 = r1  r2 = r2  r3 = r3
    e1 = e1  e2 = e2  e3 = e3  e4 = e4
    Meetings <- TheMeetings
    Races <- TheRaces
    Entries <- TheEntries
    MeetingOf <- TheMeetingOf
    Number <- TheNumber
    RaceOf <- TheRaceOf
    Listed0 <- TheListed
    Declared0 <- TheDeclared
    Sched0 <- TheSched
    Runs = {n1, n2}
    Reqs = {t1, t2}
    ScanWindow = 1
    MaxTime = 2
    MaxEdits = 1
    NoTime = NoTime
    NoRun = NoRun
    NoRace = NoRace
    NoMeeting = NoMeeting
SYMMETRY Symm
INVARIANTS TypeOK OneOpenRace ActiveScanCanFinish PastPhaseHasFrames LockedReadsHold
PROPERTIES ArchiveIsFinal QueueSpec
CHECK_DEADLOCK FALSE
