SPECIFICATION Spec
CONSTANTS
    metered = metered  admin = admin
    Keys <- TheKeys
    Workers = {w1}
    Reqs = {t1, t2}
    Limit <- TheLimit
    Quota <- TheQuota
    AdminKeys <- TheKeys
    Issued = {metered}
    KeyEnd <- TheKeyEnd
    LicenseEnd = 3
    Window = 2
    DayLength = 5
    NoQuota = NoQuota  NoKey = NoKey  NoWorker = NoWorker
    MaxTime = 3
    MaxArrivals = 4
    MaxGen = 2
    MaxFaults = 0
SYMMETRY Symm
VIEW WindowView
INVARIANTS TypeOK DeadSecretsStayDead LimitHolds FallbackBounded
