SPECIFICATION Spec
CONSTANTS
    metered = metered  admin = admin
    Keys <- OneKey
    Workers = {w1}
    Reqs = {t1, t2}
    Limit <- OneLimit
    Quota <- OneQuota
    AdminKeys = {}
    Issued = {metered}
    KeyEnd <- OneKeyEnd
    LicenseEnd = 9
    Window = 2
    DayLength = 2
    NoQuota = NoQuota  NoKey = NoKey  NoWorker = NoWorker
    MaxTime = 1
    MaxArrivals = 4
    MaxGen = 1
    MaxFaults = 0
SYMMETRY Symm
INVARIANTS ExcessIsRefused
