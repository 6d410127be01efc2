\* A circuit that opens for each of its four causes.
CONSTANTS
    ConsecutiveFailureLimit = 3
    WindowSize = 3
    MinimumWindowSamples = 3
    FailurePercent = 60
    RateLimitLimit = 2
    r1 = r1
    r2 = r2
    r3 = r3
    r4 = r4
    r5 = r5
    r6 = r6
    a1 = a1
    a2 = a2
    BadAki = BadAki
    NoCertificate = NoCertificate
    FirstMonth <- MCFirstMonth
    LastMonth <- MCLastMonth
    DaysBefore <- MCDaysBefore
    Today <- MCToday
    Selected <- MCSelected
    Aki <- MCAki
    Revoked <- MCRevoked
    BatchSize = 2
    Concurrency = 2
    MaxRetries = 2
    Servers <- MCServers
SPECIFICATION FairSpec
INVARIANTS TypeOK OnlyMissesQueriedAgain OvershootBounded
PROPERTIES ImplementsPass EveryPassEnds
