\* A circuit that two requests that fail twice open, and one does not.
CONSTANTS
    ConsecutiveFailureLimit = 3
    WindowSize = 1
    MinimumWindowSamples = 2
    FailurePercent = 60
    RateLimitLimit = 2
    r1 = r1
    r2 = r2
    r3 = r3
    r4 = r4
    Records <- MCRecords
    Newest <- MCNewest
    Scenarios <- MCScenarios
    MaxAttempts = 2
    Limit = 3
    Workers = {w1, w2}
    BatchSize = 2
SPECIFICATION FairSpec
INVARIANTS TypeOK
PROPERTIES ImplementsPass SilentWhenOpen NotStarved
