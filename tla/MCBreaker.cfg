\* Small limits, so that every threshold is the first to be reached in some
\* history and the window slides; the run of results is finite.
CONSTANTS
    ConsecutiveFailureLimit = 4
    WindowSize = 5
    MinimumWindowSamples = 4
    FailurePercent = 50
    RateLimitLimit = 2
    MaxRequests = 7
SPECIFICATION MCSpec
INVARIANTS TypeOK CountersSummariseHistory
PROPERTY ImplementsPromise
CHECK_DEADLOCK FALSE
