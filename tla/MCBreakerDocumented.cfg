\* The limits of lookup.py, which docs/sources-and-retries.md quotes.
CONSTANTS
    ConsecutiveFailureLimit = 5
    WindowSize = 20
    MinimumWindowSamples = 10
    FailurePercent = 50
    RateLimitLimit = 3
    MaxRequests = 10
SPECIFICATION MCSpec
INVARIANT RatioOpensCircuit
CHECK_DEADLOCK FALSE
