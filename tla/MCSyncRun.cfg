CONSTANTS
    c1 = c1
    c2 = c2
    None = None
    Failed = Failed
    Contents <- MCContents
    Count <- MCCount
    Rates = {96, 100}
    OptionalResults = {"ready", "degraded"}
    MaxRuns = 3
    MaxMinute = 1
SYMMETRY MCSymmetry
SPECIFICATION SyncSpec
INVARIANTS
    ManifestIsHonest
    BlockedRunsKeepTheBar
