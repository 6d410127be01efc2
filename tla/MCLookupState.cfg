CONSTANTS
    r1 = r1
    r2 = r2
    ct = ct
    crtsh = crtsh
    NoOne = NoOne
    NoKey = NoKey
    Community = Community
    Forever = Forever
    Records <- MCRecords
    Newer <- MCNewer
    Sources <- MCSources
    Limited = {crtsh}
    AkiSources = {ct}
    p1 = p1
    p2 = p2
    Processes <- MCProcesses
    RecordLimit = 1
    BatchSize = 1
    MissLimit = 2
    RecentDelay = 1
    ShortDelay = 1
    LongDelay = 2
    ExclusionTerms = {1}
SPECIFICATION Spec
INVARIANTS TypeOK BackoffHonoured
PROPERTIES OnlyMissingSupplemented BackoffFollowsHistory
SYMMETRY MCSymmetry
