CONSTANTS
    one = one
    two = two
    root = root
    broken = broken
    u = u
    v = v
    r1 = r1
    r2 = r2
    r3 = r3
    a1 = a1
    a2 = a2
    NoAki = NoAki
    NoUrl = NoUrl
    NoFile = NoFile
    Unknown = Unknown
    RowsOf <- MCRowsOf
    Flattens <- MCFlattens
    PageSize = 1
    MaxRetries = 2
    Eligible <- MCEligible
    FullUrls <- MCFullUrls
    Partitioned <- MCPartitioned
    Records <- MCRecords
    Akis <- MCAkis
    Name <- MCName
    CrlsOf <- MCCrlsOf
SPECIFICATION Spec
INVARIANTS TypeOK ScopeIsComplete
PROPERTIES SnapshotIsExact ImplementsAkiView
