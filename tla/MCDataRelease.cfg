CONSTANTS
    c1 = c1
    c2 = c2
    c3 = c3
    None = None
    Failed = Failed
    Torn = Torn
    Contents <- MCContents
    Count <- MCCount
    Rates = {100}
    OptionalResults = {"degraded"}
    MaxRuns = 2
    MaxMinute = 1
SYMMETRY MCSymmetry
SPECIFICATION Spec
INVARIANTS
    TypeOK
    ReleasesConsistent
    ReleaseSurvives
PROPERTIES
    InstalledIsCurrent
