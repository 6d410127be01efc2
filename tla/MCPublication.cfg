SPECIFICATION FairSpec
CONSTANTS
    Tags <- MCTags
    Latest = latest
    FileCount = 2
    Absent = absent
    Partial = partial
    Damaged = damaged
    RequestAttempts = 2
    UploadAttempts = 2
INVARIANTS
    TypeOK
    PublishedComplete
    AliasAfterVersion
    MarkedIsAnnounced
    OneReleasePerTag
    GivesUpForCause
PROPERTIES
    AnnouncedNeverFalls
    EventuallyMarked
CHECK_DEADLOCK FALSE
