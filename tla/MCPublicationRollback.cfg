SPECIFICATION FairSpec
CONSTANTS
    Tags <- MCTags
    Latest = latest
    FileCount = 2
    Absent = absent
    Partial = partial
    Damaged = damaged
    RequestAttempts = 2
    UploadAttempts = 2
PROPERTIES
    OlderNeverReplacesNewer
CHECK_DEADLOCK FALSE
