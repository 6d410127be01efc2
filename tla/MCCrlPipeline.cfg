CONSTANTS
    u1 = u1
    u2 = u2
    c1 = c1
    c2 = c2
    NoContent = NoContent
    Urls <- MCUrls
    Groups <- MCGroups
    Contents <- MCContents
    Certs <- MCContents
    Entries <- MCEntries
    MaxRetries = 2
    Concurrency = 2
    MaxPending = 1
SPECIFICATION FairSpec
INVARIANTS TypeOK CheckpointCommitted CompletedRunIsDurable MirrorsInOrder
PROPERTIES RunEnds
