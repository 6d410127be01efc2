----------------------------- MODULE MCSyncRun ------------------------------
EXTENDS SyncRun

CONSTANTS c1, c2

MCContents == {c1, c2}
MCCount == c1 :> 1 @@ c2 :> 1
MCSymmetry == Permutations({c1, c2})
=============================================================================
