--------------------------- MODULE MCDataRelease ----------------------------
\* Two contents of equal counts and a larger one.
EXTENDS DataRelease

CONSTANTS c1, c2, c3

MCContents == {c1, c2, c3}
MCCount == c1 :> 1 @@ c2 :> 1 @@ c3 :> 2
MCSymmetry == Permutations({c1, c2})
=============================================================================
