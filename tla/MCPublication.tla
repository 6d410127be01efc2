--------------------------- MODULE MCPublication ----------------------------
\* Two versions, two files each: one data file and SHA256SUMS.
EXTENDS Publication

MCTags == {1, 2}
=============================================================================
