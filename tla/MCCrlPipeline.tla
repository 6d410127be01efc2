--------------------------- MODULE MCCrlPipeline ----------------------------
\* Two URLs, two CRLs with one entry each; two logical CRLs share a mirror in
\* opposite orders, so that each group may wait for the other's download.
EXTENDS CrlPipeline

CONSTANTS u1, u2, c1, c2

MCUrls == {u1, u2}
MCGroups == <<<<u1, u2>>, <<u2, u1>>>>
MCContents == {c1, c2}
MCEntries == [c \in MCContents |-> {c}]
=============================================================================
