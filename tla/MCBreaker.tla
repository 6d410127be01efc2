----------------------------- MODULE MCBreaker ------------------------------
\* BreakerRefinement over histories of at most MaxRequests recorded results.
EXTENDS BreakerRefinement

CONSTANT MaxRequests

MCNext == Len(history) < MaxRequests /\ HNext

MCSpec == HInit /\ [][MCNext]_refinementVars
=============================================================================
