--------------------------- MODULE MCLookupState ----------------------------
\* Two records (r1 the newer), the unlimited CT source and the limited crt.sh,
\* two interchangeable CLI processes.
EXTENDS LookupState, TLC

CONSTANTS r1, r2, ct, crtsh, p1, p2

MCRecords == {r1, r2}
MCNewer == {<<r1, r2>>}
MCSources == {ct, crtsh}
MCProcesses == {p1, p2}
MCSymmetry == Permutations(MCProcesses)
=============================================================================
