--------------------------- MODULE MCCrlEvidence ----------------------------
\* Two decades.  The CRLs of two rows share their first mirror, that of
\* another is a partition too.  Two rows are not
\* eligible, and the one of the second decade cannot be flattened.
\* The three records have one issuer, of which there are two AKIs.
EXTENDS CrlEvidence

CONSTANTS one, two, root, broken, u, v, r1, r2, r3, a1, a2

MCRowsOf == <<<<one, root, two>>, <<broken>>>>
MCFlattens == {one, two, root}
MCEligible == {one, two}
MCFullUrls == (one :> <<u, v>>) @@ (two :> <<u>>) @@ (root :> <<v>>) @@ (broken :> <<>>)
MCPartitioned == (one :> <<>>) @@ (two :> <<v>>) @@ (root :> <<>>) @@ (broken :> <<>>)
MCRecords == {r1, r2, r3}
MCAkis == {a1, a2}
MCName == [r \in MCRecords |-> "issuer"]
Crl(S, a) == [records |-> S, aki |-> a]
MCCrlsOf == (u :> {Crl({r1}, a1), Crl({r1}, a2)})
         @@ (v :> {Crl({r2, r3}, NoAki), Crl({r2}, a2)})
=============================================================================
