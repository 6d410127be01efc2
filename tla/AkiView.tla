------------------------------ MODULE AkiView -------------------------------
(***************************************************************************)
(* What CT lookups may rely on about the AKI of a record, over any number  *)
(* of CRL stages: it is the one that a CRL gave directly to the record, or *)
(* the only one that CRLs gave to records of the same issuer; without such *)
(* evidence there is none.  AkiPropagation is shown to implement this.     *)
(***************************************************************************)
CONSTANTS
    Records,
    Akis,
    NoAki,
    Name  \* the normalized issuer of each record

VARIABLES
    known,   \* the records of the database
    direct,  \* [Records -> Akis or NoAki]: what a CRL said last
    view,    \* [Records -> Akis or NoAki]: what lookups use
    current  \* no CRL was read since the view was derived

viewVars == <<known, direct, view, current>>

Init ==
    /\ known = {} /\ current = FALSE
    /\ direct = [r \in Records |-> NoAki] /\ view = [r \in Records |-> NoAki]

Evidence(n) == {direct[r] : r \in {q \in known : Name[q] = n}} \ {NoAki}

Derived(r) ==
    IF direct[r] # NoAki THEN direct[r]
    ELSE IF \E a \in Akis : Evidence(Name[r]) = {a}
         THEN CHOOSE a \in Akis : Evidence(Name[r]) = {a}
    ELSE NoAki

\* A CRL without an AKI changes nothing for records that are known.
Observe(S, a) ==
    /\ known' = known \cup S
    /\ direct' = [r \in Records |-> IF r \in S /\ a # NoAki THEN a ELSE direct[r]]
    /\ view' = [r \in Records |-> IF r \in S /\ a # NoAki THEN a ELSE view[r]]
    /\ current' = FALSE

Refresh ==
    /\ view' = [r \in Records |-> IF r \in known THEN Derived(r) ELSE NoAki]
    /\ current' = TRUE
    /\ UNCHANGED <<known, direct>>

Next ==
    \/ \E S \in SUBSET Records, a \in Akis \cup {NoAki} : Observe(S, a)
    \/ Refresh

Spec == Init /\ [][Next]_viewVars
=============================================================================
