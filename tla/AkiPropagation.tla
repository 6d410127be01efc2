--------------------------- MODULE AkiPropagation ---------------------------
(***************************************************************************)
(* The AKI columns of revoked_certs (data_manager.py): the commits of CRLs *)
(* write authority_key_identifier and aki_source, and at the end of a CRL  *)
(* stage propagate_unique_crl_aki_by_issuer updates what records inherit   *)
(* from others of their issuer, row by row.                                *)
(*                                                                         *)
(* Abstractions.  An issuer is its normalized name; a record is a row,     *)
(* identified by its serial number and issuer as the CRL spells it.        *)
(***************************************************************************)
EXTENDS FiniteSets

CONSTANTS
    Records,
    Akis,
    NoAki,  \* NULL
    Name    \* the normalized issuer of each record

ASSUME AkiConstants == NoAki \notin Akis /\ IsFiniteSet(Akis)

VARIABLES
    stored,  \* the rows of the table
    aki,     \* [Records -> Akis or NoAki]: authority_key_identifier
    source,  \* [Records -> ...]: aki_source
    settled  \* history: no CRL was saved since the last propagation

akiVars == <<stored, aki, source, settled>>

AkiInit ==
    /\ stored = {} /\ settled = FALSE
    /\ aki = [r \in Records |-> NoAki] /\ source = [r \in Records |-> "none"]

\* Mutant: rows of a CRL without an AKI are marked, too.
SaveRevokedCertsMarking(S, a) ==
    /\ stored' = stored \cup S
    /\ aki' = [r \in Records |-> IF r \in S /\ a # NoAki THEN a ELSE aki[r]]
    /\ source' = [r \in Records |-> IF r \in S THEN "crl" ELSE source[r]]
    /\ settled' = FALSE

\* One CRL: its records S, its AKI or none.
SaveRevokedCerts(S, a) ==
    /\ stored' = stored \cup S
    /\ aki' = [r \in Records |-> IF r \in S /\ a # NoAki THEN a ELSE aki[r]]
    /\ source' = [r \in Records |-> IF r \in S /\ a # NoAki THEN "crl" ELSE source[r]]
    /\ settled' = FALSE

Candidates(n) == {aki[r] : r \in {q \in stored : source[q] = "crl" /\ Name[q] = n}}

Unique(n) == Cardinality(Candidates(n)) = 1

Targets == {r \in stored : source[r] # "crl"}

\* Mutant: what was inherited stays when the evidence became ambiguous.
NoClears == {}

Clears == {r \in Targets : ~Unique(Name[r]) /\ source[r] = "crl_issuer"}

Updates == {r \in Targets : Unique(Name[r]) /\ ~(aki[r] \in Candidates(Name[r])
                                                 /\ source[r] = "crl_issuer")}

PropagateUniqueCrlAkiByIssuer ==
    /\ aki' = [r \in Records |->
                  IF r \in Clears THEN NoAki
                  ELSE IF r \in Updates THEN CHOOSE a \in Candidates(Name[r]) : TRUE
                  ELSE aki[r]]
    /\ source' = [r \in Records |->
                     IF r \in Clears THEN "none"
                     ELSE IF r \in Updates THEN "crl_issuer" ELSE source[r]]
    /\ settled' = TRUE
    /\ UNCHANGED stored

AkiNext ==
    \/ PropagateUniqueCrlAkiByIssuer
    \/ \E S \in SUBSET Records, a \in Akis \cup {NoAki} : SaveRevokedCerts(S, a)

AkiSpec == AkiInit /\ [][AkiNext]_akiVars

(***************************************************************************)
(* Properties                                                              *)
(***************************************************************************)

AkiTypeOK ==
    /\ stored \subseteq Records /\ settled \in BOOLEAN
    /\ aki \in [Records -> Akis \cup {NoAki}]
    /\ source \in [Records -> {"none", "crl", "crl_issuer"}]

\* An AKI and its source are written together; other rows have neither.
ProvenanceKnown ==
    \A r \in Records :
        /\ aki[r] = NoAki <=> source[r] = "none"
        /\ r \notin stored => aki[r] = NoAki

View == INSTANCE AkiView WITH
    Records <- Records, Akis <- Akis, NoAki <- NoAki, Name <- Name,
    known <- stored,
    direct <- [r \in Records |-> IF source[r] = "crl" THEN aki[r] ELSE NoAki],
    view <- aki,
    current <- settled

(***************************************************************************)
(* Whatever CRLs said in which order, and wherever a stage was killed:     *)
(* each propagation, which only updates and clears rows that earlier ones  *)
(* left behind, gives every record the AKI that follows from the direct    *)
(* evidence of that moment alone.                                          *)
(***************************************************************************)
ImplementsAkiView == View!Spec
=============================================================================
