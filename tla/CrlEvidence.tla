---------------------------- MODULE CrlEvidence -----------------------------
(***************************************************************************)
(* crl_sync_only (main.py) from the records of CCADB to the AKIs of the    *)
(* revoked certificates: the snapshot, the scope, the parsed CRLs and the  *)
(* propagation, over any number of runs and with kills.                    *)
(*                                                                         *)
(* Abstractions.  The downloads of the CRLs, which CrlPipeline models, are *)
(* one step: each logical CRL yields the file of at most one of its URLs.  *)
(* A CRL is the records that it lists with one AKI, or with none; what a   *)
(* URL delivers may differ from run to run.                                *)
(***************************************************************************)
EXTENDS Integers, CcadbSnapshot, CrlScope, AkiPropagation

CONSTANTS
    CrlsOf,  \* what each URL may deliver
    NoUrl    \* no mirror answered, or nothing changed

ASSUME EvidenceConstants ==
    \A url \in DOMAIN CrlsOf : CrlsOf[url] \subseteq [records : SUBSET Records, aki : Akis \cup {NoAki}]

VARIABLES
    stage,  \* of crl_sync_only
    files   \* updated CRL files that are still to be parsed

vars == <<snapshotVars, akiVars, stage, files>>

Init == SnapshotInit /\ AkiInit /\ stage = "idle" /\ files = {}

\* Sets of files for which each logical CRL chose one of its mirrors, or none.
DownloadResults(groups) ==
    {Range(choice) \ {NoUrl} :
        choice \in {c \in [groups -> DOMAIN CrlsOf \cup {NoUrl}] :
                       \A group \in groups : c[group] \in ToSet(group.urls) \cup {NoUrl}}}

RefreshSnapshot ==
    /\ stage = "idle"
    /\ StartDownload
    /\ stage' = "snapshot"
    /\ UNCHANGED <<akiVars, files>>

\* A download that failed ends the stage.
Download ==
    /\ stage = "snapshot"
    /\ DownloadStep
    /\ stage' = IF decade' # 0 THEN "snapshot" ELSE IF fresh' THEN "scope" ELSE "idle"
    /\ UNCHANGED <<akiVars, files>>

UseCachedSnapshot ==
    /\ stage = "idle" /\ fresh
    /\ stage' = "scope"
    /\ UNCHANGED <<snapshotVars, akiVars, files>>

LoadScope ==
    /\ stage = "scope"
    /\ EligibleRows(snapshot) # {}
    /\ stage' = "crls"
    /\ files' \in DownloadResults(Groups(snapshot))
    /\ UNCHANGED <<snapshotVars, akiVars>>

ScopeIsEmpty ==
    /\ stage = "scope"
    /\ EligibleRows(snapshot) = {}
    /\ stage' = "idle"
    /\ UNCHANGED <<snapshotVars, akiVars, files>>

\* Files are parsed and committed in any order.
ParseCrl(url) ==
    /\ stage = "crls" /\ url \in files
    /\ \E crl \in CrlsOf[url] : SaveRevokedCerts(crl.records, crl.aki)
    /\ files' = files \ {url}
    /\ UNCHANGED <<snapshotVars, stage>>

ParseFails(url) ==
    /\ stage = "crls" /\ url \in files
    /\ files' = files \ {url}
    /\ UNCHANGED <<snapshotVars, akiVars, stage>>

Propagate ==
    /\ stage = "crls" /\ files = {}
    /\ PropagateUniqueCrlAkiByIssuer
    /\ stage' = "idle"
    /\ UNCHANGED <<snapshotVars, files>>

\* An exception of the propagation or of the stage, or a kill.
Kill ==
    /\ stage # "idle"
    /\ Forget
    /\ stage' = "idle" /\ files' = {}
    /\ UNCHANGED <<file, akiVars>>

BetweenRuns ==
    /\ stage = "idle"
    /\ Expire \/ LoseSnapshot
    /\ UNCHANGED <<akiVars, stage, files>>

World == CcadbChanges /\ UNCHANGED <<akiVars, stage, files>>

Next ==
    \/ RefreshSnapshot \/ Download \/ UseCachedSnapshot
    \/ LoadScope \/ ScopeIsEmpty
    \/ \E url \in files : ParseCrl(url) \/ ParseFails(url)
    \/ Propagate \/ Kill \/ BetweenRuns \/ World

Spec == Init /\ [][Next]_vars

(***************************************************************************)
(* Properties                                                              *)
(***************************************************************************)

TypeOK ==
    /\ SnapshotTypeOK /\ AkiTypeOK /\ ProvenanceKnown
    /\ stage \in {"idle", "snapshot", "scope", "crls"}
    /\ decade # 0 <=> stage = "snapshot"
    /\ files # {} => stage = "crls" /\ files \subseteq DOMAIN CrlsOf

(***************************************************************************)
(* The CRLs of a run are those that the eligible rows of the snapshot      *)
(* disclose, whatever they repeat of each other.                           *)
(***************************************************************************)
ScopeIsComplete == stage = "crls" => CoversScope(Groups(snapshot), snapshot)
=============================================================================
