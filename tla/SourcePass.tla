----------------------------- MODULE SourcePass -----------------------------
(***************************************************************************)
(* What run_once and record_lookup_results may rely on when a lookup       *)
(* source works through the records that it was given, whatever the source *)
(* is and however it ends (lookup.py, LookupProviderResult).  CtQuery and  *)
(* CrtShSupplement are shown to implement this specification.              *)
(***************************************************************************)
CONSTANT Records

VARIABLES
    has,       \* [Records -> Contents]: what the source has of each record
    selected,  \* the records of the pass
    reported,  \* [Records -> ...]: the outcomes of the pass
    ending     \* how the pass ended, or "running", or "idle" before the first

passVars == <<has, selected, reported, ending>>

\* "outside": a certificate that is beyond the scope of the queries.
Contents == {"usable", "unusable", "absent", "outside"}
Outcomes == {"none", "found", "not_found", "error"}
Endings == {"complete", "circuit", "budget", "failed"}

Unreported == [r \in Records |-> "none"]

Init ==
    /\ has \in [Records -> Contents]
    /\ selected \subseteq Records
    /\ reported = Unreported
    /\ ending \in {"idle", "running"}

\* An error may be reported of every record, a verdict only if it is true.
Truthful(r, outcome) ==
    \/ outcome = "error"
    \/ outcome = "found" /\ has[r] \in {"usable", "outside"}
    \/ outcome = "not_found" /\ has[r] \in {"absent", "outside"}

Begin ==
    /\ ending # "running"
    /\ selected' \subseteq Records
    /\ reported' = Unreported
    /\ ending' = "running"
    /\ UNCHANGED has

\* Outcomes of some records, and perhaps the end of the pass.
Proceed ==
    /\ ending = "running"
    /\ \A r \in Records :
          \/ reported'[r] = reported[r]
          \/ /\ r \in selected /\ reported[r] = "none"
             /\ Truthful(r, reported'[r])
    /\ reported' \in [Records -> Outcomes]
    /\ ending' \in Endings \cup {"running"}
    /\ ending' = "complete" => \A r \in selected : reported'[r] # "none"
    /\ ending' = "circuit" => \E r \in selected : reported'[r] = "error"
    /\ ending' \in {"budget", "failed"} => reported' = reported
    /\ UNCHANGED <<has, selected>>

Spec == Init /\ [][Begin \/ Proceed]_passVars

\* No pass runs for ever.
Ends == []<>(ending # "running")
=============================================================================
