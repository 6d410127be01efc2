------------------------------ MODULE CrlScope ------------------------------
(***************************************************************************)
(* CCADBParser.load_intermediate_scope (parser.py): the logical CRLs that  *)
(* the rows of a snapshot disclose.  A full CRL is a list of mirrors, each *)
(* URL of a partitioned CRL a logical CRL of its own; intermediates repeat *)
(* what others disclose, in other orders.                                  *)
(*                                                                         *)
(* Abstractions.  The URLs of a row have been stripped and repeated ones   *)
(* dropped.                                                                *)
(***************************************************************************)
EXTENDS Integers, Sequences, SequencesExt

CONSTANTS
    Eligible,    \* rows of TLS-capable intermediate certificates
    FullUrls,    \* of each row, in its order
    Partitioned

RowGroups(row) ==
    (IF FullUrls[row] = <<>> THEN {} ELSE {[type |-> "full", urls |-> FullUrls[row]]})
    \cup {[type |-> "partitioned", urls |-> <<url>>] : url \in ToSet(Partitioned[row])}

\* Mutant: the first URL stands for the group.
FirstUrl(group) == <<group.type, group.urls[1]>>

Key(group) == <<group.type, ToSet(group.urls)>>

EligibleRows(rows) == ToSet(rows) \cap Eligible

Disclosed(rows, i) == IF rows[i] \in Eligible THEN RowGroups(rows[i]) ELSE {}

\* Of groups with the same key the first is kept, with its order of mirrors.
Groups(rows) ==
    UNION {{group \in Disclosed(rows, i) :
               \A j \in DOMAIN rows : j < i =>
                   \A seen \in Disclosed(rows, j) : Key(seen) # Key(group)} :
           i \in DOMAIN rows}

(***************************************************************************)
(* Every URL that an eligible row discloses is tried: as a mirror of the   *)
(* full CRLs that it belongs to, next to all its other mirrors and none    *)
(* that is not, or on its own if it is a partition.  Each logical CRL is   *)
(* there once.                                                             *)
(***************************************************************************)
CoversScope(groups, rows) ==
    LET tried(type, urls) == \E g \in groups : g.type = type /\ ToSet(g.urls) = urls
    IN  /\ \A row \in EligibleRows(rows) :
              /\ FullUrls[row] # <<>> => tried("full", ToSet(FullUrls[row]))
              /\ \A u \in ToSet(Partitioned[row]) : tried("partitioned", {u})
        /\ \A g, h \in groups : g.type = h.type /\ ToSet(g.urls) = ToSet(h.urls) => g = h
        /\ \A g \in groups : \E row \in EligibleRows(rows) :
              \/ g.type = "full" /\ g.urls = FullUrls[row]
              \/ g.type = "partitioned" /\ ToSet(g.urls) \subseteq ToSet(Partitioned[row])
=============================================================================
