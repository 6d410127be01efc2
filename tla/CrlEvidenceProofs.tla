------------------------- MODULE CrlEvidenceProofs --------------------------
(***************************************************************************)
(* crl_sync_only for any rows, URLs, CRLs, page size and number of runs.   *)
(*                                                                         *)
(* The snapshot: what was read of a decade is what CCADB has up to the     *)
(* page, or some count will disagree at its end (Intact, Doomed).  The     *)
(* scope: of the groups with a key the earliest is kept.  The AKIs: the    *)
(* propagation implements AkiView, and what crl_sync_only does around it,  *)
(* on its own or killed, is a stuttering step or a commit of that          *)
(* specification.                                                          *)
(***************************************************************************)
EXTENDS CrlEvidence, FiniteSetTheorems, SequenceTheorems, WellFoundedInduction, TLAPS

AkiInv == AkiTypeOK /\ ProvenanceKnown

MaybeAki == Akis \cup {NoAki}

\* What the refinement maps to AkiView!direct.
Direct == [r \in Records |-> IF source[r] = "crl" THEN aki[r] ELSE NoAki]

----------------------------------------------------------------------------
(* The evidence *)

LEMMA CandidatesAreAkis ==
    ASSUME AkiInv, NEW n
    PROVE  Candidates(n) \subseteq Akis /\ IsFiniteSet(Candidates(n))
  <1>1. Candidates(n) \subseteq Akis
    BY DEF AkiInv, AkiTypeOK, ProvenanceKnown, Candidates
  <1> QED
    BY <1>1, AkiConstants, FS_Subset

\* Counting the distinct AKIs of an issuer finds those with exactly one.
LEMMA UniqueIsOne ==
    ASSUME AkiInv, NEW n
    PROVE  Unique(n) <=> \E a \in Akis : Candidates(n) = {a}
  <1>1. Cardinality(Candidates(n)) = 1 <=> \E a : Candidates(n) = {a}
    BY CandidatesAreAkis, FS_Singleton
  <1> QED
    BY <1>1, CandidatesAreAkis DEF Unique

\* The direct rows of the query are the evidence of the specification.
LEMMA EvidenceIsCandidates ==
    ASSUME AkiInv, NEW n
    PROVE  View!Evidence(n) = Candidates(n)
  BY AkiConstants DEF AkiInv, AkiTypeOK, ProvenanceKnown, Candidates, View!Evidence

LEMMA DerivedIsPropagated ==
    ASSUME AkiInv, NEW r \in stored
    PROVE  View!Derived(r) = IF source[r] = "crl" THEN aki[r]
                             ELSE IF Unique(Name[r]) THEN CHOOSE a \in Candidates(Name[r]) : TRUE
                             ELSE NoAki
  <1> DEFINE n == Name[r]
  <1>0. r \in Records
    BY DEF AkiInv, AkiTypeOK
  <1>1. CASE source[r] = "crl"
    BY <1>0, <1>1 DEF View!Derived, AkiInv, ProvenanceKnown
  <1>2. CASE source[r] # "crl" /\ Unique(n)
    <2>1. PICK a \in Akis : Candidates(n) = {a}
      BY <1>2, UniqueIsOne
    <2>2. View!Derived(r) = a
      BY <1>0, <1>2, <2>1, EvidenceIsCandidates DEF View!Derived
    <2>3. (CHOOSE b \in Candidates(n) : TRUE) = a
      BY <2>1
    <2> QED
      BY <1>2, <2>2, <2>3
  <1>3. CASE source[r] # "crl" /\ ~Unique(n)
    BY <1>0, <1>3, UniqueIsOne, EvidenceIsCandidates DEF View!Derived
  <1> QED
    BY <1>1, <1>2, <1>3

----------------------------------------------------------------------------
(* Steps of AkiPropagation *)

LEMMA AkiInitEstablishes == AkiInit => AkiInv /\ View!Init
  BY DEF AkiInit, AkiInv, AkiTypeOK, ProvenanceKnown, View!Init

LEMMA SavePreserves ==
    ASSUME AkiInv, NEW S \in SUBSET Records, NEW a \in MaybeAki, SaveRevokedCerts(S, a)
    PROVE  AkiInv' /\ View!Observe(S, a)
  <1>1. AkiTypeOK'
    BY DEF SaveRevokedCerts, AkiInv, AkiTypeOK, MaybeAki
  <1>2. ProvenanceKnown'
    BY DEF SaveRevokedCerts, AkiInv, AkiTypeOK, ProvenanceKnown, MaybeAki
  <1>3. View!Observe(S, a)
    BY DEF SaveRevokedCerts, AkiInv, AkiTypeOK, View!Observe
  <1> QED
    BY <1>1, <1>2, <1>3 DEF AkiInv

\* Row by row, the propagation arrives at what the evidence says.
LEMMA PropagateRefreshes ==
    ASSUME AkiInv, PropagateUniqueCrlAkiByIssuer
    PROVE  AkiInv' /\ View!Refresh
  <1>1. ASSUME NEW r \in Updates
        PROVE  (CHOOSE a \in Candidates(Name[r]) : TRUE) \in Akis
    BY <1>1, UniqueIsOne DEF Updates
  <1>2. Clears \subseteq Targets /\ Updates \subseteq Targets /\ Targets \subseteq stored
    BY DEF Clears, Updates, Targets
  <1>3. stored \subseteq Records
    BY DEF AkiInv, AkiTypeOK
  <1>4. \A r \in Records : /\ aki'[r] \in MaybeAki
                           /\ source'[r] \in {"none", "crl", "crl_issuer"}
                           /\ aki'[r] = NoAki <=> source'[r] = "none"
    BY <1>1, <1>2, AkiConstants
    DEF PropagateUniqueCrlAkiByIssuer, AkiInv, AkiTypeOK, ProvenanceKnown, MaybeAki
  <1>5. AkiTypeOK'
    BY <1>3, <1>4 DEF PropagateUniqueCrlAkiByIssuer, AkiTypeOK, MaybeAki
  <1>6. ProvenanceKnown'
    BY <1>2, <1>4 DEF PropagateUniqueCrlAkiByIssuer, AkiInv, ProvenanceKnown
  <1>7. Direct' = Direct
    <2>1. \A r \in Records : source'[r] = "crl" <=> source[r] = "crl"
      BY <1>2 DEF PropagateUniqueCrlAkiByIssuer, Targets, Clears, Updates
    <2>2. \A r \in Records : source[r] = "crl" => aki'[r] = aki[r]
      BY <1>2 DEF PropagateUniqueCrlAkiByIssuer, Targets
    <2> QED
      BY <2>1, <2>2 DEF Direct
  <1>8. ASSUME NEW r \in Records
        PROVE  aki'[r] = IF r \in stored THEN View!Derived(r) ELSE NoAki
    <2>1. CASE r \notin stored
      BY <1>2, <2>1 DEF PropagateUniqueCrlAkiByIssuer, AkiInv, ProvenanceKnown
    <2>2. CASE r \in stored /\ source[r] = "crl"
      BY <1>2, <2>2, DerivedIsPropagated DEF PropagateUniqueCrlAkiByIssuer, Targets
    <2>3. CASE r \in Targets /\ Unique(Name[r])
      <3>1. PICK a \in Akis : Candidates(Name[r]) = {a}
        BY <2>3, UniqueIsOne
      <3>2. (CHOOSE b \in Candidates(Name[r]) : TRUE) = a
        BY <3>1
      <3>3. aki'[r] = a
        BY <2>3, <3>1, <3>2 DEF PropagateUniqueCrlAkiByIssuer, Clears, Updates
      <3>4. r \in stored /\ source[r] # "crl"
        BY <2>3 DEF Targets
      <3> QED
        BY <2>3, <3>2, <3>3, <3>4, DerivedIsPropagated
    <2>4. CASE r \in Targets /\ ~Unique(Name[r])
      <3>1. aki'[r] = NoAki
        BY <2>4 DEF PropagateUniqueCrlAkiByIssuer, Clears, Updates, Targets,
                    AkiInv, AkiTypeOK, ProvenanceKnown
      <3>2. r \in stored /\ source[r] # "crl"
        BY <2>4 DEF Targets
      <3> QED
        BY <2>4, <3>1, <3>2, DerivedIsPropagated
    <2> QED
      BY <2>1, <2>2, <2>3, <2>4 DEF Targets
  <1>9. aki' = [r \in Records |-> IF r \in stored THEN View!Derived(r) ELSE NoAki]
    BY <1>8 DEF PropagateUniqueCrlAkiByIssuer
  <1>10. View!Refresh
    BY <1>7, <1>9 DEF PropagateUniqueCrlAkiByIssuer, View!Refresh, Direct
  <1> QED
    BY <1>5, <1>6, <1>10 DEF AkiInv

LEMMA AkiStep ==
    ASSUME AkiInv, [AkiNext]_akiVars
    PROVE  AkiInv' /\ [View!Next]_View!viewVars
  <1>1. ASSUME NEW S \in SUBSET Records, NEW a \in MaybeAki, SaveRevokedCerts(S, a)
        PROVE  AkiInv' /\ View!Next
    BY <1>1, SavePreserves DEF View!Next, MaybeAki
  <1>2. CASE PropagateUniqueCrlAkiByIssuer
    BY <1>2, PropagateRefreshes DEF View!Next
  <1>3. CASE UNCHANGED akiVars
    BY <1>3 DEF akiVars, AkiInv, AkiTypeOK, ProvenanceKnown, View!viewVars
  <1> QED
    BY <1>1, <1>2, <1>3 DEF AkiNext, MaybeAki

----------------------------------------------------------------------------
(* The scope *)

LEMMA LeastNatural ==
    ASSUME NEW T \in SUBSET Nat, T # {}
    PROVE  \E n \in T : \A k \in T : n <= k
  <1> DEFINE Less == {pair \in Nat \X Nat : pair[1] < pair[2]}
  <1>1. IsWellFoundedOn(Less, Nat)
    BY NatLessThanWellFounded DEF OpToRel
  <1> HIDE DEF Less
  <1>2. PICK n \in T : \A k \in T : ~(<<k, n>> \in Less)
    BY <1>1, WFMin
  <1>3. \A k \in T : ~(k < n)
    BY <1>2 DEF Less
  <1> QED
    BY <1>3

\* The groups of one row.
LEMMA GroupsOfRow ==
    ASSUME NEW row
    PROVE  /\ \A g \in RowGroups(row) :
                 \/ g = [type |-> "full", urls |-> FullUrls[row]] /\ FullUrls[row] # <<>>
                 \/ \E url \in ToSet(Partitioned[row]) :
                       g = [type |-> "partitioned", urls |-> <<url>>]
           /\ FullUrls[row] # <<>> => [type |-> "full", urls |-> FullUrls[row]] \in RowGroups(row)
           /\ \A url \in ToSet(Partitioned[row]) :
                 [type |-> "partitioned", urls |-> <<url>>] \in RowGroups(row)
  BY DEF RowGroups

LEMMA ToSetOfOne == \A url : ToSet(<<url>>) = {url}
  BY DEF ToSet

\* Within a row no two groups have the same key.
LEMMA KeysOfRow ==
    ASSUME NEW row, NEW g \in RowGroups(row), NEW h \in RowGroups(row), Key(g) = Key(h)
    PROVE  g = h
  <1>1. g.type = h.type /\ ToSet(g.urls) = ToSet(h.urls)
    BY DEF Key
  <1>2. CASE g = [type |-> "full", urls |-> FullUrls[row]]
    <2>1. \A url : h # [type |-> "partitioned", urls |-> <<url>>]
      BY <1>1, <1>2
    <2> QED
      BY <1>2, <2>1, GroupsOfRow
  <1>3. ASSUME NEW url, g = [type |-> "partitioned", urls |-> <<url>>] PROVE g = h
    <2>1. h # [type |-> "full", urls |-> FullUrls[row]]
      BY <1>1, <1>3
    <2>2. PICK other : h = [type |-> "partitioned", urls |-> <<other>>]
      BY <2>1, GroupsOfRow
    <2>3. ToSet(<<url>>) = ToSet(<<other>>)
      BY <1>1, <1>3, <2>2
    <2>4. url = other
      BY <2>3, ToSetOfOne
    <2> QED
      BY <1>3, <2>2, <2>4
  <1> QED
    BY <1>2, <1>3, GroupsOfRow

\* A disclosed group is there, itself or an earlier one with its key.
LEMMA GroupIsKept ==
    ASSUME NEW X, NEW rows \in Seq(X), NEW i \in DOMAIN rows, NEW g \in Disclosed(rows, i)
    PROVE  \E h \in Groups(rows) : Key(h) = Key(g)
  <1> DEFINE T == {n \in DOMAIN rows : \E h \in Disclosed(rows, n) : Key(h) = Key(g)}
  <1>1. T \in SUBSET Nat /\ T # {}
    BY LenProperties
  <1>2. PICK n \in T : \A k \in T : n <= k
    BY <1>1, LeastNatural
  <1>3. PICK h \in Disclosed(rows, n) : Key(h) = Key(g)
    BY <1>2
  <1>4. \A j \in DOMAIN rows : j < n => \A seen \in Disclosed(rows, j) : Key(seen) # Key(h)
    <2> SUFFICES ASSUME NEW j \in DOMAIN rows, j < n,
                        NEW seen \in Disclosed(rows, j), Key(seen) = Key(h)
                 PROVE  FALSE
      OBVIOUS
    <2>1. j \in T /\ n \in Nat /\ j \in Nat
      BY <1>1, <1>3
    <2> QED
      BY <1>2, <2>1
  <1>5. h \in Groups(rows)
    BY <1>3, <1>4 DEF Groups
  <1> QED
    BY <1>3, <1>5

LEMMA GroupsCoverScope ==
    ASSUME NEW X, NEW rows \in Seq(X)
    PROVE  CoversScope(Groups(rows), rows)
  <1> DEFINE groups == Groups(rows)
  <1>1. ASSUME NEW row \in EligibleRows(rows)
        PROVE  \E i \in DOMAIN rows : row = rows[i] /\ Disclosed(rows, i) = RowGroups(row)
    BY <1>1 DEF EligibleRows, ToSet, Disclosed
  <1>2. ASSUME NEW g \in groups
        PROVE  \E i \in DOMAIN rows :
                  /\ g \in Disclosed(rows, i) /\ rows[i] \in EligibleRows(rows)
                  /\ Disclosed(rows, i) = RowGroups(rows[i])
                  /\ \A j \in DOMAIN rows : j < i =>
                        \A seen \in Disclosed(rows, j) : Key(seen) # Key(g)
    BY <1>2 DEF Groups, Disclosed, EligibleRows, ToSet
  <1> HIDE DEF groups
  <1>3. ASSUME NEW row \in EligibleRows(rows), NEW g \in RowGroups(row)
        PROVE  \E h \in groups : h.type = g.type /\ ToSet(h.urls) = ToSet(g.urls)
    <2>1. PICK i \in DOMAIN rows : row = rows[i] /\ Disclosed(rows, i) = RowGroups(row)
      BY <1>1
    <2>2. PICK h \in groups : Key(h) = Key(g)
      BY <1>3, <2>1, GroupIsKept DEF groups
    <2> QED
      BY <2>2 DEF Key
  <1>4. ASSUME NEW row \in EligibleRows(rows), FullUrls[row] # <<>>
        PROVE  \E h \in groups : h.type = "full" /\ ToSet(h.urls) = ToSet(FullUrls[row])
    <2> DEFINE g == [type |-> "full", urls |-> FullUrls[row]]
    <2>1. g \in RowGroups(row) /\ g.type = "full" /\ g.urls = FullUrls[row]
      BY <1>4, GroupsOfRow
    <2> HIDE DEF g
    <2> QED
      BY <1>3, <2>1
  <1>5. ASSUME NEW row \in EligibleRows(rows), NEW url \in ToSet(Partitioned[row])
        PROVE  \E h \in groups : h.type = "partitioned" /\ ToSet(h.urls) = {url}
    <2> DEFINE g == [type |-> "partitioned", urls |-> <<url>>]
    <2>1. g \in RowGroups(row) /\ g.type = "partitioned" /\ ToSet(g.urls) = {url}
      BY <1>5, GroupsOfRow, ToSetOfOne
    <2> HIDE DEF g
    <2> QED
      BY <1>3, <2>1
  <1>6. ASSUME NEW g \in groups, NEW h \in groups,
               g.type = h.type, ToSet(g.urls) = ToSet(h.urls)
        PROVE  g = h
    <2>1. Key(g) = Key(h)
      BY <1>6 DEF Key
    <2>2. PICK i \in DOMAIN rows :
             /\ g \in Disclosed(rows, i) /\ Disclosed(rows, i) = RowGroups(rows[i])
             /\ \A j \in DOMAIN rows : j < i =>
                   \A seen \in Disclosed(rows, j) : Key(seen) # Key(g)
      BY <1>2
    <2>3. PICK j \in DOMAIN rows :
             /\ h \in Disclosed(rows, j)
             /\ \A k \in DOMAIN rows : k < j =>
                   \A seen \in Disclosed(rows, k) : Key(seen) # Key(h)
      BY <1>2
    <2>4. i \in Nat /\ j \in Nat
      BY LenProperties
    <2>5. ~(i < j) /\ ~(j < i)
      BY <2>1, <2>2, <2>3
    <2>6. i = j
      BY <2>4, <2>5
    <2> QED
      BY <2>1, <2>2, <2>3, <2>6, KeysOfRow
  <1>7. ASSUME NEW g \in groups
        PROVE  \E row \in EligibleRows(rows) :
                  \/ g.type = "full" /\ g.urls = FullUrls[row]
                  \/ g.type = "partitioned" /\ ToSet(g.urls) \subseteq ToSet(Partitioned[row])
    <2>1. PICK i \in DOMAIN rows : g \in RowGroups(rows[i]) /\ rows[i] \in EligibleRows(rows)
      BY <1>2
    <2>2. CASE g = [type |-> "full", urls |-> FullUrls[rows[i]]]
      BY <2>1, <2>2
    <2>3. ASSUME NEW url \in ToSet(Partitioned[rows[i]]),
                 g = [type |-> "partitioned", urls |-> <<url>>]
          PROVE  g.type = "partitioned" /\ ToSet(g.urls) \subseteq ToSet(Partitioned[rows[i]])
      BY <2>3, ToSetOfOne
    <2> QED
      BY <2>1, <2>2, <2>3, GroupsOfRow
  <1> QED
    BY <1>4, <1>5, <1>6, <1>7 DEF CoversScope, groups

----------------------------------------------------------------------------
(* The file *)

Concatenates(g, seqs, n) ==
    \A i \in 1..n : g[i] = IF i = 1 THEN seqs[i] ELSE g[i - 1] \o seqs[i]

\* The prefixes of a sequence of sequences can be concatenated one by one.
LEMMA FlattenedPrefixes ==
    ASSUME NEW X, NEW seqs \in Seq(Seq(X)), NEW n \in 0..Len(seqs)
    PROVE  \E g \in [1..n -> Seq(X)] : Concatenates(g, seqs, n)
  <1> DEFINE P(m) == \E g \in [1..m -> Seq(X)] : Concatenates(g, seqs, m)
             T == {m \in 0..Len(seqs) : ~P(m)}
  <1>1. Len(seqs) \in Nat /\ \A i \in 1..Len(seqs) : seqs[i] \in Seq(X)
    BY LenProperties, ElementOfSeq
  <1>2. SUFFICES ASSUME T # {} PROVE FALSE
    OBVIOUS
  <1>3. PICK m \in T : \A k \in T : m <= k
    <2>1. T \in SUBSET Nat
      BY <1>1
    <2> HIDE DEF T
    <2> QED
      BY <1>2, <2>1, LeastNatural
  <1>4. m \in Nat /\ m <= Len(seqs)
    BY <1>1
  <1>5. m # 0
    <2>1. P(0)
      <3> DEFINE g == [i \in 1..0 |-> <<>>]
      <3>1. g \in [1..0 -> Seq(X)]
        OBVIOUS
      <3>2. \A i \in 1..0 : FALSE
        OBVIOUS
      <3> WITNESS g \in [1..0 -> Seq(X)]
      <3> QED
        BY <3>2 DEF Concatenates
    <2> QED
      BY <2>1
  <1>6. m - 1 \in 0..Len(seqs) /\ ~(m <= m - 1)
    BY <1>1, <1>4, <1>5
  <1>7. P(m - 1)
    BY <1>3, <1>6
  <1>8. PICK g \in [1..m - 1 -> Seq(X)] :
           \A i \in 1..m - 1 : g[i] = IF i = 1 THEN seqs[i] ELSE g[i - 1] \o seqs[i]
    BY <1>7 DEF Concatenates
  <1> DEFINE value == IF m = 1 THEN seqs[m] ELSE g[m - 1] \o seqs[m]
             h == [i \in 1..m |-> IF i = m THEN value ELSE g[i]]
  <1>9. value \in Seq(X)
    <2>1. seqs[m] \in Seq(X)
      BY <1>1, <1>4, <1>5
    <2>2. m # 1 => g[m - 1] \in Seq(X)
      BY <1>4, <1>5, <1>8
    <2> QED
      BY <2>1, <2>2
  <1>10. \A i \in 1..m : i # m => i \in 1..m - 1
    BY <1>4
  <1>11. h \in [1..m -> Seq(X)]
    BY <1>9, <1>10
  <1>12. \A i \in 1..m : h[i] = IF i = 1 THEN seqs[i] ELSE h[i - 1] \o seqs[i]
    <2> SUFFICES ASSUME NEW i \in 1..m
                 PROVE  h[i] = IF i = 1 THEN seqs[i] ELSE h[i - 1] \o seqs[i]
      OBVIOUS
    <2>1. i # 1 => i - 1 \in 1..m /\ i - 1 # m
      BY <1>4
    <2>2. i # 1 => h[i - 1] = g[i - 1]
      BY <2>1
    <2>3. CASE i = m
      <3>1. h[i] = IF i = 1 THEN seqs[i] ELSE g[i - 1] \o seqs[i]
        BY <2>3
      <3> QED
        BY <2>2, <3>1
    <2>4. CASE i # m
      <3>1. i \in 1..m - 1 /\ h[i] = g[i]
        BY <1>10, <2>4
      <3> QED
        BY <1>8, <2>2, <3>1
    <2> QED
      BY <2>3, <2>4
  <1>13. P(m)
    BY <1>11, <1>12 DEF Concatenates
  <1> QED
    BY <1>13

LEMMA FlattenedIsSeq ==
    ASSUME NEW X, NEW seqs \in Seq(Seq(X))
    PROVE  FlattenSeq(seqs) \in Seq(X)
  <1> DEFINE N == Len(seqs)
             Grows(g) == [i \in 1..N |-> IF i = 1 THEN seqs[i] ELSE g[i - 1] \o seqs[i]]
             flattened == CHOOSE g : g = Grows(g)
  <1>1. N \in Nat
    BY LenProperties
  <1>2. CASE N = 0
    BY <1>2 DEF FlattenSeq
  <1>3. CASE N # 0
    <2>1. \A g \in [1..N -> Seq(X)] :
             (\A i \in 1..N : g[i] = IF i = 1 THEN seqs[i] ELSE g[i - 1] \o seqs[i])
             => g = Grows(g)
      OBVIOUS
    <2>2. \E g : g = Grows(g)
      <3>1. N \in 0..Len(seqs)
        BY <1>1
      <3>2. PICK g \in [1..N -> Seq(X)] : Concatenates(g, seqs, N)
        BY <3>1, FlattenedPrefixes
      <3> QED
        BY <2>1, <3>2 DEF Concatenates
    <2>3. flattened = Grows(flattened)
      BY <2>2
    <2>4. FlattenSeq(seqs) = flattened[N]
      BY <1>3 DEF FlattenSeq
    <2> DEFINE T == {n \in 1..N : flattened[n] \notin Seq(X)}
    <2> HIDE DEF flattened
    <2>5. \A i \in 1..N : flattened[i] = IF i = 1 THEN seqs[i] ELSE flattened[i - 1] \o seqs[i]
      BY <2>3
    <2>6. \A i \in 1..N : seqs[i] \in Seq(X)
      BY ElementOfSeq
    <2>7. T = {}
      <3>1. SUFFICES ASSUME T # {} PROVE FALSE
        OBVIOUS
      <3>2. PICK n \in T : \A k \in T : n <= k
        <4>1. T \in SUBSET Nat
          BY <1>1
        <4> HIDE DEF T
        <4> QED
          BY <3>1, <4>1, LeastNatural
      <3>3. n \in 1..N /\ flattened[n] \notin Seq(X)
        OBVIOUS
      <3>4. n # 1
        BY <2>5, <2>6, <3>3
      <3>5. n - 1 \in 1..N /\ ~(n <= n - 1)
        BY <1>1, <3>3, <3>4
      <3>6. flattened[n - 1] \in Seq(X)
        BY <3>2, <3>5
      <3>7. flattened[n] = flattened[n - 1] \o seqs[n]
        BY <2>5, <3>3, <3>4
      <3> QED
        BY <2>6, <3>3, <3>6, <3>7
    <2>8. N \in 1..N
      BY <1>1, <1>3
    <2> QED
      BY <2>4, <2>7, <2>8
  <1> QED
    BY <1>2, <1>3

----------------------------------------------------------------------------
(* The pages of a listing *)

Smaller(m, n) == IF m < n THEN m ELSE n

\* How many rows of a listing come before page p.
Reached(l, p) == Smaller((p - 1) * PageSize, Len(l))
Prefix(l, p) == SubSeq(l, 1, Reached(l, p))
Rest(l, p) == Len(l) - Reached(l, p)
PageOf(l, p) == SubSeq(l, Reached(l, p) + 1, Reached(l, p + 1))

HasMore(l, p) == p * PageSize < Len(l)

LEMMA Reaching ==
    ASSUME NEW l, Len(l) \in Nat, NEW p \in Nat \ {0}
    PROVE  /\ Reached(l, p) \in 0..Len(l) /\ Reached(l, p + 1) \in 0..Len(l)
           /\ Reached(l, 1) = 0
           /\ Reached(l, p) <= Reached(l, p + 1)
           /\ HasMore(l, p) => /\ Reached(l, p) < Reached(l, p + 1)
                               /\ Reached(l, p + 1) < Reached(l, p + 2)
                               /\ Reached(l, p + 2) \in 0..Len(l)
           /\ ~HasMore(l, p) => Reached(l, p + 1) = Len(l) /\ Reached(l, p + 2) = Len(l)
  <1> DEFINE a == (p - 1) * PageSize
             n == Len(l)
  <1>1. PageSize \in Nat \ {0} /\ n \in Nat
    BY SnapshotConstants
  <1>2. a \in Nat
    <2>1. p - 1 \in Nat
      OBVIOUS
    <2> QED
      BY <1>1, <2>1
  <1>3. ((p + 1) - 1) * PageSize = a + PageSize /\ p * PageSize = a + PageSize
    BY <1>1
  <1>4. ((p + 2) - 1) * PageSize = a + PageSize + PageSize
    BY <1>1
  <1>5. (1 - 1) * PageSize = 0
    BY <1>1
  <1>6. /\ Reached(l, p) = Smaller(a, n) /\ Reached(l, p + 1) = Smaller(a + PageSize, n)
        /\ Reached(l, p + 2) = Smaller(a + PageSize + PageSize, n)
        /\ Reached(l, 1) = Smaller(0, n)
        /\ HasMore(l, p) <=> a + PageSize < n
    BY <1>3, <1>4, <1>5 DEF Reached, HasMore
  <1> HIDE DEF a, n
  <1>7. Reached(l, p) \in 0..n /\ Reached(l, p + 1) \in 0..n /\ Reached(l, p + 2) \in 0..n
    BY <1>1, <1>2, <1>6 DEF Smaller
  <1>8. Reached(l, 1) = 0 /\ Reached(l, p) <= Reached(l, p + 1)
    BY <1>1, <1>2, <1>6 DEF Smaller
  <1>9. HasMore(l, p) => /\ Reached(l, p) < Reached(l, p + 1)
                         /\ Reached(l, p + 1) < Reached(l, p + 2)
    BY <1>1, <1>2, <1>6 DEF Smaller
  <1>10. ~HasMore(l, p) => Reached(l, p + 1) = n /\ Reached(l, p + 2) = n
    BY <1>1, <1>2, <1>6 DEF Smaller
  <1> QED
    BY <1>7, <1>8, <1>9, <1>10 DEF n

LEMMA PagesOfListing ==
    ASSUME NEW X, NEW l \in Seq(X), NEW p \in Nat \ {0}
    PROVE  /\ Prefix(l, p) \in Seq(X) /\ Len(Prefix(l, p)) = Reached(l, p)
           /\ PageOf(l, p) \in Seq(X)
           /\ Len(PageOf(l, p)) = Reached(l, p + 1) - Reached(l, p)
           /\ Prefix(l, p) \o PageOf(l, p) = Prefix(l, p + 1)
  <1>1. Len(l) \in Nat /\ \A i \in 1..Len(l) : l[i] \in X
    BY LenProperties, ElementOfSeq
  <1>2. /\ Reached(l, p) \in 0..Len(l) /\ Reached(l, p + 1) \in 0..Len(l)
        /\ Reached(l, p) <= Reached(l, p + 1)
    BY <1>1, Reaching
  <1> DEFINE k == Reached(l, p)
             n == Reached(l, p + 1)
  <1> HIDE DEF k, n
  <1>3. k \in 0..Len(l) /\ n \in 0..Len(l) /\ k <= n
    BY <1>2 DEF k, n
  <1>4. SubSeq(l, 1, k) \in Seq(X) /\ Len(SubSeq(l, 1, k)) = k
    <2>1. k \in Int /\ 1 \in Int /\ \A i \in 1..k : l[i] \in X
      BY <1>1, <1>3
    <2>2. SubSeq(l, 1, k) \in Seq(X) /\ Len(SubSeq(l, 1, k)) = IF 1 <= k THEN k - 1 + 1 ELSE 0
      BY <2>1, SubSeqProperties
    <2> QED
      BY <1>1, <1>3, <2>2
  <1>5. SubSeq(l, k + 1, n) \in Seq(X) /\ Len(SubSeq(l, k + 1, n)) = n - k
    <2>1. k + 1 \in Int /\ n \in Int /\ \A i \in k + 1..n : l[i] \in X
      BY <1>1, <1>3
    <2>2. /\ SubSeq(l, k + 1, n) \in Seq(X)
          /\ Len(SubSeq(l, k + 1, n)) = IF k + 1 <= n THEN n - (k + 1) + 1 ELSE 0
      BY <2>1, SubSeqProperties
    <2> QED
      BY <1>1, <1>3, <2>2
  <1>6. SubSeq(l, 1, k) \o SubSeq(l, k + 1, n) = SubSeq(l, 1, n)
    <2>1. 1 \in 1..Len(l) + 1 /\ k \in 1 - 1..Len(l) /\ n \in k..Len(l)
      BY <1>1, <1>3
    <2> QED
      BY <2>1, ConcatAdjacentSubSeq
  <1> QED
    BY <1>4, <1>5, <1>6 DEF Prefix, PageOf, k, n

\* Before the first page there is nothing, after the last one everything.
LEMMA EndsOfListing ==
    ASSUME NEW X, NEW l \in Seq(X), NEW p \in Nat \ {0}
    PROVE  /\ Prefix(l, 1) = <<>>
           /\ ~HasMore(l, p) => Prefix(l, p + 1) = l /\ Prefix(l, p + 2) = l
  <1>1. Len(l) \in Nat
    BY LenProperties
  <1>2. Reached(l, 1) = 0
    BY <1>1, Reaching
  <1>3. SubSeq(l, 1, 0) = <<>>
    BY SubSeqEmpty
  <1>4. ~HasMore(l, p) => Reached(l, p + 1) = Len(l) /\ Reached(l, p + 2) = Len(l)
    BY <1>1, Reaching
  <1> QED
    BY <1>2, <1>3, <1>4, SubSeqFull DEF Prefix

LEMMA FirstPrefix ==
    ASSUME NEW X, NEW l \in Seq(X)
    PROVE  Prefix(l, 1) = <<>>
  <1>1. 1 \in Nat \ {0}
    OBVIOUS
  <1> QED
    BY <1>1, EndsOfListing

LEMMA HonestIsPageOf ==
    ASSUME listing \in Seq(AllRows), page \in Nat \ {0}
    PROVE  Honest = [current |-> page,
                     next |-> IF HasMore(listing, page) THEN page + 1 ELSE 0,
                     total |-> Len(listing), data |-> PageOf(listing, page)]
  <1> DEFINE l == listing
             a == (page - 1) * PageSize
             n == IF HasMore(l, page) THEN page * PageSize ELSE Len(l)
  <1>1. Len(l) \in Nat /\ PageSize \in Nat \ {0}
    BY SnapshotConstants, LenProperties
  <1>2. a \in Nat
    <2>1. page - 1 \in Nat
      OBVIOUS
    <2> QED
      BY <1>1, <2>1
  <1>3. ((page + 1) - 1) * PageSize = a + PageSize /\ page * PageSize = a + PageSize
    BY <1>1
  <1>4. Reached(l, page) = Smaller(a, Len(l)) /\ Reached(l, page + 1) = n
    BY <1>1, <1>2, <1>3 DEF Reached, Smaller, HasMore
  <1>5. SubSeq(l, a + 1, n) = PageOf(l, page)
    <2>1. CASE a < Len(l)
      BY <1>4, <2>1 DEF PageOf, Smaller
    <2>2. CASE ~(a < Len(l))
      <3>1. n = Len(l) /\ Reached(l, page) = Len(l)
        BY <1>1, <1>2, <1>3, <1>4, <2>2 DEF HasMore, Smaller
      <3>2. SubSeq(l, a + 1, Len(l)) = <<>>
        BY <1>1, <1>2, <2>2, SubSeqEmpty
      <3>3. SubSeq(l, Len(l) + 1, Len(l)) = <<>>
        BY <1>1, SubSeqEmpty
      <3> QED
        BY <1>4, <3>1, <3>2, <3>3 DEF PageOf
    <2> QED
      BY <2>1, <2>2
  <1> QED
    BY <1>5 DEF Honest, HasMore

----------------------------------------------------------------------------
(* The download of the snapshot *)

\* What was read is what the service has, up to the page.
Intact ==
    /\ records = Prefix(listing, page)
    /\ expected = Len(listing) \/ (expected = Unknown /\ page = 1)

\* A count will tell, whatever the remaining pages bring.
Doomed ==
    /\ expected # Unknown
    /\ \/ disturbance = "added" /\ expected < Len(listing)
       \/ disturbance = "deleted" /\ Len(listing) < expected
       \/ /\ disturbance = "wrong"
          /\ \/ expected # Len(listing)
             \/ Len(records) + Rest(listing, page) # Len(listing)

Exact == \A d \in DOMAIN partitions : partitions[d] \in versions[d]

PartitionsExact ==
    /\ versions \in Seq(SUBSET Seq(AllRows))
    /\ Len(versions) = Smaller(decade, Len(RowsOf))
    /\ Exact
    /\ Downloading => listing \in versions[decade] /\ (Intact \/ Doomed)

SnapshotInv == SnapshotTypeOK /\ PartitionsExact

FileOK ==
    /\ snapshot = NoFile \/ (snapshot \in Seq(AllRows) /\ ToSet(snapshot) \subseteq Flattens)
    /\ fresh \in BOOLEAN /\ (fresh => snapshot # NoFile)

LEMMA DecadesAreNumbers == Decades = 1..Len(RowsOf) /\ Len(RowsOf) \in Nat \ {0} /\ 1 \in Decades
  <1>1. RowsOf \in Seq(Seq(AllRows)) /\ RowsOf # <<>>
    BY SnapshotConstants
  <1>2. Len(RowsOf) \in Nat \ {0} /\ DOMAIN RowsOf = 1..Len(RowsOf)
    BY <1>1, LenProperties, EmptySeq
  <1> QED
    BY <1>2 DEF Decades

LEMMA ListingsAreRows ==
    ASSUME NEW d \in Decades, NEW l \in Listings(d)
    PROVE  l \in Seq(AllRows)
  <1>1. RowsOf[d] \in Seq(AllRows)
    <2>1. d \in 1..Len(RowsOf) /\ RowsOf \in Seq(Seq(AllRows))
      BY DecadesAreNumbers, SnapshotConstants
    <2> QED
      BY <2>1, ElementOfSeq
  <1>2. \A i \in DOMAIN RowsOf[d] : RowsOf[d][i] \in AllRows
    BY <1>1, LenProperties, ElementOfSeq
  <1>3. PICK n \in 0..Len(RowsOf[d]) : \E at \in Positions(d, n) :
           l = [i \in 1..n |-> RowsOf[d][at[i]]]
    BY DEF Listings
  <1>4. PICK at \in Positions(d, n) : l = [i \in 1..n |-> RowsOf[d][at[i]]]
    BY <1>3
  <1>5. n \in Nat
    BY <1>1, LenProperties
  <1>6. \A i \in 1..n : at[i] \in DOMAIN RowsOf[d]
    BY <1>4 DEF Positions
  <1>7. l \in [1..n -> AllRows]
    BY <1>2, <1>4, <1>6
  <1> QED
    BY <1>5, <1>7, SeqDef

\* Nothing is being downloaded, whatever became of the file.
LEMMA ForgetPreserves ==
    ASSUME Forget, FileOK'
    PROVE  SnapshotInv'
  <1>1. SnapshotTypeOK'
    <2>1. 0 \in 0..Len(RowsOf) + 1 /\ 0 \notin Decades
      BY DecadesAreNumbers
    <2>2. 0 \in 0..MaxRetries - 1
      BY SnapshotConstants
    <2>3. <<>> \in Seq(AllRows) /\ <<>> \in Seq(Seq(AllRows)) /\ Len(<<>>) = 0
      BY EmptySeq
    <2>4. /\ decade' = 0 /\ attempt' = 0 /\ expected' = Unknown /\ disturbance' = "none"
          /\ records' = <<>> /\ partitions' = <<>>
      BY DEF Forget
    <2>5. records' \in Seq(AllRows) /\ partitions' \in Seq(Seq(AllRows)) /\ Len(partitions') = 0
      BY <2>3, <2>4
    <2>6. ~Downloading'
      BY <2>1, <2>4 DEF Downloading
    <2>7. expected' \in Nat \cup {Unknown} /\ disturbance' \in Disturbances
      BY <2>4 DEF Disturbances
    <2>8. /\ decade' \in 0..Len(RowsOf) + 1 /\ attempt' \in 0..MaxRetries - 1
          /\ Len(partitions') = IF decade' = 0 THEN 0 ELSE decade' - 1
      BY <2>1, <2>2, <2>4, <2>5
    <2> QED
      BY <2>5, <2>6, <2>7, <2>8 DEF SnapshotTypeOK, FileOK
  <1>2. PartitionsExact'
    <2>1. Smaller(0, Len(RowsOf)) = 0 /\ 0 \notin Decades
      BY DecadesAreNumbers DEF Smaller
    <2>2. <<>> \in Seq(SUBSET Seq(AllRows)) /\ Len(<<>>) = 0 /\ DOMAIN <<>> = {}
      BY EmptySeq
    <2> QED
      BY <2>1, <2>2 DEF Forget, PartitionsExact, Exact, Downloading
  <1> QED
    BY <1>1, <1>2 DEF SnapshotInv

LEMMA FailPreserves ==
    ASSUME SnapshotInv, DownloadFails
    PROVE  SnapshotInv'
  BY ForgetPreserves DEF SnapshotInv, SnapshotTypeOK, FileOK, DownloadFails, file

LEMMA BeginPreserves ==
    ASSUME FileOK', NEW d \in Decades, BeginPartition(d),
           partitions' \in Seq(Seq(AllRows)), Len(partitions') = d - 1,
           versions \in Seq(SUBSET Seq(AllRows)), Len(versions) = d - 1,
           \A n \in DOMAIN partitions' : partitions'[n] \in versions[n]
    PROVE  SnapshotInv'
  <1>1. d \in Nat /\ 1 <= d /\ d <= Len(RowsOf) /\ Len(RowsOf) \in Nat
    BY DecadesAreNumbers
  <1>2. listing' \in Listings(d) /\ listing' \in Seq(AllRows)
    BY ListingsAreRows DEF BeginPartition
  <1>3. SnapshotTypeOK'
    <2>1. decade' = d /\ d \in 0..Len(RowsOf) + 1 /\ d # 0
      BY <1>1 DEF BeginPartition
    <2>2. attempt' \in 0..MaxRetries - 1 /\ page' \in Nat \ {0}
      BY SnapshotConstants DEF BeginPartition
    <2>3. records' \in Seq(AllRows) /\ expected' \in Nat \cup {Unknown} /\ disturbance' \in Disturbances
      BY EmptySeq DEF BeginPartition, Disturbances
    <2>4. Len(partitions') = IF decade' = 0 THEN 0 ELSE decade' - 1
      BY <2>1
    <2>5. listing' \in Listings(decade')
      BY <1>2, <2>1
    <2> QED
      BY <2>1, <2>2, <2>3, <2>4, <2>5 DEF SnapshotTypeOK, FileOK, Downloading
  <1>4. /\ versions' \in Seq(SUBSET Seq(AllRows)) /\ Len(versions') = d
        /\ versions'[d] = {listing'} /\ \A n \in 1..d - 1 : versions'[n] = versions[n]
    <2>1. {listing'} \in SUBSET Seq(AllRows)
      BY <1>2
    <2>2. versions' = Append(versions, {listing'})
      BY DEF BeginPartition
    <2>3. Len(versions) + 1 = d
      BY <1>1
    <2> QED
      BY <1>1, <2>1, <2>2, <2>3, AppendProperties
  <1>5. Exact'
    <2>1. DOMAIN partitions' = 1..d - 1
      BY LenProperties
    <2> QED
      BY <1>4, <2>1 DEF Exact
  <1>6. Intact'
    <2>1. Prefix(listing', 1) = <<>>
      BY <1>2, FirstPrefix
    <2> QED
      BY <2>1 DEF Intact, BeginPartition
  <1>7. decade' = d /\ Smaller(d, Len(RowsOf)) = d
    BY <1>1 DEF BeginPartition, Smaller
  <1>8. PartitionsExact'
    BY <1>4, <1>5, <1>6, <1>7 DEF PartitionsExact
  <1> QED
    BY <1>3, <1>8 DEF SnapshotInv

LEMMA StartPreserves ==
    ASSUME SnapshotInv, StartDownload
    PROVE  SnapshotInv'
  <1>1. 1 \in Decades
    BY DecadesAreNumbers
  <1>2. decade = 0 /\ partitions' = partitions /\ BeginPartition(1)
    BY DEF StartDownload
  <1>3. FileOK'
    BY DEF SnapshotInv, SnapshotTypeOK, FileOK, StartDownload, file
  <1>4. partitions \in Seq(Seq(AllRows)) /\ Len(partitions) = 0 /\ DOMAIN partitions = {}
    <2>1. partitions \in Seq(Seq(AllRows)) /\ Len(partitions) = 0
      BY <1>2 DEF SnapshotInv, SnapshotTypeOK
    <2> QED
      BY <2>1, LenProperties
  <1>5. versions \in Seq(SUBSET Seq(AllRows)) /\ Len(versions) = 0
    BY <1>2, DecadesAreNumbers DEF SnapshotInv, PartitionsExact, Smaller
  <1>6. 1 - 1 = 0
    OBVIOUS
  <1> QED
    BY <1>1, <1>2, <1>3, <1>4, <1>5, <1>6, BeginPreserves

\* One wrong field at most, and none after another disturbance.
LEMMA ResponseKinds ==
    ASSUME listing \in Seq(AllRows), page \in Nat \ {0}, NEW response \in Responses
    PROVE  /\ response.data \in Seq(AllRows)
           /\ \/ response = Honest
              \/ disturbance = "none" /\ response.current # page
              \/ /\ disturbance = "none"
                 /\ response.next # Honest.next /\ response.next \in {0, page, page + 1, page + 2}
                 /\ response.total = Len(listing) /\ response.data = PageOf(listing, page)
              \/ /\ disturbance = "none"
                 /\ response.total \in {Len(listing) - 1, Len(listing) + 1}
                 /\ response.next = Honest.next /\ response.data = PageOf(listing, page)
              \/ /\ disturbance = "none"
                 /\ Len(response.data) # Len(PageOf(listing, page))
                 /\ response.next = Honest.next /\ response.total = Len(listing)
  <1> DEFINE data == PageOf(listing, page)
             next == IF HasMore(listing, page) THEN page + 1 ELSE 0
             total == Len(listing)
  <1>1. data \in Seq(AllRows)
    BY PagesOfListing
  <1>2. Honest = [current |-> page, next |-> next, total |-> total, data |-> data]
    BY HonestIsPageOf
  <1> HIDE DEF data, next, total
  <1>3. CASE response = Honest
    BY <1>1, <1>2, <1>3
  <1>4. CASE response # Honest
    <2>1. disturbance = "none" /\ response \in Wrong
      BY <1>4 DEF Responses
    <2>2. ASSUME NEW n \in {0, page + 1}, response = [Honest EXCEPT !.current = n]
          PROVE  response.current # page /\ response.data = data
      BY <1>2, <2>2
    <2>3. ASSUME NEW n \in {0, page, page + 1, page + 2}, response = [Honest EXCEPT !.next = n]
          PROVE  /\ response.next # Honest.next /\ response.next = n
                 /\ response.total = total /\ response.data = data
      BY <1>2, <1>4, <2>3
    <2>4. ASSUME NEW n \in {Honest.total - 1, Honest.total + 1},
                 response = [Honest EXCEPT !.total = n]
          PROVE  /\ response.total = n /\ n \in {total - 1, total + 1}
                 /\ response.next = Honest.next /\ response.data = data
      BY <1>2, <2>4
    <2>5. ASSUME NEW rows \in {<<>>, Honest.data \o Honest.data},
                 response = [Honest EXCEPT !.data = rows]
          PROVE  /\ response.data \in Seq(AllRows) /\ Len(response.data) # Len(data)
                 /\ response.next = Honest.next /\ response.total = total
      <3>1. /\ response.data = rows /\ response.next = Honest.next /\ response.total = total
            /\ Honest.data = data
        BY <1>2, <2>5
      <3>2. rows # data
        BY <1>2, <1>4, <2>5
      <3>3. <<>> \in Seq(AllRows) /\ Len(<<>>) = 0
        BY EmptySeq
      <3>4. data \o data \in Seq(AllRows) /\ Len(data \o data) = Len(data) + Len(data)
        BY <1>1, ConcatProperties
      <3>5. data # <<>>
        <4>1. <<>> \o <<>> = <<>>
          BY <3>3, ConcatEmptySeq
        <4> QED
          BY <2>5, <3>1, <3>2, <4>1
      <3>6. Len(data) \in Nat \ {0}
        BY <1>1, <3>5, EmptySeq
      <3>7. rows = <<>> \/ rows = data \o data
        BY <2>5, <3>1
      <3>8. CASE rows = <<>>
        BY <3>1, <3>3, <3>6, <3>8
      <3>9. CASE rows = data \o data
        BY <3>1, <3>4, <3>6, <3>9
      <3> QED
        BY <3>1, <3>7, <3>8, <3>9
    <2>6. \/ \E n \in {0, page + 1} : response = [Honest EXCEPT !.current = n]
          \/ \E n \in {0, page, page + 1, page + 2} : response = [Honest EXCEPT !.next = n]
          \/ \E n \in {Honest.total - 1, Honest.total + 1} : response = [Honest EXCEPT !.total = n]
          \/ \E rows \in {<<>>, Honest.data \o Honest.data} :
                response = [Honest EXCEPT !.data = rows]
      BY <2>1 DEF Wrong
    <2> QED
      BY <1>1, <2>1, <2>2, <2>3, <2>4, <2>5, <2>6 DEF data, total
  <1> QED
    BY <1>3, <1>4

LEMMA Typed ==
    ASSUME SnapshotInv, Downloading
    PROVE  /\ decade \in Decades /\ decade \in Nat \ {0}
           /\ listing \in Listings(decade) /\ listing \in Seq(AllRows) /\ Len(listing) \in Nat
           /\ page \in Nat \ {0} /\ expected \in Nat \cup {Unknown}
           /\ records \in Seq(AllRows) /\ Len(records) \in Nat
           /\ partitions \in Seq(Seq(AllRows)) /\ Len(partitions) = decade - 1
           /\ versions \in Seq(SUBSET Seq(AllRows)) /\ Len(versions) = decade
           /\ listing \in versions[decade] /\ (Intact \/ Doomed) /\ Exact
  <1>1. decade \in Decades /\ decade \in Nat \ {0} /\ decade <= Len(RowsOf) /\ Len(RowsOf) \in Nat
    BY DecadesAreNumbers DEF Downloading
  <1>2. /\ listing \in Listings(decade) /\ page \in Nat \ {0} /\ expected \in Nat \cup {Unknown}
        /\ records \in Seq(AllRows) /\ partitions \in Seq(Seq(AllRows))
        /\ Len(partitions) = decade - 1
    BY <1>1 DEF SnapshotInv, SnapshotTypeOK
  <1>3. listing \in Seq(AllRows)
    BY <1>1, <1>2, ListingsAreRows
  <1>4. Len(versions) = decade
    BY <1>1 DEF SnapshotInv, PartitionsExact, Smaller
  <1>5. Len(listing) \in Nat /\ Len(records) \in Nat
    BY <1>2, <1>3, LenProperties
  <1> QED
    BY <1>1, <1>2, <1>3, <1>4, <1>5 DEF SnapshotInv, PartitionsExact

LEMMA ExpectedTotal ==
    ASSUME SnapshotInv, Downloading, NEW total, total = Expected(total)
    PROVE  /\ expected # Unknown => total = expected
           /\ Intact => total = Len(listing) \/ expected = Unknown
  BY DEF Expected, Intact

\* After an honest page, what was intact is intact and what was doomed doomed.
LEMMA HonestPage ==
    ASSUME SnapshotInv, Downloading, NextPage(Honest), disturbance' = disturbance
    PROVE  (Intact \/ Doomed)'
  <1> DEFINE here == Reached(listing, page)
             there == Reached(listing, page + 1)
  <1>1. /\ Honest.data = PageOf(listing, page) /\ Honest.total = Len(listing)
        /\ Honest.next = page + 1
    BY Typed, HonestIsPageOf DEF NextPage
  <1>2. /\ records' = records \o PageOf(listing, page) /\ page' = page + 1
        /\ expected' = Len(listing) /\ listing' = listing
        /\ Len(listing) = Expected(Len(listing))
    BY <1>1 DEF NextPage, Acceptable
  <1>3. Unknown # Len(listing)
    BY Typed, SnapshotConstants
  <1>4. CASE Intact
    <2>1. records' = Prefix(listing, page + 1)
      BY <1>2, <1>4, Typed, PagesOfListing DEF Intact
    <2> QED
      BY <1>2, <2>1 DEF Intact
  <1>5. CASE Doomed
    <2>1. expected = Len(listing)
      BY <1>2, <1>5, Typed, ExpectedTotal DEF Doomed
    <2>2. Len(records) + Rest(listing, page) # Len(listing)
      BY <1>5, <2>1 DEF Doomed
    <2>3. Len(records') = Len(records) + (there - here)
      <3>1. /\ PageOf(listing, page) \in Seq(AllRows)
            /\ Len(PageOf(listing, page)) = there - here
        BY Typed, PagesOfListing
      <3>2. records \in Seq(AllRows)
        BY Typed
      <3> QED
        BY <1>2, <3>1, <3>2, ConcatProperties
    <2>4. here \in Nat /\ there \in Nat /\ Len(listing) \in Nat /\ Len(records) \in Nat
      <3>1. Len(listing) \in Nat /\ page \in Nat \ {0} /\ Len(records) \in Nat
        BY Typed
      <3>2. here \in 0..Len(listing) /\ there \in 0..Len(listing)
        BY <3>1, Reaching
      <3> QED
        BY <3>1, <3>2
    <2>5. /\ Rest(listing, page) = Len(listing) - here
          /\ Rest(listing, page + 1) = Len(listing) - there
      BY DEF Rest
    <2> HIDE DEF here, there
    <2>6. Len(records') + Rest(listing, page + 1) # Len(listing)
      BY <2>2, <2>3, <2>4, <2>5
    <2>7. disturbance = "wrong"
      BY <1>5, <2>1, <2>4 DEF Doomed
    <2> QED
      BY <1>2, <1>3, <2>6, <2>7 DEF Doomed
  <1> QED
    BY <1>4, <1>5, Typed

LEMMA PageCounts ==
    ASSUME SnapshotInv, Downloading
    PROVE  /\ Len(listing) \in Nat /\ Reached(listing, page) \in Nat
           /\ Reached(listing, page + 1) \in Nat
           /\ Len(PageOf(listing, page)) = Reached(listing, page + 1) - Reached(listing, page)
           /\ PageOf(listing, page) \in Seq(AllRows)
           /\ Reached(listing, page + 1) <= Len(listing)
           /\ ~HasMore(listing, page) => Reached(listing, page + 1) = Len(listing)
           /\ Intact => Len(records) = Reached(listing, page)
  <1>1. listing \in Seq(AllRows) /\ page \in Nat \ {0} /\ Len(listing) \in Nat
    BY Typed
  <1>2. /\ Reached(listing, page) \in 0..Len(listing)
        /\ Reached(listing, page + 1) \in 0..Len(listing)
        /\ ~HasMore(listing, page) => Reached(listing, page + 1) = Len(listing)
    BY <1>1, Reaching
  <1>3. /\ Len(Prefix(listing, page)) = Reached(listing, page)
        /\ Len(PageOf(listing, page)) = Reached(listing, page + 1) - Reached(listing, page)
        /\ PageOf(listing, page) \in Seq(AllRows)
    BY <1>1, PagesOfListing
  <1> QED
    BY <1>1, <1>2, <1>3 DEF Intact

\* A wrong page that is taken dooms the download, or was the last one anyway.
LEMMA WrongPage ==
    ASSUME SnapshotInv, Downloading, NEW response \in Responses,
           response # Honest, NextPage(response), disturbance' = "wrong"
    PROVE  (Intact \/ Doomed)'
  <1> DEFINE here == Reached(listing, page)
             there == Reached(listing, page + 1)
             len == Len(listing)
             taken == Len(response.data)
  <1>1. disturbance = "none" /\ Intact
    BY Typed, ResponseKinds DEF Doomed, Responses
  <1>2. /\ response.current = page /\ response.next > page /\ response.next # 0
        /\ response.total = Expected(response.total)
        /\ page' = response.next /\ listing' = listing /\ records' = records \o response.data
        /\ expected' = response.total
    BY DEF NextPage, Acceptable
  <1>3. /\ response.data \in Seq(AllRows) /\ taken \in Nat
        /\ Len(records') = here + taken
    <2>1. response.data \in Seq(AllRows) /\ records \in Seq(AllRows)
      BY Typed, ResponseKinds
    <2>2. Len(records \o response.data) = Len(records) + taken /\ taken \in Nat
      BY <2>1, ConcatProperties, LenProperties
    <2> QED
      BY <1>1, <1>2, <2>1, <2>2, PageCounts
  <1>4. /\ page \in Nat \ {0} /\ len \in Nat /\ here \in Nat /\ there \in Nat /\ there <= len
        /\ Len(PageOf(listing, page)) = there - here
        /\ ~HasMore(listing, page) => there = len
    BY Typed, PageCounts
  <1>5. Honest.next = IF HasMore(listing, page) THEN page + 1 ELSE 0
    BY Typed, HonestIsPageOf
  <1>6. CASE /\ response.next # Honest.next
             /\ response.next \in {0, page, page + 1, page + 2}
             /\ response.total = len /\ response.data = PageOf(listing, page)
    <2>1. response.next \in {page + 1, page + 2} /\ len # Unknown
      BY <1>2, <1>4, <1>6, SnapshotConstants
    <2>2. CASE HasMore(listing, page)
      <3>1. response.next = page + 2
        BY <1>5, <1>6, <2>1, <2>2
      <3>2. there < Reached(listing, page + 2) /\ Reached(listing, page + 2) \in 0..len
        BY <1>4, <2>2, Reaching
      <3>3. Len(records') = there /\ Rest(listing', page') = len - Reached(listing, page + 2)
        <4>1. Len(records') = here + (there - here)
          BY <1>3, <1>4, <1>6
        <4>2. here + (there - here) = there
          BY <1>4
        <4> QED
          BY <1>2, <3>1, <4>1, <4>2 DEF Rest
      <3>4. Len(records') + Rest(listing', page') # len
        <4> HIDE DEF here, there, len
        <4> QED
          BY <1>4, <3>2, <3>3
      <3> QED
        BY <1>2, <1>6, <2>1, <3>4 DEF Doomed
    <2>3. CASE ~HasMore(listing, page)
      <3>1. records' = Prefix(listing, page + 1)
        <4>1. records = Prefix(listing, page)
          BY <1>1 DEF Intact
        <4>2. records' = Prefix(listing, page) \o PageOf(listing, page)
          BY <1>2, <1>6, <4>1
        <4> QED
          BY <4>2, Typed, PagesOfListing
      <3>2. Prefix(listing, page + 1) = listing /\ Prefix(listing, page + 2) = listing
        BY <2>3, Typed, EndsOfListing
      <3>3. records' = Prefix(listing', page')
        BY <1>2, <2>1, <3>1, <3>2
      <3> QED
        BY <1>2, <1>6, <3>3 DEF Intact
    <2> QED
      BY <2>2, <2>3
  <1>7. CASE response.total \in {len - 1, len + 1} /\ response.next = Honest.next
    <2>1. HasMore(listing, page)
      BY <1>2, <1>5, <1>7
    <2>2. len # 0 /\ len - 1 \in Nat /\ len + 1 \in Nat
      <3>1. here < there
        BY <1>4, <2>1, Reaching
      <3> HIDE DEF here, there, len
      <3> QED
        BY <1>4, <3>1
    <2>3. response.total # len /\ response.total # Unknown
      BY <1>4, <1>7, <2>2, SnapshotConstants
    <2> QED
      BY <1>2, <2>3 DEF Doomed
  <1>8. CASE /\ taken # Len(PageOf(listing, page))
             /\ response.next = Honest.next /\ response.total = len
    <2>1. response.next = page + 1 /\ len # Unknown
      BY <1>2, <1>4, <1>5, <1>8, SnapshotConstants
    <2>2. Rest(listing', page') = len - there
      BY <1>2, <2>1 DEF Rest
    <2>3. Len(records') + Rest(listing', page') # len
      <3>1. taken # there - here
        BY <1>4, <1>8
      <3> HIDE DEF here, there, len, taken
      <3> QED
        BY <1>3, <1>4, <2>2, <3>1
    <2> QED
      BY <1>2, <1>8, <2>1, <2>3 DEF Doomed
  <1> QED
    BY <1>2, <1>6, <1>7, <1>8, Typed, ResponseKinds

LEMMA NextPagePreserves ==
    ASSUME SnapshotInv, Downloading, NEW response \in Responses,
           NextPage(response),
           disturbance' = IF response = Honest THEN disturbance ELSE "wrong"
    PROVE  SnapshotInv'
  <1>1. (Intact \/ Doomed)'
    <2>1. CASE response = Honest
      <3>1. disturbance' = disturbance
        BY <2>1
      <3> QED
        BY <2>1, <3>1, HonestPage
    <2>2. CASE response # Honest
      BY <2>2, WrongPage
    <2> QED
      BY <2>1, <2>2
  <1>2. /\ response.current = page /\ response.next > page /\ response.next # 0
        /\ expected' = response.total /\ response.total = Expected(response.total)
        /\ page' = response.next /\ attempt' = 0 /\ records' = records \o response.data
        /\ UNCHANGED <<file, decade, listing, partitions, versions>>
    BY DEF NextPage, Acceptable
  <1>3. response.data \in Seq(AllRows)
    BY Typed, ResponseKinds
  <1>4. records' \in Seq(AllRows)
    BY <1>2, <1>3, Typed, ConcatProperties
  <1>5. page' \in Nat \ {0}
    <2>1. page \in Nat \ {0}
      BY Typed
    <2>2. Honest.next \in Nat
      BY <2>1, Typed, HonestIsPageOf
    <2>3. response.next \in Nat
      <3>1. \/ response.next = Honest.next
            \/ response.next \in {0, page, page + 1, page + 2}
        BY <1>2, <2>1, Typed, ResponseKinds
      <3> QED
        BY <2>1, <2>2, <3>1
    <2> QED
      BY <1>2, <2>3
  <1>6. expected' \in Nat \cup {Unknown}
    <2>1. Len(listing) \in Nat /\ page \in Nat \ {0} /\ listing \in Seq(AllRows)
      BY Typed
    <2>2. /\ Honest.next = IF HasMore(listing, page) THEN page + 1 ELSE 0
          /\ Honest.total = Len(listing)
      BY <2>1, HonestIsPageOf
    <2>3. CASE response.total = Len(listing)
      BY <1>2, <2>1, <2>3
    <2>4. CASE /\ response.total \in {Len(listing) - 1, Len(listing) + 1}
               /\ response.next = Honest.next
      <3>1. HasMore(listing, page)
        BY <1>2, <2>2, <2>4
      <3>2. /\ Reached(listing, page) < Reached(listing, page + 1)
            /\ Reached(listing, page) \in Nat
            /\ Reached(listing, page + 1) \in Nat /\ Reached(listing, page + 1) <= Len(listing)
        BY <2>1, <3>1, Reaching, PageCounts
      <3>3. Len(listing) - 1 \in Nat /\ Len(listing) + 1 \in Nat
        BY <2>1, <3>2
      <3> QED
        BY <1>2, <2>4, <3>3
    <2>5. response = Honest => response.total = Len(listing)
      BY <2>2
    <2> QED
      BY <1>2, <2>1, <2>3, <2>4, <2>5, ResponseKinds
  <1>7. SnapshotTypeOK'
    <2>1. /\ decade' = decade /\ decade \in Decades
          /\ listing' = listing /\ listing \in Listings(decade)
      BY <1>2, Typed
    <2>2. attempt' \in 0..MaxRetries - 1
      BY <1>2, SnapshotConstants
    <2>3. disturbance' \in Disturbances
      BY DEF SnapshotInv, SnapshotTypeOK, Disturbances
    <2> QED
      BY <1>2, <1>4, <1>5, <1>6, <2>1, <2>2, <2>3
      DEF SnapshotInv, SnapshotTypeOK, file, Downloading
  <1>8. PartitionsExact'
    BY <1>1, <1>2, Typed DEF SnapshotInv, PartitionsExact, Exact, Downloading
  <1> QED
    BY <1>7, <1>8 DEF SnapshotInv

\* The page that completes a decade completes what the service had.
LEMMA LastPageIsExact ==
    ASSUME SnapshotInv, Downloading, NEW response \in Responses, LastPage(response)
    PROVE  records \o response.data = listing
  <1> DEFINE here == Reached(listing, page)
             there == Reached(listing, page + 1)
             len == Len(listing)
             taken == Len(response.data)
  <1>1. /\ response.current = page /\ response.next = 0
        /\ response.total = Expected(response.total)
        /\ Len(records \o response.data) = response.total
    BY DEF LastPage, Acceptable
  <1>2. /\ response.data \in Seq(AllRows) /\ taken \in Nat /\ Len(records) \in Nat
        /\ Len(records \o response.data) = Len(records) + taken
    <2>1. response.data \in Seq(AllRows) /\ records \in Seq(AllRows)
      BY Typed, ResponseKinds
    <2> QED
      BY <2>1, ConcatProperties, LenProperties
  <1>3. /\ page \in Nat \ {0} /\ len \in Nat /\ here \in Nat /\ there \in Nat /\ there <= len
        /\ Len(PageOf(listing, page)) = there - here
        /\ ~HasMore(listing, page) => there = len
        /\ Intact => Len(records) = here
    BY Typed, PageCounts
  <1>4. /\ Honest.next = (IF HasMore(listing, page) THEN page + 1 ELSE 0)
        /\ Honest.total = len /\ Honest.data = PageOf(listing, page)
    BY Typed, HonestIsPageOf
  <1>5. Intact => expected = len \/ expected = Unknown
    BY DEF Intact
  <1>6. CASE response = Honest
    <2>1. ~HasMore(listing, page) /\ response.data = PageOf(listing, page)
          /\ response.total = len
      BY <1>1, <1>3, <1>4, <1>6
    <2>2. ASSUME Doomed PROVE FALSE
      <3>1. expected = len
        BY <1>1, <2>1, <2>2, ExpectedTotal DEF Doomed
      <3>2. Len(records) + Rest(listing, page) # len
        BY <2>2, <3>1 DEF Doomed
      <3>3. Rest(listing, page) = len - here
        BY DEF Rest
      <3>4. taken = there - here
        BY <1>3, <2>1
      <3>5. Len(records) + taken = len /\ there = len
        BY <1>1, <1>2, <1>3, <2>1
      <3> HIDE DEF here, there, len, taken
      <3> QED
        BY <1>2, <1>3, <3>2, <3>3, <3>4, <3>5
    <2>3. records = Prefix(listing, page)
      BY <2>2, Typed DEF Intact
    <2>4. Prefix(listing, page) \o PageOf(listing, page) = listing
      <3>1. Prefix(listing, page) \o PageOf(listing, page) = Prefix(listing, page + 1)
        BY Typed, PagesOfListing
      <3>2. Prefix(listing, page + 1) = listing
        BY <2>1, Typed, EndsOfListing
      <3> QED
        BY <3>1, <3>2
    <2> QED
      BY <2>1, <2>3, <2>4
  <1>7. CASE response # Honest
    <2>1. disturbance = "none" /\ Intact
      BY <1>7, Typed, ResponseKinds DEF Doomed, Responses
    <2>2. here + taken = response.total
      BY <1>1, <1>2, <1>3, <2>1
    <2>3. ASSUME response.next # Honest.next, response.total = len,
                 response.data = PageOf(listing, page)
          PROVE  FALSE
      <3>1. HasMore(listing, page)
        BY <1>1, <1>4, <2>3
      <3>2. Reached(listing, page + 1) < Reached(listing, page + 2)
            /\ Reached(listing, page + 2) \in 0..len
        BY <1>3, <3>1, Reaching
      <3>3. taken = there - here
        BY <1>3, <2>3
      <3>4. there < len
        BY <1>3, <3>2
      <3> HIDE DEF here, there, len, taken
      <3> QED
        BY <1>3, <2>2, <2>3, <3>3, <3>4
    <2>4. ASSUME response.total \in {len - 1, len + 1}, response.next = Honest.next,
                 response.data = PageOf(listing, page)
          PROVE  FALSE
      <3>1. ~HasMore(listing, page)
        BY <1>1, <1>3, <1>4, <2>4
      <3>2. taken = there - here /\ there = len
        BY <1>3, <2>4, <3>1
      <3> HIDE DEF here, there, len, taken
      <3> QED
        BY <1>3, <2>2, <2>4, <3>2
    <2>5. ASSUME taken # Len(PageOf(listing, page)), response.next = Honest.next,
                 response.total = len
          PROVE  FALSE
      <3>1. ~HasMore(listing, page)
        BY <1>1, <1>3, <1>4, <2>5
      <3>2. taken # there - here /\ there = len
        BY <1>3, <2>5, <3>1
      <3> HIDE DEF here, there, len, taken
      <3> QED
        BY <1>2, <1>3, <2>2, <2>5, <3>2
    <2> QED
      BY <1>1, <1>7, <2>3, <2>4, <2>5, Typed, ResponseKinds
  <1> QED
    BY <1>6, <1>7

LEMMA LastPagePreserves ==
    ASSUME SnapshotInv, Downloading, NEW response \in Responses, LastPage(response)
    PROVE  SnapshotInv'
  <1>1. /\ decade \in Decades /\ decade \in Nat \ {0}
        /\ partitions \in Seq(Seq(AllRows)) /\ Len(partitions) = decade - 1
        /\ versions \in Seq(SUBSET Seq(AllRows)) /\ Len(versions) = decade
        /\ listing \in versions[decade] /\ listing \in Seq(AllRows) /\ Exact
    BY Typed
  <1>2. partitions' = Append(partitions, listing)
    BY LastPageIsExact DEF LastPage
  <1>3. /\ partitions' \in Seq(Seq(AllRows)) /\ Len(partitions') = decade
        /\ partitions'[decade] = listing
        /\ \A n \in 1..decade - 1 : partitions'[n] = partitions[n]
    <2>1. (decade - 1) + 1 = decade
      BY <1>1
    <2> QED
      BY <1>1, <1>2, <2>1, AppendProperties
  <1>4. \A n \in DOMAIN partitions' : partitions'[n] \in versions[n]
    <2>1. DOMAIN partitions' = 1..decade /\ DOMAIN partitions = 1..decade - 1
      BY <1>1, <1>3, LenProperties
    <2>2. \A n \in 1..decade : n = decade \/ n \in 1..decade - 1
      BY <1>1
    <2> QED
      BY <1>1, <1>3, <2>1, <2>2 DEF Exact
  <1>5. FileOK'
    BY DEF SnapshotInv, SnapshotTypeOK, FileOK, LastPage, file
  <1>6. CASE decade + 1 \in Decades
    <2>1. BeginPartition(decade + 1)
      BY <1>6 DEF LastPage
    <2>2. Len(partitions') = (decade + 1) - 1 /\ Len(versions) = (decade + 1) - 1
      BY <1>1, <1>3
    <2> QED
      BY <1>1, <1>3, <1>4, <1>5, <1>6, <2>1, <2>2, BeginPreserves
  <1>7. CASE decade + 1 \notin Decades
    <2>1. decade = Len(RowsOf)
      BY <1>1, <1>7, DecadesAreNumbers
    <2>2. /\ decade' = decade + 1 /\ attempt' = 0 /\ expected' = Unknown
          /\ records' = <<>> /\ disturbance' = "none" /\ versions' = versions
      BY <1>7 DEF LastPage
    <2>3. ~Downloading'
      BY <1>7, <2>2 DEF Downloading
    <2>4. SnapshotTypeOK'
      <3>1. records' \in Seq(AllRows) /\ disturbance' \in Disturbances /\ expected' \in Nat \cup {Unknown}
        BY <2>2, EmptySeq DEF Disturbances
      <3>2. attempt' \in 0..MaxRetries - 1
        BY <2>2, SnapshotConstants
      <3>3. /\ decade' \in 0..Len(RowsOf) + 1
            /\ Len(partitions') = IF decade' = 0 THEN 0 ELSE decade' - 1
        BY <1>1, <1>3, <2>1, <2>2
      <3> QED
        BY <1>3, <1>5, <2>3, <3>1, <3>2, <3>3 DEF SnapshotTypeOK, FileOK
    <2>5. PartitionsExact'
      <3>1. Len(versions') = Smaller(decade', Len(RowsOf))
        BY <1>1, <2>1, <2>2 DEF Smaller
      <3> QED
        BY <1>1, <1>4, <2>2, <2>3, <3>1 DEF PartitionsExact, Exact
    <2> QED
      BY <2>4, <2>5 DEF SnapshotInv
  <1> QED
    BY <1>6, <1>7

LEMMA RequestFailsPreserves ==
    ASSUME SnapshotInv, RequestFails
    PROVE  SnapshotInv'
  <1>1. CASE attempt < MaxRetries - 1
    <2>1. /\ attempt' = attempt + 1
          /\ UNCHANGED <<file, decade, listing, page, expected, records, partitions,
                         versions, disturbance>>
      BY <1>1 DEF RequestFails
    <2>2. attempt' \in 0..MaxRetries - 1
      BY <1>1, <2>1, SnapshotConstants DEF SnapshotInv, SnapshotTypeOK
    <2>3. SnapshotTypeOK'
      BY <2>1, <2>2 DEF SnapshotInv, SnapshotTypeOK, file, Downloading
    <2>4. PartitionsExact'
      BY <2>1 DEF SnapshotInv, PartitionsExact, Exact, Downloading, Intact, Doomed
    <2> QED
      BY <2>3, <2>4 DEF SnapshotInv
  <1>2. CASE ~(attempt < MaxRetries - 1)
    BY <1>2, FailPreserves DEF RequestFails
  <1> QED
    BY <1>1, <1>2

LEMMA ReplacePreserves ==
    ASSUME SnapshotInv, ReplaceSnapshot
    PROVE  SnapshotInv'
  <1>1. FlattenSeq(partitions) \in Seq(AllRows)
    BY FlattenedIsSeq DEF SnapshotInv, SnapshotTypeOK
  <1>2. snapshot' # NoFile
    BY <1>1, SnapshotConstants DEF ReplaceSnapshot
  <1>3. FileOK'
    BY <1>1, <1>2 DEF ReplaceSnapshot, FileOK
  <1> QED
    BY <1>3, ForgetPreserves DEF ReplaceSnapshot

LEMMA ChangePreserves ==
    ASSUME SnapshotInv, CcadbChanges
    PROVE  SnapshotInv'
  <1>1. /\ Downloading /\ listing' \in Listings(decade)
        /\ \/ /\ disturbance \in {"none", "added"} /\ disturbance' = "added"
              /\ Len(listing) < Len(listing')
           \/ /\ disturbance \in {"none", "deleted"} /\ disturbance' = "deleted"
              /\ Len(listing') < Len(listing)
        /\ versions' = [versions EXCEPT ![decade] = @ \cup {listing'}]
        /\ UNCHANGED <<file, decade, page, attempt, expected, records, partitions>>
    BY DEF CcadbChanges, Changed
  <1>2. /\ decade \in Decades /\ decade \in Nat \ {0}
        /\ versions \in Seq(SUBSET Seq(AllRows)) /\ Len(versions) = decade
        /\ Len(listing) \in Nat /\ page \in Nat \ {0} /\ listing \in Seq(AllRows) /\ Exact
        /\ partitions \in Seq(Seq(AllRows)) /\ Len(partitions) = decade - 1
    BY <1>1, Typed
  <1>3. listing' \in Seq(AllRows) /\ Len(listing') \in Nat
    BY <1>1, <1>2, ListingsAreRows, LenProperties
  <1>4. /\ versions' \in Seq(SUBSET Seq(AllRows)) /\ Len(versions') = decade
        /\ listing' \in versions'[decade]
        /\ \A d \in 1..decade : versions[d] \subseteq versions'[d]
    <2>1. versions[decade] \in SUBSET Seq(AllRows)
      BY <1>2, ElementOfSeq
    <2>2. versions[decade] \cup {listing'} \in SUBSET Seq(AllRows)
      BY <1>3, <2>1
    <2>3. decade \in 1..Len(versions)
      BY <1>2
    <2> QED
      BY <1>1, <1>2, <2>2, <2>3, ExceptSeq
  <1>5. ASSUME expected = Unknown PROVE Intact'
    <2>1. Intact /\ page = 1
      BY <1>1, <1>2, <1>5, Typed, SnapshotConstants DEF Intact, Doomed
    <2>2. Prefix(listing, 1) = <<>> /\ Prefix(listing', 1) = <<>>
      BY <1>2, <1>3, FirstPrefix
    <2>3. records' = <<>> /\ page' = 1 /\ expected' = Unknown
      BY <1>1, <1>5, <2>1, <2>2 DEF Intact
    <2> QED
      BY <2>2, <2>3 DEF Intact
  <1>6. ASSUME expected # Unknown PROVE Doomed'
    <2>1. expected \in Nat /\ expected' = expected
      BY <1>1, <1>6, Typed
    <2>2. \/ expected = Len(listing)
          \/ disturbance = "added" /\ expected < Len(listing)
          \/ disturbance = "deleted" /\ Len(listing) < expected
      BY <1>1, <1>6, Typed DEF Intact, Doomed
    <2>3. \/ disturbance' = "added" /\ expected < Len(listing')
          \/ disturbance' = "deleted" /\ Len(listing') < expected
      BY <1>1, <1>2, <1>3, <2>1, <2>2
    <2> QED
      BY <1>6, <2>1, <2>3 DEF Doomed
  <1>7. SnapshotTypeOK'
    BY <1>1 DEF SnapshotInv, SnapshotTypeOK, file, Downloading, Disturbances
  <1>8. Exact'
    <2>1. DOMAIN partitions = 1..decade - 1
      BY <1>2, LenProperties
    <2>2. \A d \in 1..decade - 1 : d \in 1..decade
      BY <1>2
    <2> QED
      BY <1>1, <1>2, <1>4, <2>1, <2>2 DEF Exact
  <1>9. PartitionsExact'
    BY <1>1, <1>2, <1>4, <1>5, <1>6, <1>8, Typed DEF SnapshotInv, PartitionsExact, Downloading
  <1> QED
    BY <1>7, <1>9 DEF SnapshotInv

LEMMA DownloadPreserves ==
    ASSUME SnapshotInv, DownloadStep
    PROVE  SnapshotInv'
  <1>1. CASE RequestFails
    BY <1>1, RequestFailsPreserves
  <1>2. ASSUME Downloading, NEW response \in Responses, Respond(response)
        PROVE  SnapshotInv'
    BY <1>2, NextPagePreserves, LastPagePreserves, FailPreserves DEF Respond
  <1>3. CASE ReplaceSnapshot
    BY <1>3, ReplacePreserves
  <1>4. CASE WriteFails
    BY <1>4, FailPreserves DEF WriteFails
  <1> QED
    BY <1>1, <1>2, <1>3, <1>4 DEF DownloadStep

LEMMA BetweenPreserves ==
    ASSUME SnapshotInv, Expire \/ LoseSnapshot
    PROVE  SnapshotInv'
  <1>1. decade = 0 /\ UNCHANGED progress /\ FileOK'
    BY DEF Expire, LoseSnapshot, SnapshotInv, SnapshotTypeOK, FileOK
  <1>2. SnapshotTypeOK'
    BY <1>1 DEF SnapshotInv, SnapshotTypeOK, FileOK, progress, Downloading
  <1>3. PartitionsExact'
    BY <1>1 DEF SnapshotInv, PartitionsExact, Exact, progress, Downloading, Intact, Doomed
  <1> QED
    BY <1>2, <1>3 DEF SnapshotInv

----------------------------------------------------------------------------
(* crl_sync_only *)

\* The stages of crl_sync_only in which the snapshot is in use.
StagesInv ==
    /\ stage \in {"idle", "snapshot", "scope", "crls"}
    /\ decade # 0 <=> stage = "snapshot"
    /\ stage = "snapshot" => ~fresh
    /\ stage \in {"scope", "crls"} => fresh
    /\ files # {} => stage = "crls"
    /\ files \subseteq DOMAIN CrlsOf

EvidenceInv == SnapshotInv /\ StagesInv

LEMMA DownloadLeaves ==
    ASSUME SnapshotInv, ~fresh, DownloadStep
    PROVE  fresh' => decade' = 0
  <1>1. RequestFails => fresh' = fresh
    BY DEF RequestFails, DownloadFails, file
  <1>2. ASSUME NEW response \in Responses, Respond(response) PROVE fresh' = fresh
    BY <1>2 DEF Respond, NextPage, LastPage, DownloadFails, file
  <1>3. ReplaceSnapshot => decade' = 0
    BY DEF ReplaceSnapshot, Forget
  <1>4. WriteFails => fresh' = fresh
    BY DEF WriteFails, DownloadFails, file
  <1> QED
    BY <1>1, <1>2, <1>3, <1>4 DEF DownloadStep

LEMMA DownloadStages ==
    ASSUME EvidenceInv, Download
    PROVE  EvidenceInv'
  <1>1. SnapshotInv'
    BY DownloadPreserves DEF EvidenceInv, Download
  <1>2. stage = "snapshot" /\ ~fresh /\ files = {} /\ files' = files
    BY DEF EvidenceInv, StagesInv, Download
  <1>3. fresh' => decade' = 0
    BY <1>2, DownloadLeaves DEF EvidenceInv, Download
  <1>4. stage' = IF decade' # 0 THEN "snapshot" ELSE IF fresh' THEN "scope" ELSE "idle"
    BY DEF Download
  <1>5. StagesInv'
    BY <1>2, <1>3, <1>4 DEF StagesInv
  <1> QED
    BY <1>1, <1>5 DEF EvidenceInv

\* A step that leaves the snapshot and its download alone.
LEMMA SnapshotUnchanged ==
    ASSUME SnapshotInv, UNCHANGED snapshotVars
    PROVE  SnapshotInv'
  <1>1. SnapshotTypeOK'
    BY DEF SnapshotInv, SnapshotTypeOK, snapshotVars, file, progress, Downloading
  <1>2. PartitionsExact'
    BY DEF SnapshotInv, PartitionsExact, Exact, snapshotVars, file, progress, Downloading,
           Intact, Doomed
  <1> QED
    BY <1>1, <1>2 DEF SnapshotInv

LEMMA EvidenceInit == Init => EvidenceInv
  <1> SUFFICES ASSUME Init PROVE EvidenceInv
    OBVIOUS
  <1>1. snapshot = NoFile /\ fresh = FALSE /\ NoDownload
    BY DEF Init, SnapshotInit
  <1>2. 0 \notin Decades /\ Len(RowsOf) \in Nat \ {0}
    BY DecadesAreNumbers
  <1>3. /\ decade = 0 /\ attempt = 0 /\ expected = Unknown /\ disturbance = "none"
        /\ records = <<>> /\ partitions = <<>> /\ versions = <<>>
    BY <1>1 DEF NoDownload
  <1>4. ~Downloading
    BY <1>2, <1>3 DEF Downloading
  <1>5. SnapshotTypeOK
    <2>1. records \in Seq(AllRows) /\ partitions \in Seq(Seq(AllRows)) /\ Len(partitions) = 0
      BY <1>3, EmptySeq
    <2>2. expected \in Nat \cup {Unknown} /\ disturbance \in Disturbances
      BY <1>3 DEF Disturbances
    <2>3. attempt \in 0..MaxRetries - 1
      BY <1>3, SnapshotConstants
    <2>4. decade \in 0..Len(RowsOf) + 1 /\ Len(partitions) = IF decade = 0 THEN 0 ELSE decade - 1
      BY <1>2, <1>3, <2>1
    <2> QED
      BY <1>1, <1>4, <2>1, <2>2, <2>3, <2>4 DEF SnapshotTypeOK
  <1>6. PartitionsExact
    <2>1. versions \in Seq(SUBSET Seq(AllRows)) /\ Len(versions) = 0
      BY <1>3, EmptySeq
    <2>2. Smaller(decade, Len(RowsOf)) = 0
      BY <1>2, <1>3 DEF Smaller
    <2> QED
      BY <1>3, <1>4, <2>1, <2>2 DEF PartitionsExact, Exact
  <1> QED
    BY <1>3, <1>5, <1>6 DEF Init, EvidenceInv, SnapshotInv, StagesInv

LEMMA EvidenceStep ==
    ASSUME EvidenceInv, [Next]_vars
    PROVE  EvidenceInv'
  <1>1. SnapshotInv /\ StagesInv
    BY DEF EvidenceInv
  <1>2. ASSUME RefreshSnapshot PROVE EvidenceInv'
    <2>1. SnapshotInv'
      BY <1>1, <1>2, StartPreserves DEF RefreshSnapshot
    <2>2. decade' = 1 /\ ~fresh /\ fresh' = fresh /\ stage' = "snapshot"
          /\ files' = files /\ files = {}
      BY <1>1, <1>2 DEF RefreshSnapshot, StartDownload, BeginPartition, StagesInv, file
    <2> QED
      BY <1>1, <2>1, <2>2 DEF EvidenceInv, StagesInv
  <1>3. CASE Download
    BY <1>3, DownloadStages
  <1>4. ASSUME LoadScope PROVE EvidenceInv'
    <2>1. SnapshotInv' /\ decade' = decade /\ fresh' = fresh
      BY <1>1, <1>4, SnapshotUnchanged DEF LoadScope, snapshotVars, file, progress
    <2>2. files' \subseteq DOMAIN CrlsOf
      BY <1>4 DEF LoadScope, DownloadResults, Range
    <2> QED
      BY <1>1, <1>4, <2>1, <2>2 DEF EvidenceInv, StagesInv, LoadScope
  <1>5. ASSUME UseCachedSnapshot \/ ScopeIsEmpty \/ Propagate
        PROVE  EvidenceInv'
    <2>1. SnapshotInv' /\ decade' = decade /\ fresh' = fresh
      BY <1>1, <1>5, SnapshotUnchanged
      DEF UseCachedSnapshot, ScopeIsEmpty, Propagate, snapshotVars, file, progress
    <2> QED
      BY <1>1, <1>5, <2>1 DEF EvidenceInv, StagesInv, UseCachedSnapshot, ScopeIsEmpty, Propagate
  <1>6. ASSUME NEW url \in files, ParseCrl(url) \/ ParseFails(url)
        PROVE  EvidenceInv'
    <2>1. /\ SnapshotInv' /\ decade' = decade /\ fresh' = fresh
          /\ stage = "crls" /\ stage' = stage /\ files' = files \ {url}
      BY <1>1, <1>6, SnapshotUnchanged DEF ParseCrl, ParseFails, snapshotVars, file, progress
    <2> QED
      BY <1>1, <2>1 DEF EvidenceInv, StagesInv
  <1>7. ASSUME Kill PROVE EvidenceInv'
    <2>1. FileOK'
      BY <1>1, <1>7 DEF Kill, file, SnapshotInv, SnapshotTypeOK, FileOK
    <2>2. SnapshotInv' /\ decade' = 0 /\ stage' = "idle" /\ files' = {}
      BY <1>7, <2>1, ForgetPreserves DEF Kill, Forget
    <2> QED
      BY <2>2 DEF EvidenceInv, StagesInv
  <1>8. ASSUME BetweenRuns PROVE EvidenceInv'
    <2>1. SnapshotInv' /\ stage = "idle" /\ stage' = stage /\ files' = files
      BY <1>1, <1>8, BetweenPreserves DEF BetweenRuns
    <2>2. decade' = decade
      BY <1>8 DEF BetweenRuns, Expire, LoseSnapshot, progress
    <2> QED
      BY <1>1, <2>1, <2>2 DEF EvidenceInv, StagesInv
  <1>9. ASSUME World PROVE EvidenceInv'
    <2>1. /\ SnapshotInv' /\ decade' = decade /\ fresh' = fresh
          /\ stage' = stage /\ files' = files
      BY <1>1, <1>9, ChangePreserves DEF World, CcadbChanges, file
    <2> QED
      BY <1>1, <2>1 DEF EvidenceInv, StagesInv
  <1>10. CASE UNCHANGED vars
    <2>1. /\ SnapshotInv' /\ decade' = decade /\ fresh' = fresh
          /\ stage' = stage /\ files' = files
      BY <1>1, <1>10, SnapshotUnchanged DEF vars, snapshotVars, file, progress
    <2> QED
      BY <1>1, <2>1 DEF EvidenceInv, StagesInv
  <1> QED
    BY <1>2, <1>3, <1>4, <1>5, <1>6, <1>7, <1>8, <1>9, <1>10 DEF Next

\* Every step of the stage is a commit, the propagation or leaves AKIs alone.
LEMMA StageStep ==
    ASSUME EvidenceInv, [Next]_vars
    PROVE  [AkiNext]_akiVars
  <1>1. ASSUME NEW url \in files, ParseCrl(url)
        PROVE  AkiNext
    <2>1. PICK crl \in CrlsOf[url] : SaveRevokedCerts(crl.records, crl.aki)
      BY <1>1 DEF ParseCrl
    <2>2. crl.records \in SUBSET Records /\ crl.aki \in MaybeAki
      BY <2>1, EvidenceConstants DEF EvidenceInv, StagesInv, MaybeAki
    <2> QED
      BY <1>1, <2>1, <2>2 DEF ParseCrl, AkiNext, MaybeAki
  <1>2. ASSUME NEW url \in files, ParseFails(url) PROVE UNCHANGED akiVars
    BY <1>2 DEF ParseFails
  <1>3. CASE Propagate
    BY <1>3 DEF Propagate, AkiNext
  <1>4. CASE LoadScope \/ Kill \/ BetweenRuns \/ World
    BY <1>4 DEF LoadScope, Kill, BetweenRuns, World
  <1>5. CASE RefreshSnapshot \/ Download \/ UseCachedSnapshot \/ ScopeIsEmpty
    BY <1>5 DEF RefreshSnapshot, Download, UseCachedSnapshot, ScopeIsEmpty
  <1>6. CASE UNCHANGED vars
    BY <1>6 DEF vars
  <1> QED
    BY <1>1, <1>2, <1>3, <1>4, <1>5, <1>6 DEF Next

\* A file that becomes fresh holds what each decade was at some moment.
LEMMA ReplaceIsExact ==
    ASSUME EvidenceInv, [Next]_vars, fresh', ~fresh
    PROVE  \E whole \in [Decades -> UNION ToSet(versions)] :
              /\ \A d \in Decades : whole[d] \in versions[d]
              /\ snapshot' = FlattenSeq(whole)
  <1>1. ReplaceSnapshot
    <2>1. CASE Download
      <3>1. RequestFails => fresh' = fresh
        BY DEF RequestFails, DownloadFails, file
      <3>2. ASSUME NEW response \in Responses, Respond(response) PROVE fresh' = fresh
        BY <3>2 DEF Respond, NextPage, LastPage, DownloadFails, file
      <3>3. WriteFails => fresh' = fresh
        BY DEF WriteFails, DownloadFails, file
      <3> QED
        BY <2>1, <3>1, <3>2, <3>3 DEF Download, DownloadStep
    <2>2. ASSUME RefreshSnapshot \/ UseCachedSnapshot \/ LoadScope \/ ScopeIsEmpty \/ Propagate
                 \/ Kill \/ BetweenRuns \/ World \/ UNCHANGED vars
          PROVE  FALSE
      BY <2>2 DEF RefreshSnapshot, StartDownload, UseCachedSnapshot, LoadScope, ScopeIsEmpty,
                  Propagate, Kill, BetweenRuns, Expire, LoseSnapshot, World, CcadbChanges,
                  vars, snapshotVars, file
    <2>3. ASSUME NEW url \in files, ParseCrl(url) \/ ParseFails(url) PROVE FALSE
      BY <2>3 DEF ParseCrl, ParseFails, snapshotVars, file
    <2> QED
      BY <2>1, <2>2, <2>3 DEF Next
  <1>2. /\ decade = Len(RowsOf) + 1 /\ snapshot' = FlattenSeq(partitions)
        /\ Decades = 1..Len(RowsOf) /\ Len(RowsOf) \in Nat \ {0}
    BY <1>1, DecadesAreNumbers DEF ReplaceSnapshot, AllPartitionsDownloaded
  <1>3. partitions \in Seq(Seq(AllRows)) /\ Len(partitions) = Len(RowsOf)
    BY <1>2 DEF EvidenceInv, SnapshotInv, SnapshotTypeOK
  <1>4. /\ versions \in Seq(SUBSET Seq(AllRows)) /\ Len(versions) = Len(RowsOf)
        /\ \A d \in DOMAIN partitions : partitions[d] \in versions[d]
    BY <1>2 DEF EvidenceInv, SnapshotInv, PartitionsExact, Exact, Smaller
  <1>5. DOMAIN partitions = Decades /\ DOMAIN versions = Decades
    BY <1>2, <1>3, <1>4, LenProperties
  <1>6. \A d \in Decades : partitions[d] \in UNION ToSet(versions)
    BY <1>4, <1>5 DEF ToSet
  <1>7. partitions \in [Decades -> UNION ToSet(versions)]
    <2>1. partitions = [d \in Decades |-> partitions[d]]
      BY <1>3, <1>5, LenProperties
    <2> QED
      BY <1>6, <2>1
  <1> QED
    BY <1>2, <1>4, <1>5, <1>7

(***************************************************************************)
(* An AKI and its source are always written and cleared together, by any   *)
(* sequence of CRL commits and propagations (data_manager.py).             *)
(***************************************************************************)
THEOREM ProvenanceIsKnown == Spec => [](AkiTypeOK /\ ProvenanceKnown)
  <1>1. Init => EvidenceInv /\ AkiInv
    BY EvidenceInit, AkiInitEstablishes DEF Init
  <1>2. EvidenceInv /\ AkiInv /\ [Next]_vars => (EvidenceInv /\ AkiInv)'
    BY EvidenceStep, StageStep, AkiStep
  <1> QED
    BY <1>1, <1>2, PTL DEF Spec, AkiInv

(***************************************************************************)
(* All state of crl_sync_only has its type, whatever CCADB answers and     *)
(* wherever a run ends: a cached file that counts as fresh is there and    *)
(* holds flattened rows only, a download runs only in its stage.           *)
(***************************************************************************)
THEOREM TypeCorrect == Spec => []TypeOK
  <1>1. Init => EvidenceInv /\ AkiInv
    BY EvidenceInit, AkiInitEstablishes DEF Init
  <1>2. EvidenceInv /\ AkiInv /\ [Next]_vars => (EvidenceInv /\ AkiInv)'
    BY EvidenceStep, StageStep, AkiStep
  <1>3. EvidenceInv /\ AkiInv => TypeOK
    BY DEF EvidenceInv, SnapshotInv, StagesInv, AkiInv, TypeOK
  <1> QED
    BY <1>1, <1>2, <1>3, PTL DEF Spec

(***************************************************************************)
(* A file that replaces the cached one has for every decade exactly the    *)
(* records that CCADB had at one moment of its download                    *)
(* (download_ccadb_records), provided that during one decade records are   *)
(* only added, or only deleted, or else one field of one response is       *)
(* wrong: each makes some count disagree, however many pages are still to  *)
(* come.  Changes that make up for each other are outside the              *)
(* specification: counts do not show them.                                 *)
(***************************************************************************)
THEOREM SnapshotsAreExact == Spec => SnapshotIsExact
  <1>1. Init => EvidenceInv
    BY EvidenceInit
  <1>2. EvidenceInv /\ [Next]_vars => EvidenceInv'
    BY EvidenceStep
  <1>3. EvidenceInv /\ [Next]_vars =>
           [fresh' /\ ~fresh =>
              \E whole \in [Decades -> UNION ToSet(versions)] :
                 /\ \A d \in Decades : whole[d] \in versions[d]
                 /\ snapshot' = FlattenSeq(whole)]_snapshotVars
    BY ReplaceIsExact
  <1> QED
    BY <1>1, <1>2, <1>3, PTL DEF Spec, SnapshotIsExact

(***************************************************************************)
(* load_intermediate_scope misses no CRL that an eligible row of the       *)
(* snapshot discloses, whatever the rows repeat of each other: dropping    *)
(* the later groups of a key drops no URL.                                 *)
(***************************************************************************)
THEOREM EveryScopeIsComplete == Spec => []ScopeIsComplete
  <1>1. Init => EvidenceInv
    BY EvidenceInit
  <1>2. EvidenceInv /\ [Next]_vars => EvidenceInv'
    BY EvidenceStep
  <1>3. EvidenceInv => ScopeIsComplete
    <2> SUFFICES ASSUME EvidenceInv, stage = "crls"
                 PROVE  CoversScope(Groups(snapshot), snapshot)
      BY DEF ScopeIsComplete
    <2>1. snapshot \in Seq(AllRows)
      BY DEF EvidenceInv, SnapshotInv, SnapshotTypeOK, StagesInv
    <2> QED
      BY <2>1, GroupsCoverScope
  <1> QED
    BY <1>1, <1>2, <1>3, PTL DEF Spec

(***************************************************************************)
(* crl_sync_only implements AkiView: what lookups find in                  *)
(* authority_key_identifier after a propagation is what follows from the   *)
(* direct CRL evidence, however the runs before it went and ended.         *)
(***************************************************************************)
THEOREM EvidenceImplementsAkiView == Spec => ImplementsAkiView
  <1>1. Init => EvidenceInv /\ AkiInv /\ View!Init
    BY EvidenceInit, AkiInitEstablishes DEF Init
  <1>2. EvidenceInv /\ AkiInv /\ [Next]_vars
          => (EvidenceInv /\ AkiInv)' /\ [View!Next]_View!viewVars
    BY EvidenceStep, StageStep, AkiStep
  <1> QED
    BY <1>1, <1>2, PTL DEF Spec, ImplementsAkiView, View!Spec
=============================================================================
