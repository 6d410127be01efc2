------------------------- MODULE PublicationProofs --------------------------
(***************************************************************************)
(* Publication for any versions, files and limits.  TypeOK,                *)
(* PublishedComplete, AliasAfterVersion, OneReleasePerTag and              *)
(* MarkedIsAnnounced are not inductive by themselves: what the job still   *)
(* holds in its hands (JobOK) decides whether its next command keeps them. *)
(***************************************************************************)
EXTENDS Publication, TLAPS

\* The job works on its own version, and on data-latest only when its version
\* is published and not older than the one data-latest announces.
JobOK ==
    /\ pc # "idle" => tag \in staged /\ release \in {tag, Latest}
    /\ pc # "idle" /\ release = Latest => tag \in published /\ body[Latest] <= tag
    /\ pc = "ensure" /\ created[release] = 0 => attempt < RequestAttempts
    /\ pc \in {"upload", "finish"} => created[release] > 0
    /\ pc = "alias" => release = tag /\ tag \in published
    /\ pc = "mark" => tag \in published /\ body[Latest] >= tag

\* Before data-latest exists, nothing was announced.
NothingAnnounced == created[Latest] = 0 => body[Latest] = 0

IInv ==
    /\ TypeOK /\ JobOK /\ NothingAnnounced
    /\ PublishedComplete /\ AliasAfterVersion
    /\ OneReleasePerTag /\ MarkedIsAnnounced

(***************************************************************************)
(* The constants, as the steps below need them.                            *)
(***************************************************************************)
LEMMA ConstantFacts ==
    /\ Tags \subseteq Nat /\ 0 \notin Tags
    /\ Latest \notin Tags /\ Latest \in Releases
    /\ FileCount \in Nat /\ FileCount > 0 /\ 1 \in File
    /\ RequestAttempts \in Nat /\ RequestAttempts > 0
    /\ UploadAttempts \in Nat /\ UploadAttempts > 0
    /\ Versions \subseteq Nat /\ Versions \subseteq Contents
    /\ Absent \in Contents /\ Partial \in Contents /\ Damaged \in Contents
    /\ Absent \notin Nat /\ Partial \notin Nat /\ Damaged \notin Nat
<1>1. /\ Tags \subseteq Nat \ {0} /\ Latest \notin Nat
      /\ FileCount \in Nat \ {0} /\ RequestAttempts \in Nat \ {0}
      /\ UploadAttempts \in Nat \ {0}
  BY PublicationConstants DEF PublicationConstants
<1>2. Absent \notin Nat /\ Partial \notin Nat /\ Damaged \notin Nat
  BY PublicationConstants DEF PublicationConstants
<1>3. 1 \in File
  BY <1>1 DEF File
<1>4. Tags \subseteq Nat /\ 0 \notin Tags /\ Latest \notin Tags
  BY <1>1
<1>5. Versions \subseteq Nat
  BY <1>4 DEF Versions
<1>6. FileCount > 0 /\ RequestAttempts > 0 /\ UploadAttempts > 0
  BY <1>1
<1>7. /\ Versions \subseteq Contents
      /\ Absent \in Contents /\ Partial \in Contents /\ Damaged \in Contents
  BY DEF Contents
<1>8. Latest \in Releases
  BY DEF Releases
<1> QED
  BY <1>1, <1>2, <1>3, <1>4, <1>5, <1>6, <1>7, <1>8

LEMMA InitInvariant == Init => IInv
<1> SUFFICES ASSUME Init PROVE IInv
  OBVIOUS
<1> USE ConstantFacts
<1>1. PICK exists \in BOOLEAN :
          /\ created = [r \in Releases |-> IF r = Latest /\ exists THEN 1 ELSE 0]
          /\ published = IF exists THEN {Latest} ELSE {}
          /\ asset = [r \in Releases |-> [f \in File |->
                        IF r = Latest /\ exists THEN 0 ELSE Absent]]
          /\ legacy \in BOOLEAN
  BY DEF Init
<1>2. body = [r \in Releases |-> 0] /\ staged = {} /\ marked = {}
  BY DEF Init
<1>3. pc = "idle" /\ tag = 0 /\ release = Latest /\ file = 1 /\ attempt = 0
  BY DEF Init
<1>4. TypeOK
  <2>1. created \in [Releases -> Nat] /\ asset \in [Releases -> [File -> Contents]]
    BY <1>1 DEF Versions, Contents
  <2>2. body \in [Releases -> Versions]
    BY <1>2 DEF Versions
  <2>3. attempt \in 0..UploadAttempts
    BY <1>3
  <2> QED
    BY <1>1, <1>2, <1>3, <2>1, <2>2, <2>3 DEF TypeOK, Versions, Releases
<1>5. JobOK /\ NothingAnnounced
  BY <1>2, <1>3 DEF JobOK, NothingAnnounced
<1>6. PublishedComplete /\ MarkedIsAnnounced
  BY <1>1, <1>2 DEF PublishedComplete, MarkedIsAnnounced
<1>7. AliasAfterVersion
  BY <1>1 DEF AliasAfterVersion, Releases
<1>8. OneReleasePerTag
  BY <1>1 DEF OneReleasePerTag
<1> QED
  BY <1>4, <1>5, <1>6, <1>7, <1>8 DEF IInv

(***************************************************************************)
(* A job that ends, for whatever reason, leaves GitHub as it is.           *)
(***************************************************************************)
LEMMA EndJobKeeps ==
    ASSUME IInv, EndJob, UNCHANGED <<staged, remote>>,
           marked' \subseteq staged,
           \A t \in marked' : t \in published /\ body[Latest] >= t
    PROVE  IInv'
<1> USE ConstantFacts
<1>1. TypeOK'
  BY DEF IInv, TypeOK, EndJob, remote, Versions
<1>2. JobOK' /\ NothingAnnounced'
  BY DEF IInv, JobOK, NothingAnnounced, EndJob, remote
<1> QED
  BY <1>1, <1>2 DEF IInv, PublishedComplete, AliasAfterVersion, OneReleasePerTag,
     MarkedIsAnnounced, remote

(***************************************************************************)
(* Every step keeps the invariant.                                         *)
(***************************************************************************)
LEMMA JobStartKeeps == ASSUME IInv, NEW t \in Tags, StageBundle(t) \/ Start(t) PROVE IInv'
<1> USE ConstantFacts
<1>1. CASE StageBundle(t)
  <2>1. TypeOK' /\ JobOK' /\ NothingAnnounced'
    BY <1>1 DEF IInv, TypeOK, JobOK, NothingAnnounced, StageBundle, remote, job
  <2> QED
    BY <1>1, <2>1 DEF IInv, StageBundle, remote, job, PublishedComplete,
       AliasAfterVersion, OneReleasePerTag, MarkedIsAnnounced
<1>2. CASE Start(t)
  <2>1. TypeOK'
    BY <1>2 DEF IInv, TypeOK, Start, BeginRelease, FirstRelease, remote,
       Releases, Versions
  <2>2. JobOK' /\ NothingAnnounced'
    BY <1>2 DEF IInv, JobOK, NothingAnnounced, Start, BeginRelease,
       FirstRelease, remote
  <2> QED
    BY <1>2, <2>1, <2>2 DEF IInv, Start, remote, PublishedComplete,
       AliasAfterVersion, OneReleasePerTag, MarkedIsAnnounced
<1> QED
  BY <1>1, <1>2

LEMMA CreateReleaseKeeps ==
    ASSUME IInv, NEW acted \in BOOLEAN, NEW failed \in BOOLEAN,
           CreateRelease(acted, failed)
    PROVE  IInv'
<1> USE ConstantFacts
<1>1. pc = "ensure" /\ created[release] = 0
  BY DEF CreateRelease, Missing
<1>2. /\ created' = [created EXCEPT ![release] = IF acted THEN @ + 1 ELSE @]
      /\ body' = [body EXCEPT ![release] = IF acted THEN tag ELSE @]
      /\ UNCHANGED <<staged, marked, published, asset, legacy>>
  BY DEF CreateRelease
<1>3. /\ tag \in Tags /\ release \in {tag, Latest} /\ release \in Releases
      /\ attempt \in Nat /\ attempt < RequestAttempts
  BY <1>1 DEF IInv, JobOK, TypeOK, Releases
<1>4. \/ EndJob
      \/ /\ failed => attempt + 1 < RequestAttempts
         /\ attempt' = attempt + 1 /\ UNCHANGED <<pc, tag, release, file>>
  BY <1>3 DEF CreateRelease
<1>5. created \in [Releases -> Nat] /\ body \in [Releases -> Versions]
  BY DEF IInv, TypeOK
<1>6. created' \in [Releases -> Nat] /\ body' \in [Releases -> Versions]
  BY <1>2, <1>3, <1>5 DEF Versions
<1>7. TypeOK'
  <2>1. attempt' \in 0..UploadAttempts \cup 0..RequestAttempts
    <3>1. CASE EndJob
      BY <3>1 DEF EndJob
    <3>2. CASE attempt' = attempt + 1
      BY <3>2, <1>3
    <3> QED
      BY <3>1, <3>2, <1>4
  <2>2. /\ pc' \in {"idle", "ensure", "upload", "finish", "alias", "mark"}
        /\ tag' \in Versions /\ release' \in Releases /\ file' \in File
    <3>1. CASE EndJob
      BY <3>1 DEF EndJob, Versions
    <3>2. CASE UNCHANGED <<pc, tag, release, file>>
      BY <3>2 DEF IInv, TypeOK
    <3> QED
      BY <3>1, <3>2, <1>4
  <2> QED
    BY <1>2, <1>6, <2>1, <2>2 DEF IInv, TypeOK
<1>8. OneReleasePerTag' /\ NothingAnnounced'
  <2>1. created' \in [Releases -> Nat]
    BY <1>6
  <2>2. ASSUME NEW r \in Releases PROVE created'[r] <= 1
    BY <1>1, <1>2, <1>5 DEF IInv, OneReleasePerTag
  <2>3. created'[Latest] = 0 => body'[Latest] = 0
    BY <1>1, <1>2, <1>3, <1>5 DEF IInv, NothingAnnounced
  <2> QED
    BY <2>2, <2>3 DEF OneReleasePerTag, NothingAnnounced
<1>9. PublishedComplete' /\ AliasAfterVersion'
  BY <1>2 DEF IInv, PublishedComplete, AliasAfterVersion
<1>10. MarkedIsAnnounced'
  <2> SUFFICES ASSUME NEW t \in marked PROVE t \in published /\ body'[Latest] >= t
    BY <1>2 DEF MarkedIsAnnounced
  <2>1. t \in published /\ body[Latest] >= t /\ t \in Tags
    BY DEF IInv, MarkedIsAnnounced, TypeOK
  <2>2. body[Latest] \in Nat /\ body[Latest] # 0
    <3>1. body[Latest] \in Nat
      BY <1>5
    <3>2. t \in Nat /\ t # 0
      BY <2>1
    <3> QED
      BY <2>1, <3>1, <3>2
  <2>3. release # Latest
    BY <1>1, <2>2 DEF IInv, NothingAnnounced
  <2> QED
    BY <1>2, <1>5, <2>1, <2>3
<1>11. JobOK'
  <2>1. CASE EndJob
    BY <2>1 DEF EndJob, JobOK
  <2>2. CASE /\ failed => attempt + 1 < RequestAttempts
             /\ attempt' = attempt + 1 /\ UNCHANGED <<pc, tag, release, file>>
    <3>1. created'[release] = 0 => attempt + 1 < RequestAttempts
      <4>1. acted => created'[release] = 1
        BY <1>1, <1>2, <1>3, <1>5
      <4> QED
        BY <4>1, <2>2 DEF CreateRelease
    <3>2. release = Latest => tag \in published /\ body'[Latest] <= tag
      <4>1. release = Latest => tag \in published /\ body[Latest] <= tag
        BY <1>1 DEF IInv, JobOK
      <4> QED
        BY <4>1, <1>2, <1>3, <1>5
    <3> QED
      BY <1>1, <1>2, <1>3, <2>2, <3>1, <3>2 DEF IInv, JobOK
  <2> QED
    BY <1>4, <2>1, <2>2
<1> QED
  BY <1>7, <1>8, <1>9, <1>10, <1>11 DEF IInv

LEMMA UploadKeeps ==
    ASSUME IInv, NEW result \in {Absent, Partial, asset[release][file], tag},
           UploadAsset(result)
    PROVE  IInv'
<1> USE ConstantFacts
<1>1. /\ pc = "upload" /\ MayUpload
      /\ asset' = [asset EXCEPT ![release][file] = result]
      /\ attempt' = attempt + 1
      /\ UNCHANGED <<pc, tag, release, file, staged, marked, created, published,
                     body, legacy>>
  BY DEF UploadAsset
<1>2. /\ release \in Releases /\ file \in File /\ tag \in Versions
      /\ asset \in [Releases -> [File -> Contents]]
      /\ release = Latest \/ release \notin published
      /\ attempt \in Nat /\ attempt < UploadAttempts
  BY <1>1 DEF IInv, TypeOK, MayUpload, IsMutable
<1>3. result \in Contents
  BY <1>2 DEF IInv
<1>4. TypeOK'
  <2>1. asset' \in [Releases -> [File -> Contents]]
    BY <1>1, <1>2, <1>3
  <2>2. attempt' \in 0..UploadAttempts
    BY <1>1, <1>2
  <2> QED
    BY <1>1, <2>1, <2>2 DEF IInv, TypeOK
<1>5. JobOK' /\ NothingAnnounced'
  BY <1>1 DEF IInv, JobOK, NothingAnnounced
<1>6. PublishedComplete'
  <2> SUFFICES ASSUME NEW t \in published \ {Latest}, NEW f \in File
               PROVE  asset'[t][f] \in {t, Damaged}
    BY <1>1 DEF PublishedComplete
  <2>1. t # release /\ t \in Releases
    BY <1>2 DEF IInv, TypeOK
  <2>2. asset'[t] = asset[t]
    BY <1>1, <1>2, <2>1
  <2> QED
    BY <2>2 DEF IInv, PublishedComplete
<1>7. AliasAfterVersion'
  <2> SUFFICES ASSUME NEW t \in Tags, NEW f \in File, asset'[Latest][f] = t
               PROVE  t \in published
    BY <1>1 DEF AliasAfterVersion
  <2>1. CASE asset[Latest][f] = t
    BY <2>1 DEF IInv, AliasAfterVersion
  <2>2. CASE asset[Latest][f] # t
    <3>1. release = Latest /\ file = f /\ result = t
      BY <1>1, <1>2, <2>2
    <3>2. result \notin {Absent, Partial} /\ result # asset[release][file]
      BY <2>2, <3>1
    <3>3. tag = t
      BY <3>1, <3>2
    <3> QED
      BY <1>1, <3>1, <3>3 DEF IInv, JobOK
  <2> QED
    BY <2>1, <2>2
<1> QED
  BY <1>1, <1>4, <1>5, <1>6, <1>7 DEF IInv, OneReleasePerTag, MarkedIsAnnounced

LEMMA EditKeeps == ASSUME IInv, EditRelease PROVE IInv'
<1> USE ConstantFacts
<1>1. /\ pc = "finish" /\ \A f \in File : asset[release][f] = tag
      /\ published' = published \cup {release}
      /\ body' = [body EXCEPT ![release] = tag]
      /\ pc' = IF release = Latest THEN "mark" ELSE "alias"
      /\ UNCHANGED <<tag, release, file, attempt, staged, marked, created,
                     asset, legacy>>
  BY DEF EditRelease, RemoteComplete, Matches
<1>2. /\ release \in Releases /\ tag \in Tags /\ release \in {tag, Latest}
      /\ body \in [Releases -> Versions]
      /\ release = Latest => tag \in published /\ body[Latest] <= tag
  BY <1>1 DEF IInv, TypeOK, JobOK
<1>3. TypeOK'
  BY <1>1, <1>2 DEF IInv, TypeOK, Versions
<1>4. body'[Latest] >= body[Latest] /\ (release = Latest => body'[Latest] = tag)
  <2>1. body[Latest] \in Nat /\ tag \in Nat
    BY <1>2
  <2>2. CASE release = Latest
    BY <1>1, <1>2, <2>1, <2>2
  <2>3. CASE release # Latest
    BY <1>1, <1>2, <2>1, <2>3
  <2> QED
    BY <2>2, <2>3
<1>5. JobOK'
  <2>1. tag \in published'
    BY <1>1, <1>2
  <2>2. tag \in staged /\ tag \in Nat
    BY <1>1, <1>2 DEF IInv, JobOK
  <2>3. CASE release = Latest
    BY <1>1, <1>2, <1>4, <2>1, <2>2, <2>3 DEF JobOK
  <2>4. CASE release # Latest
    BY <1>1, <1>2, <2>1, <2>2, <2>4 DEF JobOK
  <2> QED
    BY <2>3, <2>4
<1>6. NothingAnnounced'
  <2>1. CASE created[Latest] # 0
    BY <1>1, <2>1 DEF NothingAnnounced
  <2>2. CASE created[Latest] = 0
    <3>1. release # Latest
      BY <1>1, <2>2 DEF IInv, JobOK
    <3> QED
      BY <1>1, <1>2, <2>2, <3>1 DEF IInv, NothingAnnounced
  <2> QED
    BY <2>1, <2>2
<1>7. PublishedComplete'
  BY <1>1, <1>2 DEF IInv, PublishedComplete
<1>8. AliasAfterVersion' /\ OneReleasePerTag'
  BY <1>1 DEF IInv, AliasAfterVersion, OneReleasePerTag
<1>9. MarkedIsAnnounced'
  <2> SUFFICES ASSUME NEW t \in marked
               PROVE  t \in published' /\ body'[Latest] >= t
    BY <1>1 DEF MarkedIsAnnounced
  <2>1. t \in published /\ body[Latest] >= t /\ t \in Nat
    BY DEF IInv, MarkedIsAnnounced, TypeOK
  <2>2. body'[Latest] \in Nat /\ body[Latest] \in Nat
    BY <1>2, <1>3 DEF TypeOK
  <2> QED
    BY <1>1, <1>4, <2>1, <2>2
<1> QED
  BY <1>3, <1>5, <1>6, <1>7, <1>8, <1>9 DEF IInv

(***************************************************************************)
(* The other steps change one thing of the job, or one asset.              *)
(***************************************************************************)
LEMMA DamageKeeps ==
    ASSUME IInv, NEW t \in Tags, NEW f \in File, DamageAsset(t, f)
    PROVE  IInv'
<1> USE ConstantFacts
<1>1. /\ asset' = [asset EXCEPT ![t][f] = Damaged]
      /\ UNCHANGED <<staged, marked, created, published, body, legacy, job>>
      /\ t \in Releases /\ t # Latest
      /\ asset \in [Releases -> [File -> Contents]]
  BY DEF DamageAsset, IInv, TypeOK, Releases
<1>2. asset' \in [Releases -> [File -> Contents]]
  BY <1>1
<1>3. TypeOK' /\ JobOK' /\ NothingAnnounced'
  BY <1>1, <1>2 DEF IInv, TypeOK, JobOK, NothingAnnounced, job
<1>4. PublishedComplete'
  <2> SUFFICES ASSUME NEW u \in published \ {Latest}, NEW g \in File
               PROVE  asset'[u][g] \in {u, Damaged}
    BY <1>1 DEF PublishedComplete
  <2>1. asset[u][g] \in {u, Damaged} /\ u \in Releases
    BY DEF IInv, PublishedComplete, TypeOK
  <2> QED
    BY <1>1, <2>1
<1>5. asset'[Latest] = asset[Latest]
  BY <1>1
<1> QED
  BY <1>1, <1>3, <1>4, <1>5 DEF IInv, AliasAfterVersion, OneReleasePerTag,
     MarkedIsAnnounced

LEMMA ReadKeeps ==
    ASSUME IInv, EnsureRelease \/ KeepAsset \/ DeleteObsolete \/ DecideAlias
    PROVE  IInv'
<1> USE ConstantFacts
<1>1. /\ UNCHANGED <<staged, marked, created, published, body, asset>>
      /\ legacy' \in BOOLEAN
  BY DEF IInv, TypeOK, EnsureRelease, KeepAsset, DeleteObsolete, DecideAlias, remote
<1>2. TypeOK' /\ JobOK'
  <2>1. CASE EnsureRelease
    BY <1>1, <2>1 DEF IInv, TypeOK, JobOK, EnsureRelease
  <2>2. CASE KeepAsset
    <3>1. file' \in File /\ attempt' = 0
      BY <2>2 DEF IInv, TypeOK, KeepAsset, File
    <3> QED
      BY <1>1, <2>2, <3>1 DEF IInv, TypeOK, JobOK, KeepAsset
  <2>3. CASE DeleteObsolete
    BY <1>1, <2>3 DEF IInv, TypeOK, JobOK, DeleteObsolete, job
  <2>4. CASE DecideAlias
    <3>1. /\ pc = "alias" /\ tag \in published /\ tag \in staged
          /\ tag \in Nat /\ body[Latest] \in Nat /\ tag' = tag
      BY <2>4 DEF IInv, TypeOK, JobOK, DecideAlias
    <3>2. CASE NewerAnnounced
      BY <1>1, <2>4, <3>1, <3>2 DEF IInv, TypeOK, JobOK, DecideAlias, NewerAnnounced
    <3>3. CASE ~NewerAnnounced
      <4>1. pc' = "ensure" /\ release' = Latest /\ file' = 1 /\ attempt' = 0
        BY <2>4, <3>3 DEF DecideAlias, BeginRelease
      <4>2. body[Latest] <= tag
        BY <3>1, <3>3 DEF NewerAnnounced
      <4> QED
        BY <1>1, <3>1, <4>1, <4>2 DEF IInv, TypeOK, JobOK
    <3> QED
      BY <3>2, <3>3
  <2> QED
    BY <2>1, <2>2, <2>3, <2>4
<1> QED
  BY <1>1, <1>2 DEF IInv, NothingAnnounced, PublishedComplete, AliasAfterVersion,
     OneReleasePerTag, MarkedIsAnnounced

LEMMA EndKeeps == ASSUME IInv, Refuse \/ Kill \/ Mark PROVE IInv'
<1>1. CASE Refuse \/ Kill
  BY <1>1, EndJobKeeps DEF Refuse, Kill, IInv, TypeOK, MarkedIsAnnounced
<1>2. CASE Mark
  <2>1. marked' = marked \cup {tag} /\ EndJob /\ UNCHANGED <<staged, remote>>
    BY <1>2 DEF Mark
  <2>2. tag \in staged /\ tag \in published /\ body[Latest] >= tag
    BY <1>2 DEF Mark, MayMark, IInv, JobOK
  <2> QED
    BY <2>1, <2>2, EndJobKeeps DEF IInv, TypeOK, MarkedIsAnnounced
<1> QED
  BY <1>1, <1>2

LEMMA StepKeeps == IInv /\ [Next]_vars => IInv'
<1> SUFFICES ASSUME IInv, [Next]_vars PROVE IInv'
  OBVIOUS
<1>1. CASE \E t \in Tags : StageBundle(t) \/ Start(t)
  BY <1>1, JobStartKeeps
<1>2. CASE JobStep
  <2>1. CASE CreateRelease(TRUE, FALSE)
    BY <2>1, CreateReleaseKeeps
  <2>2. CASE UploadAsset(tag)
    BY <2>2, UploadKeeps
  <2> QED
    BY <1>2, <2>1, <2>2, ReadKeeps, EndKeeps, EditKeeps DEF JobStep
<1>3. CASE Fault
  <2>1. CASE \E acted \in BOOLEAN : CreateRelease(acted, TRUE)
    BY <2>1, CreateReleaseKeeps
  <2>2. CASE \E result \in {Absent, Partial, asset[release][file]} : UploadAsset(result)
    BY <2>2, UploadKeeps
  <2> QED
    BY <1>3, <2>1, <2>2, EndKeeps DEF Fault
<1>4. CASE \E t \in Tags, f \in File : DamageAsset(t, f)
  BY <1>4, DamageKeeps
<1>5. CASE UNCHANGED vars
  BY <1>5 DEF vars, remote, job, IInv, TypeOK, JobOK, NothingAnnounced,
     PublishedComplete, AliasAfterVersion, OneReleasePerTag, MarkedIsAnnounced
<1> QED
  BY <1>1, <1>2, <1>3, <1>4, <1>5 DEF Next

THEOREM PublicationInvariant == Spec => []IInv
BY InitInvariant, StepKeeps, PTL DEF Spec

(***************************************************************************)
(* Every variable keeps its type: attempts never exceed their limits, and  *)
(* only retained bundles are marked.                                       *)
(***************************************************************************)
THEOREM PublicationTypeCorrect == Spec => []TypeOK
BY PublicationInvariant, PTL DEF IInv

(***************************************************************************)
(* A published version is complete, for any number of files and any order  *)
(* of failures and retries: only a change on GitHub can make it differ.    *)
(***************************************************************************)
THEOREM PublishedIsComplete == Spec => []PublishedComplete
BY PublicationInvariant, PTL DEF IInv

(***************************************************************************)
(* data-latest never shows a file of an unpublished version.               *)
(***************************************************************************)
THEOREM AliasFollowsVersion == Spec => []AliasAfterVersion
BY PublicationInvariant, PTL DEF IInv

(***************************************************************************)
(* However often a create fails with or without effect, a tag has at most  *)
(* one release.                                                            *)
(***************************************************************************)
THEOREM ReleasesAreUnique == Spec => []OneReleasePerTag
BY PublicationInvariant, PTL DEF IInv

(***************************************************************************)
(* A marked bundle is published, and data-latest names it or a newer one.  *)
(***************************************************************************)
THEOREM MarkedAreAnnounced == Spec => []MarkedIsAnnounced
BY PublicationInvariant, PTL DEF IInv

(***************************************************************************)
(* A step of a job changes no asset of a published version.                *)
(***************************************************************************)
LEMMA StepNeverOverwrites ==
    ASSUME IInv, [Next]_vars,
           NEW t \in published \ {Latest}, NEW f \in File, asset'[t][f] # asset[t][f]
    PROVE  asset'[t][f] = Damaged /\ UNCHANGED job
<1>1. t \in Releases /\ asset \in [Releases -> [File -> Contents]]
  BY DEF IInv, TypeOK
<1>2. ASSUME NEW result, UploadAsset(result) PROVE FALSE
  <2>1. release \in Releases /\ release # t
    BY <1>2 DEF UploadAsset, MayUpload, IsMutable, IInv, TypeOK
  <2> QED
    BY <1>1, <1>2, <2>1 DEF UploadAsset
<1>3. ASSUME NEW u \in Tags, NEW g \in File, DamageAsset(u, g)
      PROVE  asset'[t][f] = Damaged /\ UNCHANGED job
  BY <1>1, <1>3 DEF DamageAsset, Releases
<1>4. CASE UNCHANGED asset
  BY <1>4
<1> QED
  BY <1>2, <1>3, <1>4 DEF Next, JobStep, Fault, StageBundle, Start, EnsureRelease,
     CreateRelease, KeepAsset, DeleteObsolete, EditRelease, Refuse, DecideAlias,
     Mark, Kill, remote, vars

(***************************************************************************)
(* Published versions are never overwritten.                               *)
(***************************************************************************)
THEOREM PublishedIsNeverOverwritten == Spec => NeverOverwritten
<1>1. IInv /\ [Next]_vars =>
        [\A t \in published \ {Latest}, f \in File :
            asset'[t][f] # asset[t][f] => asset'[t][f] = Damaged /\ UNCHANGED job]_vars
  BY StepNeverOverwrites
<1> QED
  BY <1>1, PublicationInvariant, PTL DEF Spec, NeverOverwritten

(***************************************************************************)
(* No step lowers the version that data-latest announces.                  *)
(***************************************************************************)
LEMMA StepNeverLowers == ASSUME IInv, [Next]_vars PROVE body'[Latest] >= body[Latest]
<1> USE ConstantFacts
<1>1. body[Latest] \in Nat /\ body \in [Releases -> Versions]
  BY DEF IInv, TypeOK
<1>2. ASSUME NEW acted \in BOOLEAN, NEW failed \in BOOLEAN, CreateRelease(acted, failed)
      PROVE  body'[Latest] >= body[Latest]
  <2>1. created[release] = 0 /\ pc = "ensure"
        /\ body' = [body EXCEPT ![release] = IF acted THEN tag ELSE @]
    BY <1>2 DEF CreateRelease, Missing
  <2>2. release = Latest => body[Latest] <= tag
    BY <2>1 DEF IInv, JobOK
  <2>3. CASE release = Latest
    BY <1>1, <2>1, <2>2, <2>3
  <2>4. CASE release # Latest
    BY <1>1, <2>1, <2>4
  <2> QED
    BY <2>3, <2>4
<1>3. ASSUME EditRelease PROVE body'[Latest] >= body[Latest]
  <2>1. pc = "finish" /\ body' = [body EXCEPT ![release] = tag]
    BY <1>3 DEF EditRelease
  <2>2. release = Latest => body[Latest] <= tag
    BY <2>1 DEF IInv, JobOK
  <2>3. CASE release = Latest
    BY <1>1, <2>1, <2>2, <2>3
  <2>4. CASE release # Latest
    BY <1>1, <2>1, <2>4
  <2> QED
    BY <2>3, <2>4
<1>4. CASE UNCHANGED body
  BY <1>1, <1>4
<1> QED
  BY <1>2, <1>3, <1>4 DEF Next, JobStep, Fault, StageBundle, Start, EnsureRelease,
     UploadAsset, KeepAsset, DeleteObsolete, Refuse, DecideAlias, Mark, Kill,
     DamageAsset, remote, vars

(***************************************************************************)
(* The version announced by data-latest never falls, whichever bundles are *)
(* retried in whichever order.                                             *)
(***************************************************************************)
THEOREM AnnouncedIsMonotone == Spec => AnnouncedNeverFalls
<1>1. IInv /\ [Next]_vars => [body'[Latest] >= body[Latest]]_vars
  BY StepNeverLowers
<1> QED
  BY <1>1, PublicationInvariant, PTL DEF Spec, AnnouncedNeverFalls

----------------------------------------------------------------------------
(* Giving up.                                                              *)

\* What the job has read as stored is still as it was, unless someone changed
\* it; and it never uploads a file more often than it may.
FilesOK ==
    /\ pc = "ensure" => file = 1
    /\ pc = "upload" =>
          /\ attempt <= UploadAttempts
          /\ \A g \in File : g < file => asset[release][g] \in {tag, Damaged}
    /\ pc = "finish" => \A g \in File : asset[release][g] \in {tag, Damaged}

LEMMA KeepAssetKeepsFiles == ASSUME IInv, FilesOK, KeepAsset PROVE FilesOK'
<1> USE ConstantFacts
<1>1. /\ pc = "upload" /\ asset[release][file] = tag /\ file \in File
      /\ UNCHANGED <<tag, release, asset>>
      /\ attempt' = 0
  BY DEF KeepAsset, Matches, remote, IInv, TypeOK
<1>2. \A g \in File : g <= file => asset[release][g] \in {tag, Damaged}
  BY <1>1 DEF FilesOK, File
<1>3. CASE file < FileCount
  <2>1. file' = file + 1 /\ pc' = "upload"
    BY <1>1, <1>3 DEF KeepAsset
  <2>2. \A g \in File : g < file' => g <= file
    BY <1>1, <2>1 DEF File
  <2>3. attempt' <= UploadAttempts
    BY <1>1
  <2> QED
    BY <1>1, <1>2, <2>1, <2>2, <2>3 DEF FilesOK
<1>4. CASE ~(file < FileCount)
  <2>1. pc' = "finish"
    BY <1>4 DEF KeepAsset
  <2>2. \A g \in File : g <= file
    BY <1>1, <1>4 DEF File
  <2> QED
    BY <1>1, <1>2, <2>1, <2>2 DEF FilesOK
<1> QED
  BY <1>3, <1>4

LEMMA UploadKeepsFiles ==
    ASSUME IInv, FilesOK, NEW result, UploadAsset(result)
    PROVE  FilesOK'
<1> USE ConstantFacts
<1>1. /\ pc = "upload" /\ attempt < UploadAttempts
      /\ asset' = [asset EXCEPT ![release][file] = result]
      /\ attempt' = attempt + 1
      /\ UNCHANGED <<pc, tag, release, file>>
      /\ release \in Releases /\ asset \in [Releases -> [File -> Contents]]
      /\ attempt \in Nat
  BY DEF UploadAsset, MayUpload, IInv, TypeOK
<1>2. attempt' <= UploadAttempts
  BY <1>1
<1>3. \A g \in File : g < file => g # file
  BY DEF File, IInv, TypeOK
<1>4. \A g \in File : g < file => asset'[release][g] = asset[release][g]
  BY <1>1, <1>3
<1> QED
  BY <1>1, <1>2, <1>4 DEF FilesOK

LEMMA DamageKeepsFiles ==
    ASSUME IInv, FilesOK, NEW t \in Tags, NEW f \in File, DamageAsset(t, f)
    PROVE  FilesOK'
<1>1. /\ asset' = [asset EXCEPT ![t][f] = Damaged]
      /\ UNCHANGED <<pc, tag, release, file, attempt>>
      /\ release \in Releases /\ asset \in [Releases -> [File -> Contents]]
  BY DEF DamageAsset, job, IInv, TypeOK
<1>2. \A g \in File : asset'[release][g] \in {asset[release][g], Damaged}
  BY <1>1
<1> QED
  BY <1>1, <1>2 DEF FilesOK

LEMMA FilesStayOK == IInv /\ FilesOK /\ [Next]_vars => FilesOK'
<1> SUFFICES ASSUME IInv, FilesOK, [Next]_vars PROVE FilesOK'
  OBVIOUS
<1> USE ConstantFacts
<1>1. CASE \E t \in Tags : StageBundle(t) \/ Start(t)
  BY <1>1 DEF FilesOK, StageBundle, Start, BeginRelease, job, remote
<1>2. CASE EnsureRelease
  <2>1. /\ pc' = "upload" /\ attempt' = 0 /\ file' = 1
    BY <1>2 DEF EnsureRelease, FilesOK
  <2>2. \A g \in File : ~(g < file')
    BY <2>1 DEF File
  <2>3. attempt' <= UploadAttempts
    BY <2>1
  <2> QED
    BY <2>1, <2>2, <2>3 DEF FilesOK
<1>3. CASE \E acted, failed \in BOOLEAN : CreateRelease(acted, failed)
  BY <1>3 DEF FilesOK, CreateRelease, EndJob
<1>4. CASE KeepAsset
  BY <1>4, KeepAssetKeepsFiles
<1>5. CASE \E result \in Contents : UploadAsset(result)
  BY <1>5, UploadKeepsFiles
<1>6. CASE DeleteObsolete
  BY <1>6 DEF FilesOK, DeleteObsolete, job
<1>7. CASE EditRelease
  BY <1>7 DEF FilesOK, EditRelease
<1>8. CASE DecideAlias
  BY <1>8 DEF FilesOK, DecideAlias, BeginRelease, remote
<1>9. CASE Refuse \/ Mark \/ Kill
  BY <1>9 DEF FilesOK, Refuse, Mark, Kill, EndJob
<1>10. CASE \E t \in Tags, f \in File : DamageAsset(t, f)
  BY <1>10, DamageKeepsFiles
<1>11. CASE UNCHANGED vars
  BY <1>11 DEF FilesOK, vars, job, remote
<1>12. asset[release][file] \in Contents /\ tag \in Contents
  BY DEF IInv, TypeOK
<1>13. CASE JobStep
  BY <1>2, <1>3, <1>4, <1>5, <1>6, <1>7, <1>8, <1>9, <1>12, <1>13 DEF JobStep
<1>14. CASE Fault
  BY <1>3, <1>5, <1>9, <1>12, <1>14 DEF Fault
<1> QED
  BY <1>1, <1>10, <1>11, <1>13, <1>14 DEF Next

LEMMA RefusalHasCause == IInv /\ FilesOK => GivesUpForCause
<1> SUFFICES ASSUME IInv, FilesOK, Refused PROVE GivesUpForCause
  BY DEF GivesUpForCause
<1>1. CASE pc = "upload" /\ ~Matches(release, file) /\ ~MayUpload
  <2>1. asset[release][file] # tag /\ file \in File
    BY <1>1 DEF Matches, IInv, TypeOK
  <2>2. CASE IsMutable(release)
    <3>1. attempt \in Nat /\ attempt <= UploadAttempts /\ ~(attempt < UploadAttempts)
      BY <1>1, <2>2, ConstantFacts DEF MayUpload, FilesOK, IInv, TypeOK
    <3>2. attempt = UploadAttempts
      BY <3>1, ConstantFacts
    <3> QED
      BY <1>1, <2>1, <3>2 DEF GivesUpForCause
  <2>3. CASE ~IsMutable(release)
    <3>1. release \in published \ {Latest} /\ release = tag
      BY <1>1, <2>3 DEF IsMutable, IInv, JobOK
    <3>2. asset[release][file] = Damaged
      BY <2>1, <3>1 DEF IInv, PublishedComplete
    <3> QED
      BY <2>1, <3>2 DEF GivesUpForCause
  <2> QED
    BY <2>2, <2>3
<1>2. CASE pc = "finish" /\ ~RemoteComplete /\ ~(release = Latest /\ legacy)
  <2>1. PICK f \in File : asset[release][f] # tag
    BY <1>2 DEF RemoteComplete, Matches
  <2>2. asset[release][f] = Damaged
    BY <1>2, <2>1 DEF FilesOK
  <2> QED
    BY <2>2 DEF GivesUpForCause
<1> QED
  BY <1>1, <1>2 DEF Refused

(***************************************************************************)
(* A job gives up only where someone changed the version, or after all the *)
(* uploads of a file that it may make have failed to store it; for any     *)
(* limits, files and earlier jobs.                                         *)
(***************************************************************************)
THEOREM RefusalsHaveCause == Spec => []GivesUpForCause
<1>1. Init => FilesOK
  BY DEF Init, FilesOK
<1> QED
  BY <1>1, PublicationInvariant, FilesStayOK, RefusalHasCause, PTL DEF Spec
=============================================================================
