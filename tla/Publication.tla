---------------------------- MODULE Publication -----------------------------
(***************************************************************************)
(* release_publish.py: a verified bundle is retained on the runner, then   *)
(* published to GitHub file by file, first as a fixed version, then as the *)
(* rolling alias data-latest.                                              *)
(*                                                                         *)
(* GitHub may lose a response after it acted, store half an upload, or not *)
(* act at all; the job may be killed between any two commands, and be      *)
(* dispatched again for the same bundle or for an older one.  The          *)
(* concurrency group of the workflows admits one job at a time, so that    *)
(* nothing moves between a read of a release and the command after it:     *)
(* the two are one step here.                                              *)
(*                                                                         *)
(* Abstractions.  A tag is its position in time.  The content of a file,   *)
(* and the release notes, are the tag of their bundle.  Permanent errors   *)
(* and requests that fail for good end the job like a kill does, before or *)
(* after their effect.  Each bundle has one source commit.                 *)
(***************************************************************************)
EXTENDS Integers, FiniteSets

CONSTANTS
    Tags,             \* versions that may be staged
    Latest,           \* data-latest
    FileCount,        \* the assets, in upload order; the last is SHA256SUMS
    Absent, Partial,  \* an asset that is missing, or not stored completely
    Damaged,          \* an asset changed on GitHub by someone else
    RequestAttempts,  \* RELEASE_REQUEST_ATTEMPTS
    UploadAttempts    \* RELEASE_UPLOAD_ATTEMPTS

ASSUME PublicationConstants ==
    /\ Tags \subseteq Nat \ {0}
    /\ Latest \notin Nat
    /\ {FileCount, RequestAttempts, UploadAttempts} \subseteq Nat \ {0}
    /\ {Absent, Partial, Damaged} \cap Nat = {}
    /\ Absent # Partial /\ Absent # Damaged /\ Partial # Damaged

VARIABLES
    staged,     \* bundles retained on the runner
    marked,     \* bundles with a "published" marker
    created,    \* [Releases -> Nat]: how many releases carry this tag
    published,  \* the releases that are not drafts
    body,       \* [Releases -> ...]: the version in the release notes
    asset,      \* [Releases -> [File -> ...]]
    legacy,     \* data-latest still has the raw compromised_keys.csv
    pc, tag,    \* the job: where it is, and the bundle it publishes,
    release,    \* the release it works on,
    file,       \* the file it uploads,
    attempt     \* and its attempts at this request or file

Releases == Tags \cup {Latest}
File == 1..FileCount
Versions == Tags \cup {0}  \* 0: published before these bundles, or none
Contents == Versions \cup {Absent, Partial, Damaged}

remote == <<created, published, body, asset, legacy>>
job == <<pc, tag, release, file, attempt>>
vars == <<staged, marked, remote, job>>

Init ==
    /\ staged = {} /\ marked = {}
    /\ \E exists \in BOOLEAN :
          /\ created = [r \in Releases |-> IF r = Latest /\ exists THEN 1 ELSE 0]
          /\ published = IF exists THEN {Latest} ELSE {}
          /\ asset = [r \in Releases |-> [f \in File |->
                        IF r = Latest /\ exists THEN 0 ELSE Absent]]
          /\ legacy \in BOOLEAN /\ (legacy => exists)
    /\ body = [r \in Releases |-> 0]
    /\ pc = "idle" /\ tag = 0 /\ release = Latest /\ file = 1 /\ attempt = 0

----------------------------------------------------------------------------

\* stage_release, in the job of the daily sync: the versions are timestamps.
StageBundle(t) ==
    /\ pc = "idle"
    /\ \A u \in staged : u < t
    /\ staged' = staged \cup {t}
    /\ UNCHANGED <<marked, remote, job>>

EndJob ==
    /\ pc' = "idle" /\ tag' = 0 /\ release' = Latest /\ file' = 1 /\ attempt' = 0

BeginRelease(r) ==
    /\ pc' = "ensure" /\ release' = r /\ file' = 1 /\ attempt' = 0

\* Mutant: the alias is updated before the fixed version.
FirstReleaseIsAlias(t) == Latest

FirstRelease(t) == t

\* publish_bundle: any retained bundle may be dispatched, at any time.
Start(t) ==
    /\ pc = "idle"
    /\ t \in staged
    /\ tag' = t
    /\ BeginRelease(FirstRelease(t))
    /\ UNCHANGED <<staged, marked, remote>>

----------------------------------------------------------------------------
(* ensure_release *)

EnsureRelease ==
    /\ pc = "ensure"
    /\ created[release] > 0
    /\ pc' = "upload" /\ attempt' = 0
    /\ UNCHANGED <<tag, release, file, staged, marked, remote>>

\* Mutant: a failed create is repeated without looking for its result.
MissingOrFailed(r) == attempt > 0 \/ created[r] = 0

Missing(r) == created[r] = 0

\* GitHub may have acted whether or not the command failed.
CreateRelease(acted, failed) ==
    /\ pc = "ensure"
    /\ Missing(release)
    /\ acted \/ failed
    /\ created' = [created EXCEPT ![release] = IF acted THEN @ + 1 ELSE @]
    /\ body' = [body EXCEPT ![release] = IF acted THEN tag ELSE @]
    /\ IF failed /\ attempt + 1 = RequestAttempts
       THEN EndJob
       ELSE attempt' = attempt + 1 /\ UNCHANGED <<pc, tag, release, file>>
    /\ UNCHANGED <<staged, marked, published, asset, legacy>>

----------------------------------------------------------------------------
(* publish *)

\* Mutant: an asset of the right name and size is taken for uploaded.
MatchesName(r, f) == asset[r][f] \in {tag, Partial}

\* Mutant: the result of the last upload is not read.
MatchesReadOnceLess(r, f) == asset[r][f] = tag /\ attempt < UploadAttempts

\* Uploaded, with the digest of the bundle's file.
Matches(r, f) == asset[r][f] = tag

\* Mutant: a published version is repaired.
IsMutableAlways(r) == TRUE

IsMutable(r) == r = Latest \/ r \notin published

\* Mutant: one upload too many.
MayUploadOnceMore ==
    ~Matches(release, file) /\ IsMutable(release) /\ attempt <= UploadAttempts

MayUpload ==
    ~Matches(release, file) /\ IsMutable(release) /\ attempt < UploadAttempts

KeepAsset ==
    /\ pc = "upload"
    /\ Matches(release, file)
    /\ attempt' = 0
    /\ IF file < FileCount
       THEN file' = file + 1 /\ UNCHANGED pc
       ELSE pc' = "finish" /\ UNCHANGED file
    /\ UNCHANGED <<tag, release, staged, marked, remote>>

\* gh release upload --clobber deletes the old asset before it uploads.
UploadAsset(result) ==
    /\ pc = "upload"
    /\ MayUpload
    /\ asset' = [asset EXCEPT ![release][file] = result]
    /\ attempt' = attempt + 1
    /\ UNCHANGED <<pc, tag, release, file, staged, marked, created, published,
                   body, legacy>>

\* Mutant: obsolete assets of the alias are left.
DeleteObsoleteNever == FALSE /\ UNCHANGED vars

DeleteObsolete ==
    /\ pc = "finish"
    /\ release = Latest /\ legacy
    /\ legacy' = FALSE
    /\ UNCHANGED <<job, staged, marked, created, published, body, asset>>

RemoteComplete ==
    /\ \A f \in File : Matches(release, f)
    /\ release = Latest => ~legacy

\* For a published version with these notes, nothing changes.
EditRelease ==
    /\ pc = "finish"
    /\ RemoteComplete
    /\ published' = published \cup {release}
    /\ body' = [body EXCEPT ![release] = tag]
    /\ pc' = IF release = Latest THEN "mark" ELSE "alias"
    /\ UNCHANGED <<tag, release, file, attempt, staged, marked, created, asset,
                   legacy>>

\* "Published version differs", uploads exhausted, remote checks failed.
Refused ==
    \/ pc = "upload" /\ ~Matches(release, file) /\ ~MayUpload
    \/ pc = "finish" /\ ~RemoteComplete /\ ~(release = Latest /\ legacy)

Refuse == Refused /\ EndJob /\ UNCHANGED <<staged, marked, remote>>

----------------------------------------------------------------------------
(* publish_bundle, after the fixed version *)

\* Mutant: no comparison with the version of the alias.
NeverNewer == FALSE

\* The version is read from the notes of data-latest, draft or not.
NewerAnnounced == body[Latest] > tag

DecideAlias ==
    /\ pc = "alias"
    /\ IF NewerAnnounced
       THEN pc' = "mark" /\ UNCHANGED <<release, file, attempt>>
       ELSE BeginRelease(Latest)
    /\ UNCHANGED <<tag, staged, marked, remote>>

\* Mutant: the marker is written as soon as the fixed version is published.
MayMarkEarly == pc \in {"alias", "mark"}

MayMark == pc = "mark"

Mark ==
    /\ MayMark
    /\ marked' = marked \cup {tag}
    /\ EndJob
    /\ UNCHANGED <<staged, remote>>

----------------------------------------------------------------------------

\* The job is killed, times out, or gives up on a request.
Kill ==
    /\ pc # "idle" /\ ~Refused
    /\ EndJob
    /\ UNCHANGED <<staged, marked, remote>>

\* Someone with write access changes an asset of a published version.
DamageAsset(t, f) ==
    /\ t \in published
    /\ asset' = [asset EXCEPT ![t][f] = Damaged]
    /\ UNCHANGED <<staged, marked, created, published, body, legacy, job>>

JobStep ==
    \/ EnsureRelease \/ CreateRelease(TRUE, FALSE)
    \/ KeepAsset \/ UploadAsset(tag)
    \/ DeleteObsolete \/ EditRelease \/ Refuse
    \/ DecideAlias \/ Mark

Fault ==
    \/ \E acted \in BOOLEAN : CreateRelease(acted, TRUE)
    \/ \E result \in {Absent, Partial, asset[release][file]} : UploadAsset(result)
    \/ Kill

Next ==
    \/ \E t \in Tags : StageBundle(t) \/ Start(t)
    \/ JobStep
    \/ Fault
    \/ \E t \in Tags, f \in File : DamageAsset(t, f)

Spec == Init /\ [][Next]_vars

(***************************************************************************)
(* Fairness: a job runs on, faults end, and the operator dispatches every  *)
(* retained bundle again and again.                                        *)
(***************************************************************************)
Fairness ==
    /\ WF_vars(JobStep)
    /\ \A t \in Tags : SF_vars(Start(t))
    /\ <>[][~Fault]_vars

FairSpec == Spec /\ Fairness

(***************************************************************************)
(* Properties                                                              *)
(***************************************************************************)

TypeOK ==
    /\ staged \subseteq Tags /\ marked \subseteq staged
    /\ created \in [Releases -> Nat]
    /\ published \subseteq Releases
    /\ body \in [Releases -> Versions]
    /\ asset \in [Releases -> [File -> Contents]]
    /\ legacy \in BOOLEAN
    /\ pc \in {"idle", "ensure", "upload", "finish", "alias", "mark"}
    /\ tag \in Versions
    /\ release \in Releases
    /\ file \in File
    /\ attempt \in 0..UploadAttempts \cup 0..RequestAttempts

(***************************************************************************)
(* Fixed versions stay in draft until all assets verify: whatever was lost *)
(* on the way, a published version holds exactly its bundle's files.       *)
(***************************************************************************)
PublishedComplete ==
    \A t \in published \ {Latest} : \A f \in File : asset[t][f] \in {t, Damaged}

(***************************************************************************)
(* The rolling alias is updated last: readers of data-latest never see a   *)
(* file of a version that is not published under its own tag.              *)
(***************************************************************************)
AliasAfterVersion ==
    \A t \in Tags, f \in File : asset[Latest][f] = t => t \in published

(***************************************************************************)
(* A "published" marker, after which the bundle may be deleted, means that *)
(* its version is published and the notes of data-latest, which may still  *)
(* be a draft, name it or a newer one.                                     *)
(***************************************************************************)
MarkedIsAnnounced ==
    \A t \in marked : t \in published /\ body[Latest] >= t

(***************************************************************************)
(* "Re-read after an uncertain create response instead of creating a       *)
(* second release."                                                        *)
(***************************************************************************)
OneReleasePerTag == \A r \in Releases : created[r] <= 1

(***************************************************************************)
(* Published versions are never overwritten by a job.                      *)
(***************************************************************************)
NeverOverwritten ==
    [][\A t \in published \ {Latest}, f \in File :
          asset'[t][f] # asset[t][f] => asset'[t][f] = Damaged /\ UNCHANGED job]_vars

(***************************************************************************)
(* A job gives up only on a version that someone changed, or on a file     *)
(* that none of its UploadAttempts uploads has stored: it reads once more  *)
(* than it uploads, and whatever verified in an earlier step, or an        *)
(* earlier job, still does at the end.                                     *)
(***************************************************************************)
GivesUpForCause ==
    Refused =>
        \/ \E f \in File : asset[release][f] = Damaged
        \/ /\ pc = "upload" /\ attempt = UploadAttempts
           /\ asset[release][file] # tag

(***************************************************************************)
(* The version announced by data-latest never falls.                       *)
(***************************************************************************)
AnnouncedNeverFalls == [][body'[Latest] >= body[Latest]]_vars

(***************************************************************************)
(* Once faults end, a retry resumes whatever an earlier job left: every    *)
(* retained bundle is marked, unless someone changed its version.          *)
(***************************************************************************)
EventuallyMarked ==
    \A t \in Tags :
        t \in staged ~> t \in marked \/ \E f \in File : asset[t][f] = Damaged

(***************************************************************************)
(* "Retrying an older version does not replace a newer data-latest": an    *)
(* upload never gives data-latest a file older than the version that all   *)
(* its files have.                                                         *)
(***************************************************************************)
OlderNeverReplacesNewer ==
    [][\A u \in Tags :
          Latest \in published /\ (\A f \in File : asset[Latest][f] = u) =>
             \A t \in Tags, f \in File : asset'[Latest][f] = t => t >= u]_vars
=============================================================================
