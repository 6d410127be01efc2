---------------------------- MODULE CrlPipeline -----------------------------
(***************************************************************************)
(* The CRL stage of a sync: download_crl_groups and its coroutines         *)
(* (downloader.py), the parse pool of crl_sync_only (main.py), and the     *)
(* crl_status / revoked_certs writes behind them (data_manager.py).        *)
(*                                                                         *)
(* A logical CRL is a GROUP: an ordered list of mirror URLs, of which the  *)
(* first that answers is used.  Group workers share one download task per  *)
(* URL.  A downloaded file goes to the on-disk cache at once; it is a      *)
(* checkpoint (parsed_hash) only once its revocations are committed.  The  *)
(* process may be killed between any two steps, and the cache and the      *)
(* database outlive it independently of each other.                        *)
(*                                                                         *)
(* Abstractions.  A CRL is its content hash, a member of Contents.  A row  *)
(* of crl_status that does not exist and one whose hashes are NULL behave  *)
(* alike, so both are NoContent.  The failure columns of crl_status        *)
(* (download_status, consecutive_failures, last_error) steer nothing: only *)
(* reports read them, so record_crl_failure leaves this model unchanged.   *)
(***************************************************************************)
EXTENDS Integers, Sequences, FiniteSets

CONSTANTS
    Urls,          \* declared CRL URLs
    Groups,        \* the scope's sources: a sequence of sequences of mirrors
    Contents,      \* CRLs the servers may return
    Certs,         \* (serial, issuer) of keyCompromise entries
    Entries,       \* the entries CRLParser.get_revoked_serials finds in a CRL
    NoContent,     \* NULL hash, missing file
    MaxRetries,    \* CRLDownloader.max_retries
    Concurrency,   \* CRLDownloader.concurrency
    MaxPending     \* files in the process pool: config.CRL_PARSE_WORKERS * 2

ASSUME ScopeIsGrouped ==
    /\ Groups \in Seq(Seq(Urls))
    /\ \A g \in DOMAIN Groups : Len(Groups[g]) > 0

ASSUME EntriesOfContents ==
    /\ NoContent \notin Contents
    /\ Entries \in [Contents -> SUBSET Certs]

ASSUME Limits ==
    /\ MaxRetries \in Nat \ {0}
    /\ Concurrency \in Nat \ {0}
    /\ MaxPending \in Nat \ {0}

GroupIds == DOMAIN Groups
MaybeContent == Contents \cup {NoContent}

VARIABLES
    \* On disk: the cached files.
    cache,        \* [Urls -> MaybeContent]
    \* In the database: crl_status and revoked_certs.
    lastHash,     \* [Urls -> MaybeContent]
    parsedHash,   \* [Urls -> MaybeContent]
    revoked,      \* SUBSET Certs
    \* In memory, for one crl_sync_only.
    phase,
    task,         \* [Urls -> TaskStates]: the entry of the downloads dict
    attempt,      \* [Urls -> 0..MaxRetries]
    body,         \* [Urls -> MaybeContent]: the decoded response in hand
    group,        \* [GroupIds -> GroupStates]
    cursor,       \* [GroupIds -> Nat]: the mirror the group awaits
    unsubmitted,  \* updated_crls the paths iterator has not yielded
    pending,      \* files handed to the process pool
    failedParse   \* files counted in crl_parse_errors

database == <<lastHash, parsedHash, revoked>>
downloads == <<task, attempt, body, group, cursor>>
parsing == <<unsubmitted, pending, failedParse>>
vars == <<cache, database, phase, downloads, parsing>>

Phases == {"idle", "downloading", "parsing", "done"}

\* Inside these states a coroutine runs without awaiting: no other coroutine
\* of the event loop takes a step, but the process may still be killed.
Synchronous == {"same", "changed", "written", "checked"}
Finished == {"updated", "unchanged", "failed"}
TaskStates == {"absent", "queued", "fetching"} \cup Synchronous \cup Finished
GroupStates == {"waiting", "active", "ok", "failed"}

LoopFree == \A u \in Urls : task[u] \notin Synchronous

\* The tasks that hold a slot of the shared semaphore.
SlotHolders == {u \in Urls : task[u] \in {"fetching"} \cup Synchronous}
ActiveGroups == {g \in GroupIds : group[g] = "active"}

Mirror(g) == Groups[g][cursor[g]]
Downloaded == {Mirror(g) : g \in {h \in GroupIds : group[h] = "ok"}}
UpdatedFiles == {u \in Downloaded : task[u] = "updated"}

----------------------------------------------------------------------------

NoHash == [u \in Urls |-> NoContent]

NoRun ==
    /\ task = [u \in Urls |-> "absent"]
    /\ attempt = [u \in Urls |-> 0]
    /\ body = NoHash
    /\ group = [g \in GroupIds |-> "waiting"]
    /\ cursor = [g \in GroupIds |-> 0]
    /\ unsubmitted = {} /\ pending = {} /\ failedParse = {}

ClearRun ==
    /\ task' = [u \in Urls |-> "absent"]
    /\ attempt' = [u \in Urls |-> 0]
    /\ body' = NoHash
    /\ group' = [g \in GroupIds |-> "waiting"]
    /\ cursor' = [g \in GroupIds |-> 0]
    /\ unsubmitted' = {} /\ pending' = {} /\ failedParse' = {}

Init ==
    /\ cache = NoHash
    /\ lastHash = NoHash /\ parsedHash = NoHash
    /\ revoked = {}
    /\ phase = "idle"
    /\ NoRun

\* The process is not running a CRL stage.
Stopped == phase \in {"idle", "done"}

\* crl_sync_only begins: scope loaded, sources registered, no task yet.
StartRun ==
    /\ Stopped
    /\ phase' = "downloading"
    /\ ClearRun
    /\ UNCHANGED <<cache, database>>

\* The process is killed, or the stage raises: memory goes, files stay.
Crash ==
    /\ ~Stopped
    /\ phase' = "idle"
    /\ ClearRun
    /\ UNCHANGED <<cache, database>>

\* Between runs: a new machine has no cache, a new database has no rows.
LoseCache ==
    /\ Stopped
    /\ cache' = NoHash
    /\ phase' = "idle"
    /\ ClearRun
    /\ UNCHANGED database

LoseDatabase ==
    /\ Stopped
    /\ lastHash' = NoHash /\ parsedHash' = NoHash
    /\ revoked' = {}
    /\ phase' = "idle"
    /\ ClearRun
    /\ UNCHANGED cache

----------------------------------------------------------------------------
(* _download_crl_group and its workers *)

\* Mutant: a task per request instead of one per URL.
RequestAgain(u) == task' = [task EXCEPT ![u] = "queued"]

\* downloads[url]: the task is created by the first group that reaches it.
Request(u) == task' = [task EXCEPT ![u] = IF @ = "absent" THEN "queued" ELSE @]

TakeGroup(g) ==
    /\ phase = "downloading" /\ LoopFree
    /\ group[g] = "waiting"
    /\ \A h \in GroupIds : h < g => group[h] # "waiting"
    /\ Cardinality(ActiveGroups) < Concurrency
    /\ group' = [group EXCEPT ![g] = "active"]
    /\ cursor' = [cursor EXCEPT ![g] = 1]
    /\ Request(Groups[g][1])
    /\ UNCHANGED <<cache, database, phase, attempt, body, parsing>>

AwaitedBy(g) ==
    /\ phase = "downloading" /\ LoopFree
    /\ group[g] = "active"
    /\ task[Mirror(g)] \in Finished

GroupSucceeds(g) ==
    /\ AwaitedBy(g)
    /\ task[Mirror(g)] # "failed"
    /\ group' = [group EXCEPT ![g] = "ok"]
    /\ UNCHANGED <<cache, database, phase, task, attempt, body, cursor, parsing>>

GroupTriesNextMirror(g) ==
    /\ AwaitedBy(g)
    /\ task[Mirror(g)] = "failed"
    /\ cursor[g] < Len(Groups[g])
    /\ cursor' = [cursor EXCEPT ![g] = @ + 1]
    /\ Request(Groups[g][cursor[g] + 1])
    /\ UNCHANGED <<cache, database, phase, attempt, body, group, parsing>>

GroupFails(g) ==
    /\ AwaitedBy(g)
    /\ task[Mirror(g)] = "failed"
    /\ cursor[g] = Len(Groups[g])
    /\ group' = [group EXCEPT ![g] = "failed"]
    /\ UNCHANGED <<cache, database, phase, task, attempt, body, cursor, parsing>>

----------------------------------------------------------------------------
(* _download_crl_with_retry *)

TaskStep(u, from, to) ==
    /\ phase = "downloading"
    /\ task[u] = from
    /\ task' = [task EXCEPT ![u] = to]
    /\ UNCHANGED <<phase, group, cursor, parsing>>

\* The coroutine returns: its locals are gone, its slot is free.
TaskEnds(u, from, result) ==
    /\ TaskStep(u, from, result)
    /\ attempt' = [attempt EXCEPT ![u] = 0]
    /\ body' = [body EXCEPT ![u] = NoContent]

\* Mutant: the group workers hold slots of the same semaphore.
StartFetchSharingSlots(u) ==
    /\ LoopFree
    /\ Cardinality(SlotHolders) + Cardinality(ActiveGroups) < Concurrency
    /\ TaskStep(u, "queued", "fetching")
    /\ attempt' = [attempt EXCEPT ![u] = 1]
    /\ UNCHANGED <<cache, database, body>>

StartFetch(u) ==
    /\ LoopFree
    /\ Cardinality(SlotHolders) < Concurrency
    /\ TaskStep(u, "queued", "fetching")
    /\ attempt' = [attempt EXCEPT ![u] = 1]
    /\ UNCHANGED <<cache, database, body>>

\* HTTP 200 with a readable CRL, compared with the cached file.
Respond(u, content) ==
    /\ LoopFree
    /\ TaskStep(u, "fetching",
                IF cache[u] = content THEN "same" ELSE "changed")
    /\ body' = [body EXCEPT ![u] = content]
    /\ UNCHANGED <<cache, database, attempt>>

\* atomic_write replaces the file in one step.
WriteFile(u) ==
    /\ TaskStep(u, "changed", "written")
    /\ cache' = [cache EXCEPT ![u] = body[u]]
    /\ UNCHANGED <<database, attempt, body>>

\* _record_success, which logs and swallows a database error.
RecordCrlSuccess(u) ==
    /\ \/ lastHash' = [lastHash EXCEPT ![u] = body[u]]
       \/ UNCHANGED lastHash
    /\ UNCHANGED <<cache, parsedHash, revoked>>

RecordNewFile(u) ==
    /\ TaskEnds(u, "written", "updated")
    /\ RecordCrlSuccess(u)

RecordSameFile(u) ==
    /\ TaskStep(u, "same", "checked")
    /\ RecordCrlSuccess(u)
    /\ UNCHANGED <<attempt, body>>

\* Mutant: an unchanged file is taken for a parsed one.
CrlNeverNeedsParsing(u) == FALSE

CrlNeedsParsing(u) == parsedHash[u] # body[u]

CheckCheckpoint(u) ==
    /\ TaskEnds(u, "checked",
                IF CrlNeedsParsing(u) THEN "updated" ELSE "unchanged")
    /\ UNCHANGED <<cache, database>>

\* Mutant: one attempt too many.
RetryFetchOnceMore(u) ==
    /\ LoopFree
    /\ attempt[u] <= MaxRetries
    /\ TaskStep(u, "fetching", "fetching")
    /\ attempt' = [attempt EXCEPT ![u] = @ + 1]
    /\ UNCHANGED <<cache, database, body>>

\* A timeout, a client error or a status worth retrying.
RetryFetch(u) ==
    /\ LoopFree
    /\ attempt[u] < MaxRetries
    /\ TaskStep(u, "fetching", "fetching")
    /\ attempt' = [attempt EXCEPT ![u] = @ + 1]
    /\ UNCHANGED <<cache, database, body>>

\* The last retry fails, or the status is 403, 404 or 410, or the URL or the
\* body is refused: any attempt may be the last.
FetchFails(u) ==
    /\ LoopFree
    /\ TaskEnds(u, "fetching", "failed")
    /\ UNCHANGED <<cache, database>>

\* The cache cannot be written or the checkpoint cannot be read.
StoreFails(u) ==
    /\ \E from \in {"changed", "checked"} : TaskEnds(u, from, "failed")
    /\ UNCHANGED <<cache, database>>

----------------------------------------------------------------------------
(* The parse pool of crl_sync_only *)

\* gather returned: submit up to MaxPending files, in any order.
StartParsing ==
    /\ phase = "downloading"
    /\ \A g \in GroupIds : group[g] \in {"ok", "failed"}
    /\ phase' = "parsing"
    /\ \E batch \in SUBSET UpdatedFiles :
          /\ \/ batch = UpdatedFiles /\ Cardinality(batch) <= MaxPending
             \/ Cardinality(batch) = MaxPending
          /\ pending' = batch
          /\ unsubmitted' = UpdatedFiles \ batch
    /\ failedParse' = {}
    /\ UNCHANGED <<cache, database, downloads>>

\* pending.pop(future), then submit_next().
Settle(u) ==
    /\ phase = "parsing"
    /\ u \in pending
    /\ \/ /\ unsubmitted = {}
          /\ pending' = pending \ {u}
          /\ UNCHANGED unsubmitted
       \/ \E v \in unsubmitted :
          /\ pending' = (pending \ {u}) \cup {v}
          /\ unsubmitted' = unsubmitted \ {v}
    /\ UNCHANGED <<cache, phase, downloads>>

\* Mutant: the checkpoint UPDATE without its WHERE clause.
SaveRevokedCertsForAll(u) ==
    /\ Settle(u)
    /\ revoked' = revoked \cup Entries[cache[u]]
    /\ parsedHash' = lastHash
    /\ UNCHANGED <<lastHash, failedParse>>

\* save_revoked_certs: the entries and the checkpoint of EVERY url whose
\* last_hash is this file's hash commit together.
SaveRevokedCerts(u) ==
    /\ Settle(u)
    /\ revoked' = revoked \cup Entries[cache[u]]
    /\ parsedHash' = [v \in Urls |->
            IF lastHash[v] = cache[u] THEN cache[u] ELSE parsedHash[v]]
    /\ UNCHANGED <<lastHash, failedParse>>

\* The parser, the pool or the transaction fails; nothing is committed.
ParseOrSaveFails(u) ==
    /\ Settle(u)
    /\ failedParse' = failedParse \cup {u}
    /\ UNCHANGED database

FinishRun ==
    /\ phase = "parsing"
    /\ pending = {}
    /\ phase' = "done"
    /\ UNCHANGED <<cache, database, downloads, parsing>>

----------------------------------------------------------------------------

GroupStep(g) ==
    TakeGroup(g) \/ GroupSucceeds(g) \/ GroupTriesNextMirror(g) \/ GroupFails(g)

DownloadStep(u) ==
    \/ StartFetch(u)
    \/ \E content \in Contents : Respond(u, content)
    \/ WriteFile(u)
    \/ RecordNewFile(u)
    \/ RecordSameFile(u)
    \/ CheckCheckpoint(u)
    \/ RetryFetch(u)
    \/ FetchFails(u)
    \/ StoreFails(u)

ParseStep(u) == SaveRevokedCerts(u) \/ ParseOrSaveFails(u)

Next ==
    \/ StartRun \/ Crash \/ LoseCache \/ LoseDatabase
    \/ \E g \in GroupIds : GroupStep(g)
    \/ \E u \in Urls : DownloadStep(u) \/ ParseStep(u)
    \/ StartParsing \/ FinishRun

Spec == Init /\ [][Next]_vars

(***************************************************************************)
(* Fairness: every request ends (each has a 30 s timeout and a bounded     *)
(* number of attempts), the event loop runs every ready coroutine, and the *)
(* process pool finishes every file.                                       *)
(***************************************************************************)
Fairness ==
    /\ \A g \in GroupIds : WF_vars(GroupStep(g))
    /\ \A u \in Urls : WF_vars(DownloadStep(u)) /\ WF_vars(ParseStep(u))
    /\ WF_vars(StartParsing) /\ WF_vars(FinishRun)

FairSpec == Spec /\ Fairness

(***************************************************************************)
(* Properties                                                              *)
(***************************************************************************)

TypeOK ==
    /\ cache \in [Urls -> MaybeContent]
    /\ lastHash \in [Urls -> MaybeContent]
    /\ parsedHash \in [Urls -> MaybeContent]
    /\ revoked \in SUBSET Certs
    /\ phase \in Phases
    /\ task \in [Urls -> TaskStates]
    /\ attempt \in [Urls -> 0..MaxRetries]
    /\ body \in [Urls -> MaybeContent]
    /\ group \in [GroupIds -> GroupStates]
    /\ cursor \in [GroupIds -> Nat]
    /\ \A g \in GroupIds : cursor[g] <= Len(Groups[g])
    /\ unsubmitted \in SUBSET Urls
    /\ pending \in SUBSET Urls
    /\ failedParse \in SUBSET Urls

(***************************************************************************)
(* A parse checkpoint is never ahead of the data it vouches for: every     *)
(* entry of a CRL recorded as parsed for some URL is in revoked_certs,     *)
(* whatever was killed, swallowed or lost in between, and although         *)
(* save_revoked_certs sets the checkpoint of other URLs too.               *)
(***************************************************************************)
CheckpointCommitted ==
    \A u \in Urls :
        parsedHash[u] # NoContent => Entries[parsedHash[u]] \subseteq revoked

(***************************************************************************)
(* When crl_sync_only returns, every file it downloaded, or found          *)
(* unchanged, has its entries in the database, except the files it counted *)
(* in crl_parse_errors.  A crash of an earlier run between the file and    *)
(* the commit must not turn into a silently skipped CRL.                   *)
(***************************************************************************)
CompletedRunIsDurable ==
    phase = "done" =>
        \A u \in Downloaded \ failedParse : Entries[cache[u]] \subseteq revoked

(***************************************************************************)
(* _download_crl_group: a mirror is requested only on behalf of a group    *)
(* whose earlier mirrors all failed, and a group fails only when all of    *)
(* its mirrors did, also when groups share mirrors in different orders.    *)
(* What a group was told of a URL stays true: no other group has the URL   *)
(* downloaded a second time, and its file replaced.                        *)
(***************************************************************************)
MirrorsInOrder ==
    /\ \A g \in GroupIds :
          /\ \A i \in 1..(cursor[g] - 1) : task[Groups[g][i]] = "failed"
          /\ group[g] = "failed" =>
                \A i \in DOMAIN Groups[g] : task[Groups[g][i]] = "failed"
          /\ group[g] = "ok" => task[Mirror(g)] \in {"updated", "unchanged"}
    /\ \A u \in Urls : task[u] # "absent" =>
          \E g \in GroupIds : \E i \in 1..cursor[g] : Groups[g][i] = u

(***************************************************************************)
(* Every started CRL stage ends: no group waits for a task nobody runs and *)
(* no file is left in the pool's queue.                                    *)
(***************************************************************************)
RunEnds == ~Stopped ~> Stopped
=============================================================================
