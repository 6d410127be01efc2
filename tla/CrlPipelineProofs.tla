------------------------- MODULE CrlPipelineProofs --------------------------
(***************************************************************************)
(* CheckpointCommitted and CompletedRunIsDurable for any scope, any CRLs   *)
(* and any limits.  Neither is inductive: what a finished run owes to the  *)
(* files it skipped rests on what each download task knew when it ended.   *)
(***************************************************************************)
EXTENDS CrlPipeline, FiniteSetTheorems, TLAPS

Skippable(u) == Entries[cache[u]] \subseteq revoked

\* What a download task has established about its file, by its state.
TaskInv ==
    \A u \in Urls :
        /\ task[u] \in Synchronous => body[u] \in Contents
        /\ task[u] \in {"same", "written", "checked"} => cache[u] = body[u]
        /\ task[u] \in {"updated", "unchanged"} => cache[u] \in Contents
        /\ task[u] = "unchanged" => Skippable(u)

\* A group awaits one of its mirrors, and succeeded by a task that did.
GroupInv ==
    \A g \in GroupIds :
        /\ group[g] \in {"active", "ok"} => cursor[g] \in 1..Len(Groups[g])
        /\ group[g] = "ok" => task[Mirror(g)] \in {"updated", "unchanged"}

\* Every downloaded file is queued, in the pool, failed, or committed.
ParseInv ==
    /\ unsubmitted \cup pending \subseteq {u \in Urls : task[u] = "updated"}
    /\ phase \in {"parsing", "done"} =>
          \A u \in Downloaded :
              u \in unsubmitted \cup pending \cup failedParse \/ Skippable(u)
    /\ phase \in {"parsing", "done"} /\ pending = {} => unsubmitted = {}
    /\ phase = "done" => pending = {}

IInv == TypeOK /\ CheckpointCommitted /\ TaskInv /\ GroupInv /\ ParseInv

LEMMA MirrorIsUrl ==
    ASSUME NEW g \in GroupIds, NEW i \in 1..Len(Groups[g])
    PROVE  Groups[g][i] \in Urls
  BY ScopeIsGrouped DEF GroupIds

LEMMA FirstMirror ==
    ASSUME NEW g \in GroupIds
    PROVE  1 \in 1..Len(Groups[g]) /\ Len(Groups[g]) \in Nat
  BY ScopeIsGrouped DEF GroupIds

LEMMA DownloadedAreUrls == GroupInv => Downloaded \subseteq Urls
  BY MirrorIsUrl DEF GroupInv, Downloaded, Mirror

LEMMA InitEstablishes == Init => IInv
  <1> SUFFICES ASSUME Init PROVE IInv
    OBVIOUS
  <1> USE DEF Init, NoRun, NoHash
  <1>1. TypeOK
    BY FirstMirror, Limits DEF TypeOK, MaybeContent, Phases, TaskStates, GroupStates
  <1>2. CheckpointCommitted
    BY DEF CheckpointCommitted
  <1>3. TaskInv
    BY DEF TaskInv, Synchronous
  <1>4. GroupInv
    BY DEF GroupInv
  <1>5. ParseInv
    BY DEF ParseInv
  <1> QED
    BY <1>1, <1>2, <1>3, <1>4, <1>5 DEF IInv

\* A new run, a crash, a new machine and a new database all forget the run.
LEMMA ForgetStep ==
    ASSUME IInv, StartRun \/ Crash \/ LoseCache \/ LoseDatabase
    PROVE  IInv'
  <1>1. ClearRun /\ phase' \in {"idle", "downloading"}
    BY DEF StartRun, Crash, LoseCache, LoseDatabase
  <1>2. /\ cache' \in [Urls -> MaybeContent]
        /\ \/ UNCHANGED database
           \/ lastHash' = NoHash /\ parsedHash' = NoHash /\ revoked' = {}
    BY DEF StartRun, Crash, LoseCache, LoseDatabase, IInv, TypeOK, NoHash,
           MaybeContent, database
  <1>3. TypeOK'
    BY <1>1, <1>2, FirstMirror, Limits DEF IInv, TypeOK, ClearRun, NoHash, MaybeContent,
       Phases, TaskStates, GroupStates, database
  <1>4. CheckpointCommitted'
    BY <1>2 DEF IInv, CheckpointCommitted, NoHash, database
  <1>5. TaskInv'
    BY <1>1 DEF TaskInv, ClearRun, Synchronous
  <1>6. GroupInv'
    BY <1>1 DEF GroupInv, ClearRun
  <1>7. ParseInv'
    BY <1>1 DEF ParseInv, ClearRun
  <1> QED
    BY <1>3, <1>4, <1>5, <1>6, <1>7 DEF IInv

\* Group workers create tasks and follow their results; they store nothing.
LEMMA GroupStepKeeps ==
    ASSUME IInv, NEW g \in GroupIds, GroupStep(g)
    PROVE  IInv'
  <1> DEFINE i == cursor[g] + 1
  <1>1. /\ UNCHANGED <<cache, database, phase, attempt, body, parsing>>
        /\ phase = "downloading"
    BY DEF GroupStep, TakeGroup, GroupSucceeds, GroupTriesNextMirror,
           GroupFails, AwaitedBy
  <1>2. /\ task' \in [Urls -> TaskStates]
        /\ \A u \in Urls : task'[u] # task[u] =>
              task[u] = "absent" /\ task'[u] = "queued"
    BY DEF GroupStep, TakeGroup, GroupSucceeds, GroupTriesNextMirror,
           GroupFails, Request, IInv, TypeOK, TaskStates
  <1>3. /\ group' \in [GroupIds -> GroupStates]
        /\ cursor' \in [GroupIds -> Nat]
        /\ \A h \in GroupIds \ {g} : group'[h] = group[h] /\ cursor'[h] = cursor[h]
    <2> USE DEF IInv, TypeOK, GroupStates
    <2>1. CASE TakeGroup(g)
      BY <2>1 DEF TakeGroup
    <2>2. CASE GroupSucceeds(g)
      BY <2>2 DEF GroupSucceeds
    <2>3. CASE GroupTriesNextMirror(g)
      BY <2>3 DEF GroupTriesNextMirror
    <2>4. CASE GroupFails(g)
      BY <2>4 DEF GroupFails
    <2> QED
      BY <2>1, <2>2, <2>3, <2>4 DEF GroupStep
  <1>4. /\ cursor'[g] <= Len(Groups[g])
        /\ group'[g] \in {"active", "ok"} => cursor'[g] \in 1..Len(Groups[g])
        /\ group'[g] = "ok" =>
              task'[Groups[g][cursor'[g]]] \in {"updated", "unchanged"}
    <2>1. CASE TakeGroup(g)
      BY <2>1, FirstMirror DEF TakeGroup, IInv, TypeOK
    <2>2. CASE GroupSucceeds(g)
      BY <2>2, FirstMirror DEF GroupSucceeds, AwaitedBy, Finished, Mirror, IInv,
                               TypeOK, GroupInv
    <2>3. CASE GroupTriesNextMirror(g)
      BY <2>3, FirstMirror DEF GroupTriesNextMirror, AwaitedBy, IInv, TypeOK,
                               GroupInv
    <2>4. CASE GroupFails(g)
      BY <2>4, FirstMirror DEF GroupFails, AwaitedBy, IInv, TypeOK, GroupInv
    <2> QED
      BY <2>1, <2>2, <2>3, <2>4 DEF GroupStep
  <1>5. TypeOK'
    BY <1>1, <1>2, <1>3, <1>4 DEF IInv, TypeOK, database, parsing
  <1>6. CheckpointCommitted'
    BY <1>1 DEF IInv, CheckpointCommitted, database
  <1>7. TaskInv'
    BY <1>1, <1>2 DEF IInv, TaskInv, Synchronous, Skippable, database
  <1>8. GroupInv'
    <2> SUFFICES ASSUME NEW h \in GroupIds
                 PROVE  /\ group'[h] \in {"active", "ok"} =>
                              cursor'[h] \in 1..Len(Groups[h])
                        /\ group'[h] = "ok" =>
                              task'[Groups[h][cursor'[h]]] \in {"updated", "unchanged"}
      BY DEF GroupInv, Mirror
    <2>1. CASE h = g
      BY <1>4, <2>1
    <2>2. CASE h # g
      BY <1>2, <1>3, <2>2, MirrorIsUrl DEF IInv, GroupInv, Mirror
    <2> QED
      BY <2>1, <2>2
  <1>9. ParseInv'
    BY <1>1, <1>2 DEF IInv, ParseInv, parsing, TypeOK
  <1> QED
    BY <1>5, <1>6, <1>7, <1>8, <1>9 DEF IInv

\* A download task writes its file, then records it, then looks for a
\* checkpoint; only its own task state changes, and no revocation.
LEMMA DownloadStepKeeps ==
    ASSUME IInv, NEW u \in Urls, DownloadStep(u)
    PROVE  IInv'
  <1>1. /\ phase = "downloading" /\ UNCHANGED <<phase, group, cursor, parsing>>
        /\ UNCHANGED <<parsedHash, revoked>>
        /\ task[u] \notin Finished
        /\ \E to \in TaskStates : task' = [task EXCEPT ![u] = to]
    BY DEF DownloadStep, StartFetch, Respond, WriteFile, RecordNewFile,
           RecordSameFile, CheckCheckpoint, RetryFetch, FetchFails, StoreFails,
           TaskStep, TaskEnds, RecordCrlSuccess, TaskStates, Synchronous,
           Finished, database
  <1>2. TypeOK'
    <2>1. attempt' \in [Urls -> 0..MaxRetries]
      <3>1. \/ attempt' = attempt
            \/ attempt' = [attempt EXCEPT ![u] = 0]
            \/ attempt' = [attempt EXCEPT ![u] = 1]
            \/ /\ attempt[u] < MaxRetries
               /\ attempt' = [attempt EXCEPT ![u] = @ + 1]
        BY DEF DownloadStep, StartFetch, Respond, WriteFile, RecordNewFile,
           RecordSameFile, CheckCheckpoint, RetryFetch, FetchFails, StoreFails,
           TaskStep, TaskEnds
      <3>2. attempt \in [Urls -> 0..MaxRetries] /\ 0 \in 0..MaxRetries
            /\ 1 \in 0..MaxRetries
        BY Limits DEF IInv, TypeOK
      <3>3. attempt[u] < MaxRetries => attempt[u] + 1 \in 0..MaxRetries
        BY <3>2, Limits
      <3> QED
        BY <3>1, <3>2, <3>3
    <2>2. body' \in [Urls -> MaybeContent]
      BY DEF DownloadStep, StartFetch, Respond, WriteFile, RecordNewFile,
           RecordSameFile, CheckCheckpoint, RetryFetch, FetchFails, StoreFails,
           TaskStep, TaskEnds, IInv, TypeOK, MaybeContent
    <2>3. cache' \in [Urls -> MaybeContent]
      BY DEF DownloadStep, StartFetch, Respond, WriteFile, RecordNewFile,
           RecordSameFile, CheckCheckpoint, RetryFetch, FetchFails, StoreFails,
           TaskStep, TaskEnds, RecordCrlSuccess, IInv, TypeOK
    <2>4. lastHash' \in [Urls -> MaybeContent]
      BY DEF DownloadStep, StartFetch, Respond, WriteFile, RecordNewFile,
           RecordSameFile, CheckCheckpoint, RetryFetch, FetchFails, StoreFails,
           TaskStep, TaskEnds, RecordCrlSuccess, IInv, TypeOK, database
    <2> QED
      BY <1>1, <2>1, <2>2, <2>3, <2>4 DEF IInv, TypeOK, parsing
  <1>3. CheckpointCommitted'
    BY <1>1 DEF IInv, CheckpointCommitted
  <1>4. TaskInv'
    <2> SUFFICES ASSUME NEW v \in Urls
                 PROVE  /\ task'[v] \in Synchronous => body'[v] \in Contents
                        /\ task'[v] \in {"same", "written", "checked"} =>
                              cache'[v] = body'[v]
                        /\ task'[v] \in {"updated", "unchanged"} =>
                              cache'[v] \in Contents
                        /\ task'[v] = "unchanged" => Skippable(v)'
      BY DEF TaskInv
    <2>1. CASE v # u
      <3>1. task'[v] = task[v] /\ cache'[v] = cache[v] /\ body'[v] = body[v]
        BY <2>1 DEF DownloadStep, StartFetch, Respond, WriteFile, RecordNewFile,
           RecordSameFile, CheckCheckpoint, RetryFetch, FetchFails, StoreFails,
           TaskStep, TaskEnds, RecordCrlSuccess, IInv, TypeOK
      <3> QED
        BY <1>1, <3>1 DEF IInv, TaskInv, Skippable
    <2>2. CASE v = u
      <3> USE DEF TaskStep, TaskEnds, IInv, TypeOK, TaskInv, Synchronous, Skippable
      <3>1. CASE StartFetch(u)
        BY <2>2, <3>1 DEF StartFetch
      <3>2. CASE \E content \in Contents : Respond(u, content)
        BY <2>2, <3>2 DEF Respond
      <3>3. CASE WriteFile(u)
        BY <2>2, <3>3 DEF WriteFile
      <3>4. CASE RecordNewFile(u)
        BY <2>2, <3>4 DEF RecordNewFile, RecordCrlSuccess
      <3>5. CASE RecordSameFile(u)
        BY <2>2, <3>5 DEF RecordSameFile, RecordCrlSuccess
      <3>6. CASE CheckCheckpoint(u)
        <4>1. /\ task[u] = "checked" /\ body[u] \in Contents /\ cache[u] = body[u]
              /\ UNCHANGED <<cache, revoked>>
              /\ task'[u] \in {"updated", "unchanged"}
              /\ task'[u] = "unchanged" => parsedHash[u] = body[u]
          BY <3>6 DEF CheckCheckpoint, CrlNeedsParsing, database
        <4>2. parsedHash[u] = body[u] => Skippable(u)
          BY <4>1, EntriesOfContents DEF CheckpointCommitted
        <4> QED
          BY <2>2, <4>1, <4>2
      <3>7. CASE RetryFetch(u)
        BY <2>2, <3>7 DEF RetryFetch
      <3>8. CASE FetchFails(u)
        BY <2>2, <3>8 DEF FetchFails
      <3>9. CASE StoreFails(u)
        BY <2>2, <3>9 DEF StoreFails
      <3> QED
        BY <3>1, <3>2, <3>3, <3>4, <3>5, <3>6, <3>7, <3>8, <3>9 DEF DownloadStep
    <2> QED
      BY <2>1, <2>2
  <1>5. GroupInv'
    <2> SUFFICES ASSUME NEW g \in GroupIds
                 PROVE  /\ group'[g] \in {"active", "ok"} =>
                              cursor'[g] \in 1..Len(Groups[g])
                        /\ group'[g] = "ok" =>
                              task'[Groups[g][cursor'[g]]] \in {"updated", "unchanged"}
      BY DEF GroupInv, Mirror
    <2>1. group[g] = "ok" => Mirror(g) \in Urls /\ Mirror(g) # u
      BY <1>1, MirrorIsUrl DEF IInv, GroupInv, Mirror, Finished
    <2> QED
      BY <1>1, <2>1 DEF IInv, TypeOK, GroupInv, Mirror
  <1>6. ParseInv'
    BY <1>1 DEF IInv, TypeOK, ParseInv, parsing, Finished
  <1> QED
    BY <1>2, <1>3, <1>4, <1>5, <1>6 DEF IInv

\* A batch that is not everything is a full, and so a nonempty, pool.
LEMMA StartParsingKeeps ==
    ASSUME IInv, StartParsing
    PROVE  IInv'
  <1>1. /\ UNCHANGED <<cache, database, downloads>> /\ phase' = "parsing"
        /\ Downloaded' = Downloaded /\ Downloaded \subseteq Urls
        /\ failedParse' = {}
    BY DownloadedAreUrls
    DEF StartParsing, downloads, Downloaded, Mirror, IInv
  <1>2. PICK batch \in SUBSET UpdatedFiles :
           /\ batch = UpdatedFiles \/ Cardinality(batch) = MaxPending
           /\ pending' = batch
           /\ unsubmitted' = UpdatedFiles \ batch
    BY DEF StartParsing
  <1>3. batch = {} => UpdatedFiles = {}
    BY <1>2, Limits, FS_EmptySet
  <1>4. UpdatedFiles \subseteq {u \in Urls : task[u] = "updated"}
    BY <1>1 DEF UpdatedFiles
  <1>5. TypeOK'
    BY <1>1, <1>2, <1>4 DEF IInv, TypeOK, Phases, database, downloads
  <1>6. CheckpointCommitted' /\ TaskInv' /\ GroupInv'
    BY <1>1 DEF IInv, CheckpointCommitted, TaskInv, GroupInv, Skippable, Mirror,
                database, downloads
  <1>7. ParseInv'
    <2>1. ASSUME NEW u \in Downloaded
          PROVE  u \in UpdatedFiles \/ Skippable(u)
      BY <1>1 DEF IInv, TaskInv, GroupInv, Downloaded, UpdatedFiles
    <2>2. \A u \in Urls : Skippable(u)' <=> Skippable(u)
      BY <1>1 DEF Skippable, database
    <2> QED
      BY <1>1, <1>2, <1>3, <1>4, <2>1, <2>2 DEF ParseInv, downloads
  <1> QED
    BY <1>5, <1>6, <1>7 DEF IInv

\* pending loses a file and gains at most one that was not submitted.
LEMMA SettleMoves ==
    ASSUME IInv, NEW u \in Urls, Settle(u)
    PROVE  /\ phase = "parsing" /\ u \in pending /\ task[u] = "updated"
           /\ cache[u] \in Contents
           /\ UNCHANGED <<cache, phase, downloads>>
           /\ Downloaded' = Downloaded /\ Downloaded \subseteq Urls
           /\ unsubmitted' \cup pending' \subseteq unsubmitted \cup pending
           /\ (unsubmitted \cup pending) \ {u} \subseteq unsubmitted' \cup pending'
           /\ pending' = {} => unsubmitted' = {}
  <1>1. /\ phase = "parsing" /\ u \in pending
        /\ UNCHANGED <<cache, phase, downloads>>
    BY DEF Settle
  <1>2. task[u] = "updated" /\ cache[u] \in Contents
    BY <1>1 DEF IInv, ParseInv, TaskInv
  <1>3. Downloaded' = Downloaded /\ Downloaded \subseteq Urls
    BY <1>1, DownloadedAreUrls DEF downloads, Downloaded, Mirror, IInv
  <1>4. CASE unsubmitted = {} /\ pending' = pending \ {u} /\ UNCHANGED unsubmitted
    BY <1>1, <1>2, <1>3, <1>4
  <1>5. CASE \E v \in unsubmitted :
               /\ pending' = (pending \ {u}) \cup {v}
               /\ unsubmitted' = unsubmitted \ {v}
    BY <1>1, <1>2, <1>3, <1>5
  <1> QED
    BY <1>4, <1>5 DEF Settle

\* A commit adds exactly the entries its checkpoint vouches for.
LEMMA SaveKeeps ==
    ASSUME IInv, NEW u \in Urls, SaveRevokedCerts(u)
    PROVE  IInv'
  <1>1. /\ Settle(u)
        /\ revoked' = revoked \cup Entries[cache[u]]
        /\ parsedHash' = [v \in Urls |->
                IF lastHash[v] = cache[u] THEN cache[u] ELSE parsedHash[v]]
        /\ UNCHANGED <<lastHash, failedParse>>
    BY DEF SaveRevokedCerts
  <1>2. /\ cache[u] \in Contents /\ Entries[cache[u]] \subseteq Certs
        /\ UNCHANGED <<cache, phase, downloads>>
    BY <1>1, SettleMoves, EntriesOfContents
  <1>3. TypeOK'
    BY <1>1, <1>2, SettleMoves
    DEF IInv, TypeOK, ParseInv, MaybeContent, downloads
  <1>4. CheckpointCommitted'
    BY <1>1, <1>2 DEF IInv, TypeOK, CheckpointCommitted
  <1>5. TaskInv'
    BY <1>1, <1>2 DEF IInv, TaskInv, Skippable, downloads
  <1>6. GroupInv'
    BY <1>2 DEF IInv, GroupInv, Mirror, downloads
  <1>7. ParseInv'
    <2>1. Skippable(u)' /\ \A v \in Urls : Skippable(v) => Skippable(v)'
      BY <1>1, <1>2 DEF Skippable
    <2> QED
      BY <1>1, <1>2, <2>1, SettleMoves DEF IInv, ParseInv, downloads
  <1> QED
    BY <1>3, <1>4, <1>5, <1>6, <1>7 DEF IInv

LEMMA ParseFailureKeeps ==
    ASSUME IInv, NEW u \in Urls, ParseOrSaveFails(u)
    PROVE  IInv'
  <1>1. /\ Settle(u) /\ UNCHANGED database
        /\ failedParse' = failedParse \cup {u}
    BY DEF ParseOrSaveFails
  <1>2. UNCHANGED <<cache, phase, downloads>>
    BY <1>1, SettleMoves
  <1>3. TypeOK'
    BY <1>1, <1>2, SettleMoves DEF IInv, TypeOK, ParseInv, downloads, database
  <1>4. CheckpointCommitted' /\ TaskInv' /\ GroupInv'
    BY <1>1, <1>2 DEF IInv, CheckpointCommitted, TaskInv, GroupInv, Skippable,
                      Mirror, downloads, database
  <1>5. ParseInv'
    <2>1. \A v \in Urls : Skippable(v)' <=> Skippable(v)
      BY <1>1, <1>2 DEF Skippable, database
    <2> QED
      BY <1>1, <1>2, <2>1, SettleMoves DEF IInv, ParseInv, downloads
  <1> QED
    BY <1>3, <1>4, <1>5 DEF IInv

LEMMA Invariance == IInv /\ [Next]_vars => IInv'
  <1> SUFFICES ASSUME IInv, [Next]_vars PROVE IInv'
    OBVIOUS
  <1>1. CASE StartRun \/ Crash \/ LoseCache \/ LoseDatabase
    BY <1>1, ForgetStep
  <1>2. CASE \E g \in GroupIds : GroupStep(g)
    BY <1>2, GroupStepKeeps
  <1>3. CASE \E u \in Urls : DownloadStep(u) \/ ParseStep(u)
    BY <1>3, DownloadStepKeeps, SaveKeeps, ParseFailureKeeps DEF ParseStep
  <1>4. CASE StartParsing
    BY <1>4, StartParsingKeeps
  <1>5. CASE FinishRun
    <2> USE <1>5 DEF FinishRun, database, downloads, parsing
    <2>1. TypeOK' /\ CheckpointCommitted'
      BY DEF IInv, TypeOK, Phases, CheckpointCommitted
    <2>2. TaskInv' /\ GroupInv'
      BY DEF IInv, TaskInv, GroupInv, Skippable, Mirror
    <2>3. Downloaded' = Downloaded /\ (\A u : Skippable(u)' <=> Skippable(u))
      BY DEF Downloaded, Mirror, Skippable
    <2>4. ParseInv'
      BY <2>3 DEF IInv, ParseInv
    <2> QED
      BY <2>1, <2>2, <2>4 DEF IInv
  <1>6. CASE UNCHANGED vars
    <2> USE <1>6 DEF vars, database, downloads, parsing
    <2>1. TypeOK' /\ CheckpointCommitted'
      BY DEF IInv, TypeOK, CheckpointCommitted
    <2>2. TaskInv' /\ GroupInv'
      BY DEF IInv, TaskInv, GroupInv, Skippable, Mirror
    <2>3. Downloaded' = Downloaded /\ (\A u : Skippable(u)' <=> Skippable(u))
      BY DEF Downloaded, Mirror, Skippable
    <2>4. ParseInv'
      BY <2>3 DEF IInv, ParseInv
    <2> QED
      BY <2>1, <2>2, <2>4 DEF IInv
  <1> QED
    BY <1>1, <1>2, <1>3, <1>4, <1>5, <1>6 DEF Next

(***************************************************************************)
(* The types of the tables, of the cache and of the run in progress.       *)
(***************************************************************************)
THEOREM CrlTypeCorrect == Spec => []TypeOK
  <1>1. IInv => TypeOK
    BY DEF IInv
  <1> QED
    BY <1>1, InitEstablishes, Invariance, PTL DEF Spec

(***************************************************************************)
(* No checkpoint in crl_status ever vouches for a CRL whose entries are    *)
(* not in revoked_certs, through crashes, swallowed database errors and    *)
(* the loss of the cache or the database.                                  *)
(***************************************************************************)
THEOREM CheckpointsAreCommitted == Spec => []CheckpointCommitted
  <1>1. IInv => CheckpointCommitted
    BY DEF IInv
  <1> QED
    BY <1>1, InitEstablishes, Invariance, PTL DEF Spec

(***************************************************************************)
(* A CRL stage that returns has in the database every entry of every file  *)
(* it downloaded or skipped as unchanged, except the files it reports as   *)
(* parse errors.                                                           *)
(***************************************************************************)
THEOREM CompletedRunsAreDurable == Spec => []CompletedRunIsDurable
  <1>1. IInv => CompletedRunIsDurable
    BY DEF IInv, ParseInv, CompletedRunIsDurable, Skippable
  <1> QED
    BY <1>1, InitEstablishes, Invariance, PTL DEF Spec

----------------------------------------------------------------------------
(* Mirrors *)

OrderInv == MirrorsInOrder /\ \A g \in GroupIds : group[g] = "waiting" => cursor[g] = 0

\* Tasks that ended stay as they are, requested ones are never forgotten.
LEMMA TasksSettle ==
    ASSUME IInv, NEW u \in Urls, DownloadStep(u)
    PROVE  /\ UNCHANGED <<group, cursor>>
           /\ \A v \in Urls : task[v] \in Finished => task'[v] = task[v]
           /\ \A v \in Urls : task'[v] # "absent" => task[v] # "absent"
  <1>1. /\ UNCHANGED <<group, cursor>>
        /\ task[u] \notin Finished /\ task[u] # "absent"
        /\ \E to \in TaskStates : task' = [task EXCEPT ![u] = to]
    BY DEF DownloadStep, StartFetch, Respond, WriteFile, RecordNewFile,
           RecordSameFile, CheckCheckpoint, RetryFetch, FetchFails, StoreFails,
           TaskStep, TaskEnds, TaskStates, Synchronous, Finished
  <1> QED
    BY <1>1 DEF IInv, TypeOK

\* A group moves on from a mirror only after its task failed.
LEMMA GroupKeepsOrder ==
    ASSUME IInv, OrderInv, NEW g \in GroupIds, GroupStep(g)
    PROVE  OrderInv'
  <1>1. /\ cursor' \in [GroupIds -> Nat] /\ cursor \in [GroupIds -> Nat]
        /\ \A h \in GroupIds \ {g} : group'[h] = group[h] /\ cursor'[h] = cursor[h]
        /\ cursor[g] <= cursor'[g] /\ group'[g] # "waiting"
        /\ Len(Groups[g]) \in Nat \ {0}
    <2> USE FirstMirror DEF IInv, TypeOK, OrderInv
    <2>1. CASE TakeGroup(g)
      BY <2>1 DEF TakeGroup
    <2>2. CASE GroupSucceeds(g)
      BY <2>2 DEF GroupSucceeds
    <2>3. CASE GroupTriesNextMirror(g)
      BY <2>3 DEF GroupTriesNextMirror, AwaitedBy
    <2>4. CASE GroupFails(g)
      BY <2>4 DEF GroupFails
    <2> QED
      BY <2>1, <2>2, <2>3, <2>4 DEF GroupStep
  <1>2. \A u \in Urls : task[u] # "absent" => task'[u] = task[u]
    BY DEF GroupStep, TakeGroup, GroupSucceeds, GroupTriesNextMirror,
           GroupFails, Request, IInv, TypeOK
  <1>3. /\ \A i \in 1..(cursor'[g] - 1) : task'[Groups[g][i]] = "failed"
        /\ group'[g] = "failed" =>
              \A i \in DOMAIN Groups[g] : task'[Groups[g][i]] = "failed"
        /\ group'[g] = "ok" => task'[Mirror(g)'] \in {"updated", "unchanged"}
    <2>1. CASE TakeGroup(g)
      BY <2>1, <1>1 DEF TakeGroup, IInv, TypeOK
    <2>2. CASE GroupSucceeds(g)
      BY <2>2 DEF GroupSucceeds, AwaitedBy, Finished, Mirror, IInv, TypeOK,
                  OrderInv, MirrorsInOrder
    <2>3. CASE GroupTriesNextMirror(g)
      <3>1. /\ cursor[g] \in 1..Len(Groups[g]) /\ cursor'[g] = cursor[g] + 1
            /\ task[Groups[g][cursor[g]]] = "failed" /\ group'[g] = "active"
        BY <2>3, <1>1 DEF GroupTriesNextMirror, AwaitedBy, Mirror, IInv, TypeOK, GroupInv
      <3>2. ASSUME NEW i \in 1..cursor[g]
            PROVE  task'[Groups[g][i]] = "failed"
        <4>1. i \in 1..Len(Groups[g])
          BY <1>1, <3>1
        <4>2. task[Groups[g][i]] = "failed"
          BY <1>1, <3>1 DEF OrderInv, MirrorsInOrder
        <4> QED
          BY <1>2, <4>1, <4>2, MirrorIsUrl
      <3> QED
        BY <1>1, <3>1, <3>2
    <2>4. CASE GroupFails(g)
      <3>1. /\ cursor[g] = Len(Groups[g]) /\ task' = task /\ cursor' = cursor
            /\ task[Groups[g][Len(Groups[g])]] = "failed" /\ group'[g] = "failed"
        BY <2>4 DEF GroupFails, AwaitedBy, Mirror, IInv, TypeOK
      <3>2. DOMAIN Groups[g] = 1..Len(Groups[g])
        BY ScopeIsGrouped DEF GroupIds
      <3> QED
        BY <1>1, <3>1, <3>2 DEF OrderInv, MirrorsInOrder
    <2> QED
      BY <2>1, <2>2, <2>3, <2>4 DEF GroupStep
  <1>4. ASSUME NEW h \in GroupIds, h # g
        PROVE  /\ \A i \in 1..(cursor'[h] - 1) : task'[Groups[h][i]] = "failed"
               /\ group'[h] = "failed" =>
                     \A i \in DOMAIN Groups[h] : task'[Groups[h][i]] = "failed"
               /\ group'[h] = "ok" => task'[Mirror(h)'] \in {"updated", "unchanged"}
    <2>1. /\ DOMAIN Groups[h] = 1..Len(Groups[h]) /\ cursor[h] <= Len(Groups[h])
          /\ Len(Groups[h]) \in Nat /\ cursor[h] \in Nat
      BY ScopeIsGrouped DEF GroupIds, IInv, TypeOK
    <2>2. \A i \in 1..Len(Groups[h]) : Groups[h][i] \in Urls
      BY MirrorIsUrl
    <2>3. cursor'[h] = cursor[h] /\ group'[h] = group[h]
      BY <1>1, <1>4
    <2>4. \A i \in 1..(cursor[h] - 1) : task'[Groups[h][i]] = "failed"
      BY <1>2, <2>1, <2>2 DEF OrderInv, MirrorsInOrder
    <2>5. group[h] = "failed" =>
             \A i \in DOMAIN Groups[h] : task'[Groups[h][i]] = "failed"
      BY <1>2, <2>1, <2>2 DEF OrderInv, MirrorsInOrder
    <2>6. group[h] = "ok" => task'[Mirror(h)] \in {"updated", "unchanged"}
      BY <1>2, <2>1, <2>2 DEF OrderInv, MirrorsInOrder, Mirror, IInv, GroupInv
    <2> QED
      BY <2>3, <2>4, <2>5, <2>6 DEF Mirror
  <1>5. ASSUME NEW u \in Urls, task'[u] # "absent"
        PROVE  \E h \in GroupIds : \E i \in 1..cursor'[h] : Groups[h][i] = u
    <2>1. CASE task[u] # "absent"
      <3>1. PICK h \in GroupIds : \E i \in 1..cursor[h] : Groups[h][i] = u
        BY <2>1 DEF OrderInv, MirrorsInOrder
      <3> QED
        BY <1>1, <3>1
    <2>2. CASE task[u] = "absent"
      <3>1. /\ cursor'[g] \in 1..cursor'[g]
            /\ Groups[g][cursor'[g]] = u
        BY <1>1, <1>5, <2>2 DEF GroupStep, TakeGroup, GroupSucceeds, GroupTriesNextMirror,
           GroupFails, Request, IInv, TypeOK
      <3> QED
        BY <3>1
    <2> QED
      BY <2>1, <2>2
  <1> QED
    BY <1>1, <1>3, <1>4, <1>5 DEF OrderInv, MirrorsInOrder

LEMMA OrderKept == IInv /\ OrderInv /\ [Next]_vars => OrderInv'
  <1> SUFFICES ASSUME IInv, OrderInv, [Next]_vars PROVE OrderInv'
    OBVIOUS
  <1>1. CASE StartRun \/ Crash \/ LoseCache \/ LoseDatabase
    BY <1>1 DEF StartRun, Crash, LoseCache, LoseDatabase, ClearRun, OrderInv, MirrorsInOrder
  <1>2. CASE \E g \in GroupIds : GroupStep(g)
    BY <1>2, GroupKeepsOrder
  <1>3. ASSUME NEW u \in Urls, DownloadStep(u)
        PROVE  OrderInv'
    <2>1. /\ UNCHANGED <<group, cursor>>
          /\ \A v \in Urls : task[v] \in Finished => task'[v] = task[v]
          /\ \A v \in Urls : task'[v] # "absent" => task[v] # "absent"
      BY <1>3, TasksSettle
    <2>2. ASSUME NEW g \in GroupIds
          PROVE  /\ DOMAIN Groups[g] = 1..Len(Groups[g]) /\ cursor[g] <= Len(Groups[g])
                 /\ Len(Groups[g]) \in Nat /\ cursor[g] \in Nat
                 /\ \A i \in 1..Len(Groups[g]) : Groups[g][i] \in Urls
                 /\ group[g] = "ok" => Mirror(g) \in Urls
      BY ScopeIsGrouped, MirrorIsUrl DEF GroupIds, IInv, TypeOK, GroupInv, Mirror
    <2>3. ASSUME NEW g \in GroupIds
          PROVE  /\ \A i \in 1..(cursor[g] - 1) : task'[Groups[g][i]] = "failed"
                 /\ group[g] = "failed" =>
                       \A i \in DOMAIN Groups[g] : task'[Groups[g][i]] = "failed"
                 /\ group[g] = "ok" => task'[Mirror(g)] \in {"updated", "unchanged"}
      BY <2>1, <2>2 DEF OrderInv, MirrorsInOrder, Finished
    <2> QED
      BY <2>1, <2>3 DEF OrderInv, MirrorsInOrder, Mirror
  <1>4. CASE (\E u \in Urls : ParseStep(u)) \/ StartParsing \/ FinishRun \/ UNCHANGED vars
    <2>1. UNCHANGED downloads
      BY <1>4 DEF ParseStep, SaveRevokedCerts, ParseOrSaveFails, Settle, StartParsing,
                  FinishRun, vars
    <2> QED
      BY <2>1 DEF downloads, OrderInv, MirrorsInOrder, Mirror
  <1> QED
    BY <1>1, <1>2, <1>3, <1>4 DEF Next

(***************************************************************************)
(* Mirrors of a logical CRL are tried in their order, groups that share    *)
(* them agree on what became of them, and no URL is downloaded twice, for  *)
(* any scope and any number of workers (downloader.py).                    *)
(***************************************************************************)
THEOREM MirrorsAreInOrder == Spec => []MirrorsInOrder
  <1>1. Init => OrderInv
    BY DEF Init, NoRun, OrderInv, MirrorsInOrder
  <1> QED
    BY <1>1, InitEstablishes, Invariance, OrderKept, PTL DEF Spec, OrderInv
=============================================================================
