# A verification project for compromised-keys

TLA+ modules, TLC configurations and TLAPS proofs about the update pipeline of
this repository: it downloads certificate revocation lists, looks up the public
keys of certificates revoked for key compromise, exports them and publishes
data releases. Source paths below are relative to `src/src/compromised_keys/`.

## 1. The system

| Component | State it keeps | Operations | Interacts with |
| --- | --- | --- | --- |
| CCADB snapshot and scope (`downloader.py`, `parser.py`) | snapshot file | paginated download per decade, atomic replacement, scope parsing | CRL download |
| CRL download, cache and parse checkpoint (`downloader.py`, `main.py`, `data_manager.py`) | cache files, `crl_status`, `revoked_certs`, one task per URL | group workers, download with retries, parse pool, `save_revoked_certs` | event loop, process pool, SQLite |
| Issuer AKI propagation (`data_manager.py`) | `authority_key_identifier`, `aki_source` | `propagate_unique_crl_aki_by_issuer` after each CRL stage | CRL saves, CT selection |
| Lookup selection and retry state (`data_manager.py`) | `lookup_state`, `public_key*`, `record_exclusions` | select, record a batch, submissions, exclusions | every lookup source, file lock |
| Source circuit breaker (`lookup.py`) | window, two counters, open flag and reason | `record_success`, `record_failure`, `allow_request` | CT client, crt.sh HTTP client |
| Operator CT client (`ct_client.py`) | batches, semaphore, breaker | query, split, historical fallback | breaker, selection |
| crt.sh clients (`crt_sh_crawler.py`) | connection and cursor, budget, iterator of the workers | PostgreSQL batches with reconnections, HTTP workers with candidates | breaker, selection |
| Sync run and release gate (`main.py`) | `sync_runs`, `source_runs` | stages of `run_once`, gate | everything above |
| Export (`exporter.py`, `atomic_io.py`) | CSV, Bloom filter, metadata files | `export_all` | sync run, release preparation |
| Release preparation and restore (`release_assets.py`) | output directory, restored database | `prepare_release`, `restore_release` | export, sync report |
| GitHub publication (`release_publish.py`) | staged bundle, remote release, `data-latest` | stage, publish, resume | release preparation |
| Command line (`cli.py`, `config.py`) | per-database file lock | one command per process | everything |
| Certificate and identity functions (`crypto_utils.py`, `public_http.py`) | none | parsing, normalisation, address checks | clients, validator |

What is hard about it: coroutines that share a semaphore, a breaker and one
task per URL; files and database rows that survive a kill independently of each
other; database errors that are logged and swallowed; passes that select work
once and write results much later; retry times, exclusions and miss counts that
must neither lose a record for ever nor query it too early; remote services
that answer late, twice, in part or not at all, or change between two pages;
conclusions drawn from evidence that a later run may contradict. Every such
place is a hazard of `PROJECT.json`, with the properties that cover it.

## 2. The modules

### Source circuit breaker

`BreakerResults` names what callers report and the limits. `CircuitBreaker` is
the class as it is: `recent` is the deque (1 for a failed request),
`consecutiveFailures` and `consecutiveRateLimits` the counters, `isOpen` and
`reason` the outcome. `asyncio.Lock` makes each method one action, whoever
calls it, so a run of the breaker is a sequence of results. `BreakerPromise`
states what callers may rely on without any of that state: the breaker opens
exactly when its *history* of results first gives a cause, with this cause as
its reason, and stays open. `BreakerRefinement` adds the history to
`CircuitBreaker` as a history variable and states that it implements the
promise under the identity mapping.

Promise and code agree that a history ending in a success gives no cause. The
documentation does not: `docs/sources-and-retries.md` says the circuit opens
after any window of ten or more samples of which half failed. Run
`breaker_documented_ratio` shows the difference with the limits of `lookup.py`:
a success that completes the tenth sample leaves a half-failed window closed.

### CCADB snapshot, scope and issuer AKIs

`CrlEvidence` is `crl_sync_only` from the records of CCADB to the AKIs that the
CT client will use, over any number of runs, put together from three modules.

`CcadbSnapshot` is `download_ccadb_records`. `decade`, `page`, `attempt`,
`expected` and `records` are the locals of the two loops, `partitions` the
decades that are complete, `snapshot` the rows of the file and `fresh` its age.
A response is `Honest`, or it has one wrong field (`Wrong`): another page
number, an end too early, a page skipped, another total, missing or repeated
rows. `Acceptable` and the two sides of the last page (`LastPage`, `Refused`) are
the checks of `_download_ccadb_partition`, and any exception throws everything
away (`DownloadFails`). CCADB may change at any time (`CcadbChanges`).
`SnapshotIsExact` says that what the file gets is what CCADB had, decade by
decade. The API carries only counts to see this by. Changes that make up for
each other (one row deleted and another added between two pages, the same page
delivered twice in place of another) are accepted by the code. The model therefore
has, within a decade, one kind of `disturbance`: any number of changes that add
rows, any number that delete rows, or one wrong field of one response. That is
the limit of the claim, and of its theorem. What the service has at a moment (`listing`) is any choice of the rows of
the decade in their order (`Listings`).

`CrlScope` is `load_intermediate_scope` as an operator on the rows of the
snapshot: of the `RowGroups` of all eligible rows, `Groups` keeps the first one
of each `Key`, with its order of mirrors, which is what the set `seen` of the
loop does. `ScopeIsComplete` compares the result with what the rows disclose.

`AkiPropagation` has the AKI columns: `aki` and `source` are
`authority_key_identifier` and `aki_source`, `SaveRevokedCerts` is the upsert and
`PropagateUniqueCrlAkiByIssuer` the transaction with its rows to clear and to
update. `AkiView` states what it is for: a record has the AKI that a CRL gave
directly to it, or else the only one that CRLs gave to records of its issuer.
The code arrives there by touching only some rows, from whatever earlier runs
left, and `ImplementsAkiView` says that it does. Between a commit and the next
propagation, in a stage that was killed, lookups may still find what was
inherited before: `settled` tells the two apart.

`CrlEvidence` adds `stage` and the files that are still to be parsed. The
downloads of the CRLs, which `CrlPipeline` models, are one step: each logical
CRL yields the file of at most one of its mirrors.

### CRL stage

`CrlPipeline` models `crl_sync_only` down to the steps between which a kill or
another coroutine matters. A logical CRL (`Groups`) is an ordered list of
mirrors. Group workers take groups in order (`TakeGroup`), create at most one
task per URL (`Request`), await it (`AwaitedBy`) and go on to the next mirror
when it failed. A task waits for the semaphore (`StartFetch`), fetches, retries
(`RetryFetch`) or fails (`FetchFails`), and then runs without awaiting through
comparison, cache file, `last_hash` and checkpoint (`WriteFile`,
`RecordNewFile`, `RecordSameFile`, `CheckCheckpoint`): in these *synchronous*
states no other coroutine steps (`LoopFree`), but the process may be killed
(`Crash`). `RecordCrlSuccess` may do nothing, because `_record_success` swallows
database errors. After all groups the parse pool holds at most `MaxPending`
files; each is committed together with its checkpoint (`SaveRevokedCerts`) or
counted as a parse error. Between runs the cache or the database may be lost or
replaced by an empty one (`LoseCache`, `LoseDatabase`).

A CRL is its content hash. A parse yields `Entries[content]`. The failure
columns of `crl_status` are only reported and left out.

### Lookup state

`LookupState` models the shared database as the lookup commands see it: which
records a pass selects (`Pending`, `Selection`, with the two ORDER BY clauses as
`Before`). Those are the `Eligible` ones, without a key, not excluded and not
cleaned, that do not wait and that the source can query (`QueriedBy`: `require_aki`
of the CT source). It models what a committed batch writes (`RecordLookupResults`), submissions
(`ValidateSubmission`, `ApplySubmission`), exclusions (`SetExclusion`), CRL syncs,
which bring and take AKIs and change revocation dates (`SyncCrls`), and the days
that pass (`Tick`). Nothing in the code sets `cleaned_at`: rows with one are there
from the beginning. Commands are processes that exclude each other by the
file lock of `cli.main` (`Acquire`, `Release`) and may be killed at any point
(`Crash`), which the operating system turns into a released lock.

Times are days left: `wait` is what remains of `next_retry_after`, `exclusion`
what remains of `expires_at`. Miss counts saturate where the code stops
distinguishing them. Outcomes are the three the code has branches for.
`BackoffFollowsHistory` compares each delay with `missed`, a history of all valid
misses that no code keeps: a count that an error resets, a killed pass advances or
another source shares gives a wrong delay sooner or later, and so does a long delay
that begins one miss early or late.

`RetriedForever` is about the CT source, the only one without a limit. A record
without an AKI, an excluded or a cleaned one is excepted, because no selection has it.

### Publication

`Publication` is `release_publish.py` against GitHub. The state of a release is
its existence, its draft flag, the version in its notes and its assets; a job
is `pc`, the bundle, the release it works on (the fixed version, then
`data-latest`), the file and the attempt. `CreateRelease(acted, failed)` is one
`gh release create`, which may act and still fail; `UploadAsset(result)` is one
`gh release upload --clobber`, which may leave the old asset, none, half of one
or the new one, and whose exit code the code ignores for this reason.
`KeepAsset` is the read after it. `Kill` stands for a kill, a timeout of the
job, a permanent error and an exhausted request: they all end the job and leave
GitHub as it is. `DamageAsset` is the one thing others do to a published
version that the code has a guard against. The bundle's own checks (checksums,
tag, commit) are taken to pass: `stage_release` copies and verifies before it
renames. Reads are taken to be current: a create that GitHub completes after
the next read would make a second release.

The loop over a file reads once more than it uploads, so that the last upload is
seen. `GivesUpForCause` says what this is for: a job gives up on a file only if
none of its uploads stored it, and on a published version only if someone damaged
it. `EventuallyMarked` would hold with one read fewer, because another job follows.

`publication_rollback` shows where it differs from what it says. The decision
whether `data-latest` is newer reads its notes, which are written last. A job of
a newer version that dies after its uploads leaves newer files under older
notes, and a retry of an older version overwrites them, which
`docs/runner-and-bootstrap.md` excludes.

### Lookup sources

`SourcePass` states what `run_once` may rely on when a source works through the
records it was given, whichever it is and however it ends: each record is
reported at most once, an error may be reported of any, a verdict only if it is
true; a complete pass has reported all of them, one that the circuit cut short
shows an error, one that failed or ran out of time keeps what it had reported
before (`Spec`, the property `ImplementsPass` of both clients); and every pass
ends (`Ends`). `CtQuery` and `CrtShSupplement` are shown to implement it.

#### Operator CT client

`CtWindow` has the arithmetic of `_validity_window`: dates are days, months are
counted through, and `DaysBefore` is the calendar. `ShiftValidity` is
`_shift_validity` with its clamping to the end of a month, `TlsValidityPeriods`
the table of rules, and `InValidityWindow` says whether a certificate lies in the
window that a set of revocation dates asks for.

`CtQuery` models `query_records` with an instance of `CircuitBreaker`. Its
coroutines are `Batches`, grouped, sorted and cut as `_prepare_batches` does it
(a batch is a set of records, its order is `Before`), and everything between two
awaits is one step. A batch waits for a slot
(`queued`), asks the breaker once and sends its first request (`Enter`), sleeps
before a retry (`asleep`, `Wake`) without asking again, and leaves its slot when
it is done. An answer with an item that belongs to none of its records splits
the batch (`AmbiguousAnswer`). The halves share a new semaphore of one slot and
nothing of the batch runs beside them, so that a split batch is a stack `chunks`
whose first element is the current query. In a full-history run `Finish` queues
the misses of a dated batch again for a query without the window (`wide`).
`SessionFails` is a session that cannot be opened, `AnswerRaises` a certificate
whose key type makes the cryptography library raise: the handler around
`gather` catches that too and reports every record as an error (`Abandon`).
`Return` is the end of `query_records`, after which the results are used.

What a miss may mean is stated without the windows of the code
(`ValidWhenRevoked`): the service has no certificate that conforms to the TLS
rules of its time and was valid on the day of its revocation.

#### crt.sh

`CrtShSource` is what the two providers share: for each record the candidates
that the service has, each usable, unusable or raising. `CrtShHttp` has the
workers: they take records from one iterator, ask for the list of candidates,
then for one after the other, and each attempt of each request asks the breaker.
`CrtShPostgres` has the one connection: batches one after the other, with
reconnections whose failure leaves a closed cursor behind (`alive`).
`CrtShSupplement` is `CrtShSupplementer.run` again and again, in one of the two
modes, with the selection that follows from the outcomes of earlier passes, the
budget (`HttpBudget`, `OutOfTime`), kills, and a new breaker for each pass. The
two providers are extended, not instantiated, so that there is one breaker; the
one that is not in use is at rest.

What crt.sh *has* of a record is usable if any candidate is. The verdict of an
undisturbed pass (`Verdict`) is another thing: a candidate that raises comes
before a usable one and turns the record into an error, but an HTTP pass whose
request for the raising candidate failed goes on to the next candidate and
reports the key. Both are truthful; a refinement mapping with the verdict in
place of the contents is refuted by such a record in the instance of `crtsh`.

`NotStarved` is about many passes: each of them ends, and one record that always fails does not keep
the others from their verdict. The second half holds for one such record and the instance of
the run. It has limits that the run makes explicit or that showed when it was
made larger. Errors set no retry time, so such a record leads every later
selection; two of them next to each other are two failed requests in a row, and
with their retries enough to open the circuit before anyone else is asked. In
PostgreSQL mode, a certificate that raises ends each pass with the batch in
hand, and everything behind it waits for ever. `docs/operations.md` says that circuits
stop a pass without permanently skipping records; it does not mention that other
records may have to wait for one of these.

### Sync run, export and gate

`SyncRun` models `run_once` and the commands between runs. `runs` are the rows
of `sync_runs`, each with the CRL row of `source_runs`; `csv`, `bloom` and
`metadata` are the exported files, as the contents they were made from and the
digests they name; `report` is `sync_report.json`. The lock of the database file
lets one command run at a time, so that `pc` is its step and the last five
variables are what it holds in memory. Its steps are its commits and file
replacements: `StartSync`, `CrlStage`, `Supplement`, `ExportCsv`, `ExportBloom`,
`ExportMetadata`, `Gate` and `WriteReport`, with `Abort` and `ExportFails` for
failed stages. `KillCommand` may come between any two.

The gate's baseline is what `get_previous_source_stats` returns
(`PreviousRate`): the rate of the last run that is not `blocked`. Blocked runs
do not lower it (`BlockedRunsKeepTheBar`). A run that was killed after its CRL
stage is still `running`, counts as not blocked, and does lower it: the property
says so in its last disjunct.

### Release preparation and restore

`DataRelease` extends `SyncRun` with `prepare-release` and `restore-release`. A
release is a record of what it was built from and whether it is complete.
`StartPrepare` and `VerifyReleaseRun` are the two groups of checks, `Build`
copies, `RemoveOld`, `MoveOut`, `MoveIn` and `RemoveOld` replace the output
directory; `RemoveSome` is the middle of an `rmtree`. `PrepareFails` is the
exception handler, `Kill` a process that gets no chance to run it.
`RestoreRelease` puts a database back that is older than report and exports.
db_stats.json is written in two steps, as a shell does it that redirects `stats`,
which takes no lock: `TruncateStats` leaves the file `Torn`, at any time, and
`WriteStats` completes it unless the command fails or is killed. One such command
runs at a time. `ReleasesConsistent` therefore allows a release with torn
statistics, and without this alternative TLC refutes it: `_verify_release_run`
compares the file with the snapshot (`release_assets.py:309`), `prepare_release`
copies it later without a second look (421-423) and takes the checksum from the copy.
`docs/release-process.md:30-32` says that the statistics must match and that mixed
inputs are rejected. Statistics of another content never enter a release. `misses_report.json` is a required
file of the same kind that is compared with nothing at all; it is left out.

`interruptions` counts what happened to replacements since the last one that
succeeded. `ReleaseSurvives` says how much of that the directory scheme stands:
errors alone and one kill; after a kill between the two renames, a second kill or
an error while the old copy is removed loses it or leaves half of it under the
output name. Restore and publication verify checksums and would refuse it.

## 3. The runs

| Run | Question | Instance | Distinct states |
| --- | --- | --- | --- |
| `breaker` | are window and counters exact, does the breaker implement its promise? | limits 4/5/4/50 %/2 and histories of up to 7 results: each threshold is the first reached in some history and the window slides | 21,845 |
| `breaker_documented_ratio` | is the documented ratio rule true? (expected violation) | the real limits, up to 10 results | - |
| `crl_evidence` | is a snapshot what CCADB had, is its whole scope read, do inherited AKIs follow from the evidence? | 2 decades with 3 rows and 1, pages of one row, 2 attempts; any sequence of additions or of deletions per decade, or one wrong field; 2 URLs, 3 records of an issuer with 2 AKIs | 741,081 |
| `crl_pipeline` | is a skipped CRL always a committed one, are mirrors used in order and once, does every run end? | 2 URLs in 2 groups in opposite orders, 2 contents, 2 attempts, 2 workers, 1 file in the pool | 175,516 |
| `lookup_state` | does a selection stay valid until it is written, do delays follow the history of misses? | 2 records, each with or without an AKI and a cleaned_at, an unlimited source that needs AKIs and a limited one, 2 interchangeable processes, delays of 1, 1 and 2 days, long delay after 2 misses, exclusions of 1 day | 2,274,488 |
| `lookup_retries` | is every record that may be looked up selected again and again? | the same with the unlimited source only, exclusions of 1 day and for ever, no symmetry | 168,542 |
| `publication` | are published versions complete, is the alias updated in order, do jobs give up only for a cause, do retries finish? | 2 versions, 2 files each, 2 attempts per request and upload, with and without an existing `data-latest` | 54,047 |
| `publication_rollback` | do retries of older versions leave newer ones alone? (expected violation) | the same | - |
| `ct_query` | is each record reported once and truthfully, does an open circuit stop the client? | 6 records in 4 batches with dates around rule changes, month ends and a leap day, 3 contents of the service, 2 slots, 2 attempts | 79,181 |
| `crtsh` | the same of crt.sh, over many passes; is anyone starved? | 4 records of which 3 fit a pass, 5 scenarios of what the service has, 2 workers or batches of 2, 2 attempts | 112,134 |
| `sync_run` | are interrupted exports recognised, do blocked runs keep the gate's bar? | 3 runs with rates 96 or 100, 2 contents of equal counts, 2 minutes | 654,208 |
| `data_release` | are prepared releases of one content, does a release survive interruptions? | 2 runs, 3 contents of which 2 have equal counts, 2 minutes; every run that is not blocked is degraded | 3,895,522 |

Bounds. Two URLs in two groups are the smallest instance in which each group
can wait for the other's download. Two contents are enough for a file to
change, for two URLs to hold the same content and for a cache to be older than
the database or newer. Two records are enough for a limit to leave one behind
and for a batch to end while another is still selected. Two processes are
enough for one to interfere with the other; more cannot hold the lock at once.
Two versions are enough for each order of staging, publishing and retrying; one data
file and the checksums are enough for a mixed release; two attempts are enough
for a retry after each outcome and for an exhausted one. Four batches with two
slots are enough for some to wait, one to sleep and one to open the circuit; two
records are enough for a split; the certificates of `ct_query` expire on the last
day that the rule of their time allows, so that a window one day or one rule too
narrow misses one. Three rows are enough for a page in the middle, so that one
can be skipped, and for a change before, on and behind the current page. Three
records of one issuer are enough for two that disagree and one that inherited.
One `unusable` or refused record in front of three others, of which three fit a
pass, is enough for it to be in every selection. Three runs are enough for a blocked one between
two others, two rates for a drop that the floor alone would let pass. Two
contents of equal counts are enough for a mixture that the statistics do not
show, a third for one that they do, and two minutes for two exports with one
version name or with two.
Results of the optional sources are `ready` or `degraded` in `sync_run` and only
`degraded` in `data_release` (`OptionalResults`): both are permitted for a release,
and nothing in `release_assets.py` tells them apart.
Only `MaxRequests` bounds an otherwise infinite behaviour.

Deadlock checking is off in the breaker runs, where a run of `MaxRequests`
results ends, and in the publication runs, where nothing need be staged.

Fairness. `CrlPipeline!Fairness` is weak fairness of each group worker, each
download, each file of the parse pool and the two phase changes: every request
has a total timeout of 30 s and a bounded number of attempts, the event loop
runs every ready coroutine, and the executor finishes every job. Nothing makes
a request succeed and nothing starts a new run. `LookupState!Fairness` is weak
fairness of a started command's steps and of time, and *strong* fairness of
starting a pass of each source: a daily schedule tries again and again, and the
lock is free again and again because commands end, but not continuously.
`Publication!Fairness` assumes that faults stop at some time, that a running job
goes on, and that the operator dispatches every retained bundle again and again:
nothing in the code resumes a publication by itself.
`CtQuery!Fairness` is weak fairness of each coroutine: requests have a total
timeout, pauses end and a free slot goes to a waiter. `CrtShSupplement!Fairness`
is weak fairness of each worker and of the connection, which have timeouts, too,
and of starting the next pass; that faults other than the refused record stop at
some time (`calm`) is a premise of `NotStarved`, not assumed. `CrlEvidence` claims
nothing that needs fairness.

Mutants. An operator marked "Mutant:" is an alternative of a definition of the
model with a plausible bug (a missing reset, a dropped guard, a lock not
taken). It is used by no specification; `PROJECT.json` pairs it with the
definition it would replace and the property that then fails.

## 4. The proofs

| Module | Theorems | Argument |
| --- | --- | --- |
| `BreakerProofs` | `BreakerTypeCorrect`, `BreakerCountersExact`, `BreakerImplementsPromise` | `TypeOK` and `CountersSummariseHistory` are inductive together. From them each threshold test on the bounded state equals the promise's test on the history: a counter of at least n says the same as "the last n results are failures", and the failures in the window are a bijective image of the failed samples of the history. |
| `CrlPipelineProofs` | `CrlTypeCorrect`, `CheckpointsAreCommitted`, `CompletedRunsAreDurable`, `MirrorsAreInOrder` | The inductive invariant says for each state of a task what is known of cache, checkpoint and body, and for each file after the downloads whether it is still to be parsed, committed or counted as failed. `MirrorsInOrder` is inductive relative to it, because tasks that ended stay as they are. |
| `LookupStateProofs` | `LookupTypeCorrect`, `BackoffIsHonoured`, `OnlyMissingKeysAreSupplemented`, `BackoffIsByHistory` | Only the holder of the lock runs a command (`Exclusive`), and everything it still has to write is eligible and has the AKI that its source needs (`SelectionValid`). The first action property follows because every writer of a key writes to records it selected. For the second, the stored count equals the history of valid misses, saturated (`CountsExact`), so that each delay computed from the one is the delay that the other asks for; no other step makes anything wait longer. |
| `PublicationProofs` | `PublicationTypeCorrect`, `PublishedIsComplete`, `AliasFollowsVersion`, `ReleasesAreUnique`, `MarkedAreAnnounced`, `PublishedIsNeverOverwritten`, `AnnouncedIsMonotone`, `RefusalsHaveCause` | The strengthening `JobOK` says what a job still holds: it works on its own version, or on `data-latest` with its version published and not older than the announced one. `NothingAnnounced` is needed for the creation of the alias. For the refusals, `FilesOK` says that the files before the current one were verified, and stay so unless damaged. |
| `DataReleaseProofs`, synchronizations | `SyncTypeCorrect`, `InterruptedExportsShow`, `BarIsKept` | `ExportOrder` says which files the running export has replaced, and that metadata name one content. `BarHeld` says that a running synchronization compares with the last run that passed, if only blocked ones follow it; the maximum that defines the baseline exists because that run is it. |
| `DataReleaseProofs`, releases | `DataReleaseTypeCorrect`, `ReleasesAreConsistent`, `ReleasesSurvive`, `InstalledReleasesAreCurrent` | `Checked` carries what the checks established through build and renames, because the lock keeps database and exports; of the statistics it keeps only that they are of the same content or torn, because a `stats` that runs meanwhile reads the same database. `Located` says where a whole release is at each step of the replacement. |
| `CrlEvidenceProofs`, AKIs | `ProvenanceIsKnown`, `EvidenceImplementsAkiView` | A row has an AKI exactly if it has a source, which the upsert and the propagation keep. From this the candidates of an issuer are the evidence of the specification, counting them finds the issuers with exactly one, and each row that the propagation leaves alone already has what it should. Every other step of `crl_sync_only` is a stuttering step. |
| `CrlEvidenceProofs`, snapshot and scope | `TypeCorrect`, `SnapshotsAreExact`, `EveryScopeIsComplete` | A decade whose download is not refused is `Intact` (what was read is what CCADB has up to the page, and the total is right or not yet known) or `Doomed` (totals and rows no longer add up, and cannot again whatever the remaining pages bring, because the wrong field was the only one, or because what the decade gains or loses is never made up for). The last check lets only intact ones through, so every complete partition is one of the listings since its decade began (`PartitionsExact`), and a fresh file consists of complete partitions. The scope is complete because among the rows that disclose a key one is the first, by the least of a set of natural numbers. |
| `CtQueryProofs`, window | `WindowIsComplete` | Shifting by a rule is monotone, although days are clamped to the end of a month, and shifting back what was shifted never ends up beyond its start, because each rule counts either months or days. So the rule under which a certificate was issued is among the relevant ones, and the bounds it contributes include the certificate. The least and the last of the dates exist because a calendar is bounded. |
| `CtQueryProofs`, pass | `TypeCorrect`, `MissesAreWhatIsQueriedAgain`, `FewRequestsAfterOpening`, `PassIsImplemented` | Three strengthenings, each about all coroutines at once. `SlotsKept`: batches that hold a slot are at most `Concurrency`, and requests sent since the circuit opened together with the sleepers that may still send one are fewer. `StackOK`: the chunks of a batch are disjoint, and its records without an outcome (in a second query, with a miss) are exactly those in the chunks. `VerdictsOK`: a hit is of a certificate that exists; a miss is of one that the windows and the scope exclude, by `WindowIsComplete`, or is about to be asked for again (`Requeried`). `ErrorsShow` ties an open circuit to an error. |
| `CrtShProofs` | `TypeCorrect`, `PassIsImplemented`, `OpenCircuitIsSilent` | Over HTTP, what a worker holds was taken from the iterator, has no outcome and is held by nobody else (`HoldingsOK`); everything before the iterator has an outcome or is held and everything behind it has none, unless the circuit is open (`IteratorOK`), so that workers that stop early show an open circuit. Each step of a worker is of one of three shapes (`Keeps`, `Finishes`, `Starts`), which the proof uses in place of its seven actions. Over PostgreSQL the records before the batch, and only they, have an outcome (`PostgresOK`). The step that opens the circuit reports an error (`OutcomesOK`); what does not run holds nothing (`AtRest`), for which silence needs it. |

They hold for every value of the constants that satisfies the ASSUMEs of the
modules, which TLC evaluates in the runs. Every invariant and every action
property that a run with no expected violation checks is a theorem, and so are the safety refinements
(`ImplementsPromise`, `ImplementsAkiView` and the two `ImplementsPass`). The
inductive invariants were model-checked in the instances of the runs before they
were proved.

Only model-checked are the liveness properties `RunEnds`, `RetriedForever`,
`EventuallyMarked`, `EveryPassEnds` and `NotStarved`: they need fairness, whose
ENABLED TLAPS cannot reason about. Where a proof needs the least element of
a set or an induction, it takes them from well-founded induction on sets of
natural numbers, because the library's induction theorems take an operator as a
parameter, which the provers cannot instantiate.

## 5. Not modelled

The command line apart from its lock and the certificate functions; see
"components" of `PROJECT.json`. Decoding, normalisation and cryptography are
inputs of the models: what a CRL lists, which candidate is usable, which issuers
are equal. So are the redirects and address checks of `public_http.py`. Reports
other than those that a release is checked against, and logging, steer nothing. The community submissions are in
`LookupState` with their effect only; the checks of `cert_validator.py` decide
whether there is one.

Observations that no run is about. If the job that first creates `data-latest`
dies before it publishes it, the notes of the draft count, and a retry of an
older version is refused in favour of a release that nobody can see. A retry
time that was set by a miss under an inherited AKI stays when the AKI is
replaced, so that the query with the right one waits for it.

## 6. Plan

1. An abstract specification of a publication (a version is unpublished,
   published or announced, and only advances) that `Publication` implements, and
   one of a release directory for `DataRelease`.
2. The same for the CRL stage: what a run of it does to the evidence, as
   `CrlEvidence` takes it from `CrlPipeline` in one step.
3. The exclusions of `record_exclusions` in the selection of a crt.sh pass, which
   now only knows outcomes.
