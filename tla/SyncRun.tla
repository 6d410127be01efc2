------------------------------ MODULE SyncRun -------------------------------
(***************************************************************************)
(* One synchronization (main.py, run_once), its audit rows in sync_runs    *)
(* and source_runs, the files that it exports (exporter.py) and its gate.  *)
(* Every command that writes holds the lock of the database file, so that  *)
(* at most one runs: `pc' is where it is.  It may be killed at each step,  *)
(* which keeps database and files as they are.                             *)
(*                                                                         *)
(* Abstractions.  The exported records are a member of Contents; Count is  *)
(* what get_db_stats says of them, which may be the same for two contents. *)
(* A digest identifies what was exported.  Rates are percentages.  All     *)
(* other blockers (parse errors, an empty scope, a damaged database,       *)
(* decreased counts, a failed export) are the quality "blocked"; a failed  *)
(* optional source is "degraded".  Exclusions, which only the statistics   *)
(* count, are left out.                                                    *)
(***************************************************************************)
EXTENDS Integers, SequencesExt

CONSTANTS
    Contents,   \* what the database may hold for export
    Count,      \* [Contents -> Nat]
    Rates,      \* success rates of the CRL stage
    OptionalResults, \* how the optional sources may end
    MaxRuns,    \* bound: synchronizations started
    MaxMinute,  \* bound: minutes that pass
    None,       \* a file or a value that does not exist
    Failed      \* a CRL stage without a rate

Permitted == {"ready", "degraded"}

ASSUME SyncConstants ==
    /\ Count \in [Contents -> Nat]
    /\ Rates \subseteq 0..100
    /\ OptionalResults \subseteq Permitted
    /\ MaxRuns \in Nat /\ MaxMinute \in Nat
    /\ None \notin Contents /\ None \notin Nat /\ Failed \notin Nat /\ None # Failed

Floor == 95
MaxDrop == 2

VARIABLES
    content,   \* of the database
    runs,      \* rows of sync_runs, in their order, with the CRL row of source_runs
    started,   \* run_ids used
    minute,    \* the clock, as far as version names show it
    csv, bloom, metadata,  \* the exported files
    report,    \* sync_report.json
    pc,        \* step of the running command
    syncing,   \* the running export belongs to a synchronization
    rows,      \* records read for the export or the snapshot
    previous,  \* success rate of the previous non-blocked run
    quality    \* what the stages say so far

database == <<content, runs>>
exports == <<csv, bloom, metadata>>
command == <<pc, syncing, rows, previous, quality>>
syncVars == <<database, started, minute, exports, report, command>>

NoMetadata == [csv |-> None, bloom |-> None, version |-> None, keys |-> None]

SyncInit ==
    /\ content \in Contents
    /\ runs = <<>> /\ started = 0 /\ minute = 0
    /\ csv = None /\ bloom = None /\ metadata = NoMetadata /\ report = None
    /\ pc = "idle" /\ syncing = FALSE /\ rows = None
    /\ previous = None /\ quality = "ready"

\* What a command held in memory goes with it.
EndCommand ==
    /\ pc' = "idle" /\ syncing' = FALSE /\ rows' = None
    /\ previous' = None /\ quality' = "ready"

Proceed(next) == pc' = next /\ UNCHANGED <<syncing, rows, previous, quality>>

----------------------------------------------------------------------------

\* FileLock(timeout=0) in cli.main.
LockFree == pc = "idle"

\* Nothing deletes a record or a key.
Grown == {c \in Contents : Count[c] >= Count[content]}

\* Mutant: one of these commands is not in write_commands.
EditUnlocked ==
    /\ content' \in Grown \ {content}
    /\ UNCHANGED <<runs, started, minute, exports, report, command>>

\* crl-sync, ct-sync, validate-cert.
Edit ==
    /\ LockFree
    /\ content' \in Grown \ {content}
    /\ UNCHANGED <<runs, started, minute, exports, report, command>>

Tick ==
    /\ minute < MaxMinute
    /\ minute' = minute + 1
    /\ UNCHANGED <<database, started, exports, report, command>>

----------------------------------------------------------------------------
(* The stages of a run, each of which ends with a commit of its results.   *)

\* Mutant: blocked runs count.
PreviousOfAnyRun ==
    LET recorded == {i \in DOMAIN runs : runs[i].crl # None}
    IN  IF recorded = {} THEN None
        ELSE LET last == runs[Max(recorded)].crl
             IN  IF last \in Rates THEN last ELSE None

\* Mutant: a row without a rate is not checked for.
PreviousResult ==
    LET recorded == {i \in DOMAIN runs : runs[i].status # "blocked" /\ runs[i].crl # None}
    IN  IF recorded = {} THEN None ELSE runs[Max(recorded)].crl

\* A failed stage has a row without a rate, which hides older rates.
PreviousRate ==
    LET recorded == {i \in DOMAIN runs : runs[i].status # "blocked" /\ runs[i].crl # None}
    IN  IF recorded = {} THEN None
        ELSE LET last == runs[Max(recorded)].crl
             IN  IF last \in Rates THEN last ELSE None

StartSync ==
    /\ LockFree /\ started < MaxRuns
    /\ previous' = PreviousRate
    /\ started' = started + 1
    /\ runs' = Append(runs, [id |-> started', status |-> "running", crl |-> None,
                             version |-> None, keys |-> None])
    /\ pc' = "crl" /\ syncing' = TRUE /\ quality' = "ready"
    /\ UNCHANGED <<content, minute, exports, report, rows>>

RecordCrl(result) == runs' = [runs EXCEPT ![Len(runs)] = [@ EXCEPT !.crl = result]]

CrlStage ==
    /\ pc = "crl"
    /\ content' \in Grown
    /\ \/ \E rate \in Rates : RecordCrl(rate) /\ pc' = "supplement" /\ quality' \in {"ready", "blocked"}
       \/ RecordCrl(Failed) /\ pc' = "abort" /\ UNCHANGED quality
    /\ UNCHANGED <<started, minute, exports, report, syncing, rows, previous>>

\* The optional sources; then the records for the export are read.
Supplement ==
    /\ pc = "supplement"
    /\ content' \in Grown
    /\ rows' = content'
    /\ quality' \in (IF quality = "ready" THEN OptionalResults ELSE {quality})
    /\ pc' = "csv"
    /\ UNCHANGED <<runs, started, minute, exports, report, syncing, previous>>

\* Each file is replaced at once; the metadata name what is on disk.
ExportCsv ==
    /\ pc = "csv"
    /\ csv' = rows
    /\ Proceed("bloom")
    /\ UNCHANGED <<database, started, minute, bloom, metadata, report>>

ExportBloom ==
    /\ pc = "bloom"
    /\ bloom' = rows
    /\ Proceed("metadata")
    /\ UNCHANGED <<database, started, minute, csv, metadata, report>>

ExportMetadata ==
    /\ pc = "metadata"
    /\ metadata' = [csv |-> csv, bloom |-> bloom, version |-> minute, keys |-> Count[rows]]
    /\ IF syncing THEN Proceed("gate") ELSE EndCommand
    /\ UNCHANGED <<database, started, minute, csv, bloom, report>>

ExportFails ==
    /\ pc \in {"csv", "bloom", "metadata"}
    /\ IF syncing THEN Proceed("abort") ELSE EndCommand
    /\ UNCHANGED <<database, started, minute, exports, report>>

FinishSyncRun(status, version, keys) ==
    /\ runs' = [runs EXCEPT ![Len(runs)] =
                    [@ EXCEPT !.status = status, !.version = version, !.keys = keys]]
    /\ Proceed("report")
    /\ UNCHANGED <<content, started, minute, exports, report>>

\* Mutant: the Bloom filter is not verified.
VerifyCsvOnly == metadata.csv # None /\ metadata.csv = csv

VerifyExports == metadata.csv # None /\ metadata.csv = csv /\ metadata.bloom = bloom

Blockers(rate) ==
    \/ quality = "blocked" \/ ~VerifyExports \/ rate < Floor
    \/ previous # None /\ rate < previous - MaxDrop

\* _release_gate and finish_sync_run
Gate ==
    /\ pc = "gate"
    /\ IF Blockers(runs[Len(runs)].crl)
       THEN FinishSyncRun("blocked", None, None)
       ELSE FinishSyncRun(quality, metadata.version, Count[content])

\* A required stage failed.
Abort == pc = "abort" /\ FinishSyncRun("blocked", None, None)

\* cmd_sync, with or without --report.
WriteReport ==
    /\ pc = "report"
    /\ report' \in {Last(runs), report}
    /\ EndCommand
    /\ UNCHANGED <<database, started, minute, exports>>

\* cmd_export; cmd_supplement, which looks up keys and then exports.
StartExport ==
    /\ LockFree
    /\ content' \in Grown
    /\ pc' = "csv" /\ rows' = content'
    /\ UNCHANGED <<runs, started, minute, exports, report, syncing, previous, quality>>

\* A kill of, or an unexpected error in, any command, this module's or another.
KillCommand ==
    /\ ~LockFree
    /\ EndCommand
    /\ UNCHANGED <<database, started, minute, exports, report>>

SyncNext ==
    \/ Edit \/ Tick \/ StartSync \/ CrlStage \/ Supplement
    \/ ExportCsv \/ ExportBloom \/ ExportMetadata \/ ExportFails
    \/ Gate \/ Abort \/ WriteReport \/ StartExport

SyncSpec == SyncInit /\ [][SyncNext \/ KillCommand]_syncVars

(***************************************************************************)
(* Properties                                                              *)
(***************************************************************************)

Run == [id : 1..MaxRuns, status : {"running", "blocked", "ready", "degraded"},
        crl : Rates \cup {None, Failed}, version : 0..MaxMinute \cup {None},
        keys : Nat \cup {None}]

Metadata == [csv : Contents, bloom : Contents, version : 0..MaxMinute, keys : Nat]

SyncTypeOK ==
    /\ content \in Contents /\ runs \in Seq(Run)
    /\ started \in 0..MaxRuns /\ minute \in 0..MaxMinute
    /\ csv \in Contents \cup {None} /\ bloom \in Contents \cup {None}
    /\ metadata \in Metadata \cup {NoMetadata}
    /\ report \in Run \cup {None}
    /\ pc \in {"idle", "crl", "supplement", "csv", "bloom", "metadata", "gate", "abort",
               "report", "verify", "build", "clear", "move_out", "move_in", "clean"}
    /\ syncing \in BOOLEAN
    /\ rows \in Contents \cup {None}
    /\ previous \in Rates \cup {None} /\ quality \in Permitted \cup {"blocked"}

(***************************************************************************)
(* Exports that were interrupted or that failed are never mistaken for     *)
(* finished ones: files that fit the metadata are exports of one content.  *)
(***************************************************************************)
ManifestIsHonest == VerifyExports => csv = bloom

(***************************************************************************)
(* However many runs are blocked in a row, the success rate that lets a    *)
(* run pass stays within MaxDrop of the last one that passed.              *)
(***************************************************************************)
BlockedRunsKeepTheBar ==
    LET Passed(i) == runs[i].status \in Permitted
    IN  \A i, j \in DOMAIN runs :
            i < j /\ Passed(i) /\ Passed(j)
            => \/ runs[j].crl >= runs[i].crl - MaxDrop
               \/ \E k \in i + 1..j - 1 : runs[k].status # "blocked"
=============================================================================
