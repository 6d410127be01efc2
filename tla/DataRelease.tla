---------------------------- MODULE DataRelease -----------------------------
(***************************************************************************)
(* prepare_release and restore_release (release_assets.py), after and      *)
(* between the synchronizations and exports of SyncRun, with kills.        *)
(*                                                                         *)
(* A release is built in a temporary directory and then takes the place of *)
(* the one under the output name, which waits under the name `old' in      *)
(* between.  Neither pair of renames is atomic: a kill may leave the name  *)
(* without a directory, or an old one half removed.                        *)
(*                                                                         *)
(* db_stats.json is redirected output of `stats', which takes no lock: the *)
(* shell truncates the file and the command writes at its end, unless it   *)
(* fails or is killed.  One runs at a time.                                *)
(*                                                                         *)
(* Left out: archives, digests of the bundle, the redaction of reports (a  *)
(* release is what it was built from, and complete or not) and             *)
(* misses_report.json, a required file of the same kind as db_stats.json   *)
(* that is copied into the release without being compared with anything.   *)
(***************************************************************************)
EXTENDS SyncRun

CONSTANT Torn       \* the contents of a file that is being written

Releases == [content : Contents, runs : Seq(Run), csv : Contents, bloom : Contents,
             metadata : Metadata, stats : Nat \cup {Torn}, run : Run, complete : BOOLEAN]

ASSUME ReleaseConstants == None \notin Releases /\ Torn \notin Nat \cup {None}

VARIABLES
    dbStats,        \* db_stats.json of the export directory
    built,          \* release in the temporary directory
    output, old,    \* release directories
    interruptions   \* history: of replacements, since a release was put in place

directories == <<built, output, old>>
\* Interruptions counted.
Many == 2

vars == <<syncVars, dbStats, directories, interruptions>>

Init ==
    /\ SyncInit
    /\ dbStats = None /\ built = None /\ output = None /\ old = None
    /\ interruptions = Many

(***************************************************************************)
(* compromised-keys stats > db_stats.json.  A `stats' that fails or is     *)
(* killed takes no further step and leaves the file torn.  The counts are  *)
(* those of the moment they are printed: had they been read earlier, the   *)
(* file would only have been torn for longer.                              *)
(***************************************************************************)
TruncateStats ==
    /\ dbStats' = Torn
    /\ UNCHANGED <<syncVars, directories, interruptions>>

WriteStats ==
    /\ dbStats = Torn
    /\ dbStats' = Count[content]
    /\ UNCHANGED <<syncVars, directories, interruptions>>

----------------------------------------------------------------------------
(* Verification of the inputs against a snapshot of the database.          *)

\* The report is that of the latest run, which completed.
RunMatches == runs # <<>> /\ report = Last(runs)

\* Mutant: equal counts are taken for equal contents.
ContentMatchesByCount ==
    Count[content] = report.keys /\ metadata.keys = report.keys /\ dbStats = report.keys

\* The statistics are those of the report and both files can be reproduced.
ContentMatches ==
    /\ Count[content] = report.keys /\ metadata.keys = report.keys /\ dbStats = report.keys
    /\ csv = content /\ bloom = content

Continue(next) ==
    /\ IF next = "idle" THEN EndCommand ELSE Proceed(next)
    /\ UNCHANGED <<database, started, minute, exports, report, dbStats>>

\* The checks before there is a temporary directory.
StartPrepare ==
    /\ LockFree
    /\ report # None /\ report.status \in Permitted
    /\ dbStats # None /\ VerifyExports
    /\ Continue("verify")
    /\ UNCHANGED <<directories, interruptions>>

\* create_snapshot and _verify_release_run
VerifyReleaseRun ==
    /\ pc = "verify"
    /\ RunMatches /\ ContentMatches
    /\ metadata.version = report.version
    /\ rows' = content
    /\ pc' = "build"
    /\ UNCHANGED <<database, started, minute, exports, report, syncing, previous, quality>>
    /\ UNCHANGED <<dbStats, directories, interruptions>>

\* The snapshot and the files, as they are now, under checksums.  The lock keeps
\* the exports as they were verified; nothing keeps db_stats.json.
Build ==
    /\ pc = "build"
    /\ built' = [content |-> rows, runs |-> runs, csv |-> csv, bloom |-> bloom,
                 metadata |-> metadata, stats |-> dbStats, run |-> report, complete |-> TRUE]
    /\ UNCHANGED <<output, old, interruptions>>
    /\ Continue("clear")

----------------------------------------------------------------------------
(* Replacement of the output directory.                                    *)

Partial(release) == IF release = None THEN None ELSE [release EXCEPT !.complete = FALSE]

\* shutil.rmtree(old) is not one step.
RemoveSome ==
    /\ pc \in {"clear", "clean"} /\ old # None
    /\ old' = Partial(old)
    /\ UNCHANGED <<built, output, interruptions>>
    /\ Continue(pc)

\* Before and after the renames.
RemoveOld ==
    /\ pc \in {"clear", "clean"}
    /\ old' = None
    /\ UNCHANGED <<built, output, interruptions>>
    /\ Continue(IF pc = "clear" THEN "move_out" ELSE "idle")

\* Mutant: the output is removed, not renamed.
MoveOutRemoving ==
    /\ pc = "move_out"
    /\ output' = None
    /\ UNCHANGED <<built, old, interruptions>>
    /\ Continue("move_in")

MoveOut ==
    /\ pc = "move_out"
    /\ old' = output /\ output' = None
    /\ UNCHANGED <<built, interruptions>>
    /\ Continue("move_in")

MoveIn ==
    /\ pc = "move_in"
    /\ output' = built /\ built' = None
    /\ interruptions' = 0
    /\ UNCHANGED old
    /\ Continue("clean")

Replacing == pc \in {"clear", "move_out", "move_in", "clean"}

Interrupted == interruptions' = IF Replacing /\ interruptions < Many
                                THEN interruptions + 1 ELSE interruptions

RestoredAfterError ==
    IF output = None /\ old # None
    THEN output' = old /\ old' = None
    ELSE UNCHANGED <<output, old>>

\* The inputs are rejected, or any step raises.  An error alone is repaired.
PrepareFails ==
    /\ pc \in {"verify", "build"} \/ Replacing
    /\ RestoredAfterError
    /\ built' = None
    /\ IF interruptions = 0 THEN UNCHANGED interruptions ELSE Interrupted
    /\ Continue("idle")

\* The temporary directory has a random name that is not used again.
Kill ==
    /\ KillCommand
    /\ built' = None
    /\ Interrupted
    /\ UNCHANGED <<dbStats, output, old>>

\* The database is lost and restored from the release.
RestoreRelease ==
    /\ LockFree /\ output # None /\ output.complete
    /\ content' = output.content /\ runs' = output.runs
    /\ UNCHANGED <<started, minute, exports, report, command>>
    /\ UNCHANGED <<dbStats, directories, interruptions>>

Next ==
    \/ SyncNext /\ UNCHANGED <<dbStats, directories, interruptions>>
    \/ TruncateStats \/ WriteStats
    \/ StartPrepare \/ VerifyReleaseRun \/ Build
    \/ RemoveSome \/ RemoveOld \/ MoveOut \/ MoveIn
    \/ PrepareFails \/ Kill \/ RestoreRelease

Spec == Init /\ [][Next]_vars

(***************************************************************************)
(* Properties                                                              *)
(***************************************************************************)

TypeOK ==
    /\ SyncTypeOK
    /\ dbStats \in Nat \cup {None, Torn}
    /\ \A release \in {built, output, old} : release \in Releases \cup {None}
    /\ interruptions \in 0..Many

(***************************************************************************)
(* A release never mixes: its database, both exports, metadata and report  *)
(* are of one content, and the report is that of the latest run in its     *)
(* database, which passed the gate.  Its statistics are of that content,   *)
(* never of another one, or the torn file of a `stats' that ran meanwhile. *)
(***************************************************************************)
Consistent(release) ==
    LET c == release.content
    IN  /\ release.csv = c /\ release.bloom = c
        /\ release.metadata = [csv |-> c, bloom |-> c, version |-> release.run.version,
                               keys |-> Count[c]]
        /\ release.stats \in {Count[c], Torn} /\ release.run.keys = Count[c]
        /\ release.run = Last(release.runs) /\ release.run.status \in Permitted

ReleasesConsistent == \A release \in {built, output, old} \ {None} : Consistent(release)

(***************************************************************************)
(* A release that was put in place stays in place unless a kill interrupts *)
(* its replacement, and survives one such kill whole, under its own or the *)
(* old name or as the one that replaces it.  It need not survive a second. *)
(***************************************************************************)
Complete(release) == release # None /\ release.complete

ReleaseSurvives ==
    /\ interruptions = 0 /\ LockFree => Complete(output)
    /\ interruptions < Many => Complete(output) \/ Complete(old) \/ Complete(built)
    /\ interruptions < Many /\ output # None => Complete(output)

(***************************************************************************)
(* What is put in place is the database of that moment: between the checks *)
(* and the rename no other command has changed it.                         *)
(***************************************************************************)
InstalledIsCurrent ==
    [][output' # output /\ built # None /\ output' = built =>
          built.content = content /\ built.runs = runs]_vars
=============================================================================
