------------------------- MODULE DataReleaseProofs --------------------------
(***************************************************************************)
(* Proofs about SyncRun (its types, its exports and the bar of its gate)   *)
(* and about DataRelease, which continues it: releases of one content, of  *)
(* the database at the moment they are put in place, and what their        *)
(* replacement survives.                                                   *)
(***************************************************************************)
EXTENDS DataRelease, SequenceTheorems, TLAPS

----------------------------------------------------------------------------
(* Synchronizations: types and exports.                                    *)

LEMMA ConstantFacts ==
    /\ Count \in [Contents -> Nat] /\ Rates \subseteq 0..100
    /\ MaxRuns \in Nat /\ MaxMinute \in Nat
    /\ None \notin Contents
BY SyncConstants

\* A synchronization has a row in sync_runs, and is a running command.
HasRow ==
    /\ pc = "idle" => ~syncing
    /\ pc \in {"crl", "supplement", "gate", "abort", "report"} => syncing
    /\ syncing => runs # <<>>

\* Files written so far are those of this export; the metadata name one content.
ExportOrder ==
    /\ pc \in {"csv", "bloom", "metadata"} => rows \in Contents
    /\ pc \in {"bloom", "metadata"} => csv = rows
    /\ pc = "metadata" => bloom = rows
    /\ metadata.csv = metadata.bloom

SyncInv == SyncTypeOK /\ HasRow /\ ExportOrder

LEMMA LastRunReplaced ==
    ASSUME runs \in Seq(Run), runs # <<>>, NEW run \in Run
    PROVE  [runs EXCEPT ![Len(runs)] = run] \in Seq(Run) \ {<<>>}
<1>1. Len(runs) \in 1..Len(runs)
  OBVIOUS
<1>2. [runs EXCEPT ![Len(runs)] = run] \in Seq(Run) /\ Len([runs EXCEPT ![Len(runs)] = run]) = Len(runs)
  BY <1>1, ExceptSeq
<1> QED
  BY <1>1, <1>2

LEMMA RecordCrlTyped ==
    ASSUME SyncInv, syncing, NEW result \in Rates \cup {Failed}, RecordCrl(result)
    PROVE  runs' \in Seq(Run) /\ runs' # <<>>
<1> DEFINE last == runs[Len(runs)]
           new == [last EXCEPT !.crl = result]
<1>1. runs \in Seq(Run) /\ runs # <<>>
  BY DEF SyncInv, SyncTypeOK, HasRow
<1>2. last \in Run
  BY <1>1
<1>3. new \in Run
  BY <1>2 DEF Run
<1>4. runs' = [runs EXCEPT ![Len(runs)] = new]
  BY DEF RecordCrl
<1> QED
  BY <1>1, <1>3, <1>4, LastRunReplaced

LEMMA FinishKeepsSyncInv ==
    ASSUME SyncInv, syncing, NEW status \in {"blocked", "ready", "degraded"},
           NEW version \in 0..MaxMinute \cup {None}, NEW keys \in Nat \cup {None},
           FinishSyncRun(status, version, keys)
    PROVE  SyncInv'
<1> DEFINE last == runs[Len(runs)]
           new == [last EXCEPT !.status = status, !.version = version, !.keys = keys]
<1>1. SyncTypeOK /\ HasRow /\ ExportOrder
  BY DEF SyncInv
<1>2. runs \in Seq(Run) /\ runs # <<>>
  BY <1>1 DEF SyncTypeOK, HasRow
<1>3. last \in Run
  BY <1>2
<1>4. new \in Run
  BY <1>3 DEF Run
<1>5. runs' = [runs EXCEPT ![Len(runs)] = new]
  BY DEF FinishSyncRun
<1>6. runs' \in Seq(Run) /\ runs' # <<>>
  BY <1>2, <1>4, <1>5, LastRunReplaced
<1>7. SyncTypeOK'
  BY <1>1, <1>6 DEF FinishSyncRun, Proceed, exports, SyncTypeOK
<1>8. HasRow'
  BY <1>6 DEF FinishSyncRun, Proceed, HasRow
<1>9. ExportOrder'
  BY <1>1 DEF FinishSyncRun, Proceed, exports, ExportOrder
<1> QED
  BY <1>7, <1>8, <1>9 DEF SyncInv

LEMMA LastRunTyped ==
    ASSUME runs \in Seq(Run), runs # <<>>
    PROVE  Last(runs) \in Run
BY DEF Last

LEMMA SyncInvInit == SyncInit => SyncInv
<1> SUFFICES ASSUME SyncInit PROVE SyncInv
  OBVIOUS
<1>1. runs \in Seq(Run) /\ started \in 0..MaxRuns /\ minute \in 0..MaxMinute
  BY ConstantFacts DEF SyncInit
<1>2. SyncTypeOK
  BY <1>1 DEF SyncInit, Permitted, SyncTypeOK
<1>3. HasRow
  BY DEF SyncInit, HasRow
<1>4. ExportOrder
  BY DEF SyncInit, NoMetadata, ExportOrder
<1> QED
  BY <1>2, <1>3, <1>4 DEF SyncInv

LEMMA SyncInvUnchanged == SyncInv /\ UNCHANGED syncVars => SyncInv'
<1> SUFFICES ASSUME SyncInv, UNCHANGED syncVars PROVE SyncInv'
  OBVIOUS
<1> USE DEF syncVars, database, exports, command
<1>1. SyncTypeOK'
  BY DEF SyncInv, SyncTypeOK
<1>2. HasRow'
  BY DEF SyncInv, HasRow
<1>3. ExportOrder'
  BY DEF SyncInv, ExportOrder
<1> QED
  BY <1>1, <1>2, <1>3 DEF SyncInv

\* A command that ends may have replaced a file or the report.
LEMMA CommandEnds ==
    ASSUME SyncInv, EndCommand,
           runs' \in Seq(Run), content' \in Contents, started' = started, minute' = minute,
           csv' = csv, bloom' = bloom,
           metadata' \in Metadata \cup {NoMetadata}, metadata.csv' = metadata.bloom',
           report' \in Run \cup {None}
    PROVE  SyncInv'
<1>1. SyncTypeOK'
  BY DEF EndCommand, Permitted, SyncInv, SyncTypeOK
<1>2. HasRow'
  BY DEF EndCommand, HasRow
<1>3. ExportOrder'
  BY DEF EndCommand, ExportOrder
<1> QED
  BY <1>1, <1>2, <1>3 DEF SyncInv

\* A step within prepare-release leaves files and database alone.
LEMMA CommandProceeds ==
    ASSUME SyncInv, NEW next, Proceed(next),
           \/ next \in {"verify", "build", "clear", "move_out", "move_in", "clean"}
           \/ syncing /\ next \in {"gate", "abort"},
           UNCHANGED <<database, started, minute, csv, bloom, report>>,
           metadata' \in Metadata \cup {NoMetadata}, metadata.csv' = metadata.bloom'
    PROVE  SyncInv'
<1> USE DEF database
<1>1. SyncTypeOK'
  BY DEF Proceed, SyncInv, SyncTypeOK
<1>2. HasRow'
  BY DEF Proceed, SyncInv, HasRow
<1>3. ExportOrder'
  BY DEF Proceed, SyncInv, ExportOrder
<1> QED
  BY <1>1, <1>2, <1>3 DEF SyncInv

LEMMA SyncInvStep == SyncInv /\ (SyncNext \/ KillCommand) => SyncInv'
<1> SUFFICES ASSUME SyncInv, SyncNext \/ KillCommand PROVE SyncInv'
  OBVIOUS
<1> USE ConstantFacts
<1>t. SyncTypeOK /\ HasRow /\ ExportOrder
  BY DEF SyncInv
<1>g. Grown \subseteq Contents
  BY DEF Grown
<1>1. CASE Edit
  <2>1. SyncTypeOK'
    BY <1>1, <1>t, <1>g DEF Edit, exports, command, SyncTypeOK
  <2>2. HasRow'
    BY <1>1, <1>t DEF Edit, command, HasRow
  <2>3. ExportOrder'
    BY <1>1, <1>t DEF Edit, exports, command, ExportOrder
  <2> QED
    BY <2>1, <2>2, <2>3 DEF SyncInv
<1>2. CASE Tick
  <2>1. minute' \in 0..MaxMinute
    BY <1>2, <1>t DEF Tick, SyncTypeOK
  <2>2. SyncTypeOK'
    BY <1>2, <1>t, <2>1 DEF Tick, database, exports, command, SyncTypeOK
  <2>3. HasRow'
    BY <1>2, <1>t DEF Tick, database, command, HasRow
  <2>4. ExportOrder'
    BY <1>2, <1>t DEF Tick, exports, command, ExportOrder
  <2> QED
    BY <2>2, <2>3, <2>4 DEF SyncInv
<1>3. CASE StartSync
  <2> DEFINE run == [id |-> started', status |-> "running", crl |-> None,
                     version |-> None, keys |-> None]
  <2>1. started' \in 1..MaxRuns
    BY <1>3, <1>t DEF StartSync, SyncTypeOK
  <2>2. run \in Run
    BY <2>1 DEF Run
  <2>3. runs \in Seq(Run) /\ runs' = Append(runs, run)
    BY <1>3, <1>t DEF StartSync, SyncTypeOK
  <2>4. runs' \in Seq(Run) /\ runs' # <<>>
    <3> HIDE DEF run
    <3> QED
      BY <2>2, <2>3
  <2>5. previous' \in Rates \cup {None}
    BY <1>3 DEF StartSync, PreviousRate
  <2>6. SyncTypeOK'
    BY <1>3, <1>t, <2>1, <2>4, <2>5 DEF StartSync, exports, Permitted, SyncTypeOK
  <2>7. HasRow'
    BY <1>3, <2>4 DEF StartSync, HasRow
  <2>8. ExportOrder'
    BY <1>3, <1>t DEF StartSync, exports, ExportOrder
  <2> QED
    BY <2>6, <2>7, <2>8 DEF SyncInv
<1>4. CASE CrlStage
  <2>1. syncing
    BY <1>4, <1>t DEF CrlStage, HasRow
  <2>2. PICK result \in Rates \cup {Failed} : RecordCrl(result)
    BY <1>4 DEF CrlStage
  <2>3. runs' \in Seq(Run) /\ runs' # <<>>
    BY <2>1, <2>2, RecordCrlTyped
  <2>4. SyncTypeOK'
    BY <1>4, <1>t, <1>g, <2>3 DEF CrlStage, exports, Permitted, SyncTypeOK
  <2>5. HasRow'
    BY <1>4, <2>1, <2>3 DEF CrlStage, HasRow
  <2>6. ExportOrder'
    BY <1>4, <1>t DEF CrlStage, exports, ExportOrder
  <2> QED
    BY <2>4, <2>5, <2>6 DEF SyncInv
<1>5. CASE Supplement
  <2>1. SyncTypeOK'
    BY <1>5, <1>t, <1>g, SyncConstants DEF Supplement, exports, Permitted, SyncTypeOK
  <2>2. HasRow'
    BY <1>5, <1>t DEF Supplement, HasRow
  <2>3. ExportOrder'
    BY <1>5, <1>t, <1>g DEF Supplement, exports, ExportOrder
  <2> QED
    BY <2>1, <2>2, <2>3 DEF SyncInv
<1>6. CASE ExportCsv
  <2>1. SyncTypeOK'
    BY <1>6, <1>t DEF ExportCsv, Proceed, database, SyncTypeOK
  <2>2. HasRow'
    BY <1>6, <1>t DEF ExportCsv, Proceed, database, HasRow
  <2>3. ExportOrder'
    BY <1>6, <1>t DEF ExportCsv, Proceed, ExportOrder
  <2> QED
    BY <2>1, <2>2, <2>3 DEF SyncInv
<1>7. CASE ExportBloom
  <2>1. SyncTypeOK'
    BY <1>7, <1>t DEF ExportBloom, Proceed, database, SyncTypeOK
  <2>2. HasRow'
    BY <1>7, <1>t DEF ExportBloom, Proceed, database, HasRow
  <2>3. ExportOrder'
    BY <1>7, <1>t DEF ExportBloom, Proceed, ExportOrder
  <2> QED
    BY <2>1, <2>2, <2>3 DEF SyncInv
<1>8. CASE ExportMetadata
  <2>1. csv \in Contents /\ bloom \in Contents /\ csv = bloom /\ Count[rows] \in Nat
    BY <1>8, <1>t DEF ExportMetadata, ExportOrder
  <2>2. minute \in 0..MaxMinute
    BY <1>t DEF SyncTypeOK
  <2>3. metadata' \in Metadata /\ metadata.csv' = metadata.bloom'
    BY <1>8, <2>1, <2>2 DEF ExportMetadata, Metadata
  <2>4. runs' \in Seq(Run) /\ content' \in Contents /\ report' \in Run \cup {None}
    BY <1>8, <1>t DEF ExportMetadata, database, SyncTypeOK
  <2>5. CASE syncing
    BY <1>8, <2>3, <2>5, CommandProceeds DEF ExportMetadata
  <2>6. CASE ~syncing
    BY <1>8, <2>3, <2>4, <2>6, CommandEnds DEF ExportMetadata
  <2> QED
    BY <2>5, <2>6
<1>f. runs \in Seq(Run) /\ content \in Contents /\ report \in Run \cup {None}
      /\ metadata \in Metadata \cup {NoMetadata} /\ metadata.csv = metadata.bloom
  BY <1>t DEF SyncTypeOK, ExportOrder
<1>9. CASE ExportFails
  <2>1. CASE syncing
    BY <1>9, <1>f, <2>1, CommandProceeds DEF ExportFails, exports
  <2>2. CASE ~syncing
    BY <1>9, <1>f, <2>2, CommandEnds DEF ExportFails, database, exports
  <2> QED
    BY <2>1, <2>2
<1>10. CASE Gate
  <2>1. syncing /\ content \in Contents /\ quality \in Permitted \cup {"blocked"}
    BY <1>10, <1>t DEF Gate, HasRow, SyncTypeOK
  <2>2. CASE Blockers(runs[Len(runs)].crl)
    <3>1. FinishSyncRun("blocked", None, None)
      BY <1>10, <2>2 DEF Gate
    <3> QED
      BY <2>1, <3>1, FinishKeepsSyncInv
  <2>3. CASE ~Blockers(runs[Len(runs)].crl)
    <3>1. FinishSyncRun(quality, metadata.version, Count[content])
      BY <1>10, <2>3 DEF Gate
    <3>2. metadata.version \in 0..MaxMinute \cup {None}
      BY <1>f DEF Metadata, NoMetadata
    <3>3. Count[content] \in Nat \cup {None}
      BY <2>1
    <3>4. quality \in {"blocked", "ready", "degraded"}
      BY <2>1 DEF Permitted
    <3> QED
      BY <2>1, <3>1, <3>2, <3>3, <3>4, FinishKeepsSyncInv
  <2> QED
    BY <2>2, <2>3
<1>11. CASE Abort
  <2>1. syncing /\ FinishSyncRun("blocked", None, None)
    BY <1>11, <1>t DEF Abort, HasRow
  <2> QED
    BY <2>1, FinishKeepsSyncInv
<1>12. CASE WriteReport
  <2>1. Last(runs) \in Run
    BY <1>12, <1>t, <1>f, LastRunTyped DEF WriteReport, HasRow
  <2> QED
    BY <1>12, <1>f, <2>1, CommandEnds DEF WriteReport, database, exports
<1>13. CASE StartExport
  <2>1. SyncTypeOK'
    BY <1>13, <1>t, <1>g DEF StartExport, exports, SyncTypeOK
  <2>2. HasRow'
    BY <1>13, <1>t DEF StartExport, HasRow
  <2>3. ExportOrder'
    BY <1>13, <1>t, <1>g DEF StartExport, exports, ExportOrder
  <2> QED
    BY <2>1, <2>2, <2>3 DEF SyncInv
<1>14. CASE KillCommand
  BY <1>14, <1>f, CommandEnds DEF KillCommand, database, exports
<1> QED
  BY <1>1, <1>2, <1>3, <1>4, <1>5, <1>6, <1>7, <1>8, <1>9, <1>10, <1>11, <1>12, <1>13,
     <1>14 DEF SyncNext

(***************************************************************************)
(* Every variable of SyncRun keeps its type, for any contents and rates.   *)
(***************************************************************************)
THEOREM SyncTypeCorrect == SyncSpec => []SyncTypeOK
<1>1. SyncInv /\ [SyncNext \/ KillCommand]_syncVars => SyncInv'
  BY SyncInvStep, SyncInvUnchanged
<1>2. SyncInv => SyncTypeOK
  BY DEF SyncInv
<1> QED
  BY SyncInvInit, <1>1, <1>2, PTL DEF SyncSpec

LEMMA ExportOrderIsHonest == SyncInv => ManifestIsHonest
BY DEF SyncInv, ExportOrder, ManifestIsHonest, VerifyExports

(***************************************************************************)
(* Files that fit the metadata are exports of one content, whatever was    *)
(* interrupted or failed before: metadata are only written after both      *)
(* files of the same export.                                               *)
(***************************************************************************)
THEOREM InterruptedExportsShow == SyncSpec => []ManifestIsHonest
<1>1. SyncInv /\ [SyncNext \/ KillCommand]_syncVars => SyncInv'
  BY SyncInvStep, SyncInvUnchanged
<1> QED
  BY SyncInvInit, <1>1, ExportOrderIsHonest, PTL DEF SyncSpec

----------------------------------------------------------------------------
(* Synchronizations: the gate's bar.                                       *)

Passed(i) == runs[i].status \in Permitted

\* The running synchronization compares with the last run that passed, if
\* only blocked ones follow it.
BarHeld ==
    /\ \A i \in DOMAIN runs : Passed(i) => runs[i].crl \in Rates
    /\ syncing =>
          /\ pc \in {"supplement", "csv", "bloom", "metadata", "gate"} =>
                runs[Len(runs)].crl \in Rates
          /\ pc # "report" =>
                /\ ~Passed(Len(runs))
                /\ \A i \in DOMAIN runs :
                      \/ i = Len(runs) \/ ~Passed(i) \/ previous = runs[i].crl
                      \/ \E k \in i + 1..Len(runs) - 1 : runs[k].status # "blocked"

BarInv == SyncInv /\ BarHeld /\ BlockedRunsKeepTheBar

LEMMA NoneIsNoRate == None \notin Rates
<1>1. 0..100 \subseteq Nat
  OBVIOUS
<1> QED
  BY <1>1, SyncConstants

LEMMA RatesAreIntegers == Rates \subseteq Int
<1>1. 0..100 \subseteq Int
  OBVIOUS
<1> QED
  BY <1>1, SyncConstants

LEMMA PreviousOfBlocked ==
    ASSUME SyncInv, BarHeld, NEW i \in DOMAIN runs, Passed(i),
           \A k \in i + 1..Len(runs) : runs[k].status = "blocked"
    PROVE  PreviousRate = runs[i].crl
<1> DEFINE recorded == {j \in DOMAIN runs : runs[j].status # "blocked" /\ runs[j].crl # None}
<1>1. runs[i].crl \in Rates /\ runs[i].crl # None
  BY NoneIsNoRate DEF BarHeld
<1>2. i \in recorded
  BY <1>1 DEF Passed, Permitted
<1>3. recorded \subseteq Nat /\ \A j \in recorded : i >= j
  BY DEF SyncInv, SyncTypeOK
<1>4. Max(recorded) = i
  <2> HIDE DEF recorded
  <2>1. i \in Nat
    BY <1>2, <1>3
  <2>2. \E x \in recorded : \A y \in recorded : x >= y
    BY <1>2, <1>3
  <2>3. Max(recorded) \in recorded /\ \A y \in recorded : Max(recorded) >= y
    BY <2>2 DEF Max
  <2>4. Max(recorded) >= i /\ i >= Max(recorded) /\ Max(recorded) \in Nat
    BY <1>2, <1>3, <2>3
  <2> QED
    BY <2>1, <2>4
<1> QED
  BY <1>1, <1>2, <1>4 DEF PreviousRate

\* Steps that leave the rows alone.
LEMMA SameRunsKeepBar ==
    ASSUME BarHeld, BlockedRunsKeepTheBar, runs' = runs,
           ~syncing' \/ (syncing /\ previous' = previous /\ (pc = "report" => pc' = "report")
                         /\ (pc' \in {"supplement", "csv", "bloom", "metadata", "gate"} =>
                                pc \in {"supplement", "csv", "bloom", "metadata", "gate"}))
    PROVE  BarHeld' /\ BlockedRunsKeepTheBar'
BY DEF BarHeld, Passed, BlockedRunsKeepTheBar

LEMMA RowsAfterUpdate ==
    ASSUME runs \in Seq(Run), runs # <<>>, NEW run \in Run,
           runs' = [runs EXCEPT ![Len(runs)] = run]
    PROVE  /\ Len(runs') = Len(runs) /\ DOMAIN runs' = DOMAIN runs
           /\ Len(runs) \in DOMAIN runs
           /\ runs'[Len(runs)] = run
           /\ \A i \in DOMAIN runs : i # Len(runs) => runs'[i] = runs[i]
<1>1. Len(runs) \in 1..Len(runs) /\ DOMAIN runs = 1..Len(runs)
  OBVIOUS
<1>2. runs' \in Seq(Run) /\ Len(runs') = Len(runs)
  BY <1>1, ExceptSeq
<1>3. DOMAIN runs' = DOMAIN runs
  BY <1>1, <1>2
<1> QED
  BY <1>1, <1>2, <1>3

\* The last row is finished, and passes only if the bar is kept.
LEMMA FinishKeepsBar ==
    ASSUME BarInv, syncing, pc # "report", pc' = "report",
           NEW run \in Run, runs' = [runs EXCEPT ![Len(runs)] = run],
           run.status \in Permitted =>
              /\ run.crl \in Rates
              /\ previous = None \/ run.crl >= previous - MaxDrop
    PROVE  BarHeld' /\ BlockedRunsKeepTheBar'
<1>1. BarHeld /\ BlockedRunsKeepTheBar /\ runs \in Seq(Run) /\ runs # <<>>
  BY DEF BarInv, SyncInv, SyncTypeOK, HasRow
<1>2. PICK n \in Nat : n = Len(runs)
  BY <1>1
<1>3. /\ Len(runs') = n /\ DOMAIN runs' = 1..n /\ DOMAIN runs = 1..n
      /\ runs'[n] = run /\ n \in 1..n
      /\ \A i \in 1..n : i # n => runs'[i] = runs[i]
  BY <1>1, <1>2, RowsAfterUpdate
<1>4. BarHeld'
  <2>1. ASSUME NEW i \in 1..n, Passed(i)' PROVE runs'[i].crl \in Rates
    BY <1>1, <1>3, <2>1 DEF BarHeld, Passed
  <2> QED
    BY <1>3, <2>1 DEF BarHeld
<1>5. BlockedRunsKeepTheBar'
  <2>1. ASSUME NEW i \in 1..n, NEW j \in 1..n, i < j, Passed(i)', Passed(j)',
               ~(runs'[j].crl >= runs'[i].crl - MaxDrop)
        PROVE  \E k \in i + 1..j - 1 : runs'[k].status # "blocked"
    <3>1. i # n /\ runs'[i] = runs[i] /\ Passed(i)
      BY <1>3, <2>1 DEF Passed
    <3>2. \A k \in i + 1..j - 1 : k \in 1..n /\ k # n
      OBVIOUS
    <3>3. \E k \in i + 1..j - 1 : runs[k].status # "blocked"
      <4>1. CASE j = n
        <5>1. run.crl \in Rates /\ (previous = None \/ run.crl >= previous - MaxDrop)
          BY <1>3, <2>1, <4>1 DEF Passed
        <5>2. runs[i].crl \in Rates /\ runs[i].crl # None
          BY <1>1, <1>3, <3>1, NoneIsNoRate DEF BarHeld
        <5>3. previous # runs[i].crl
          BY <1>3, <2>1, <3>1, <4>1, <5>1, <5>2
        <5> QED
          BY <1>1, <1>2, <1>3, <3>1, <4>1, <5>3 DEF BarHeld
      <4>2. CASE j # n
        <5>1. runs'[j] = runs[j] /\ Passed(j)
          BY <1>3, <2>1, <4>2 DEF Passed
        <5> QED
          BY <1>1, <1>3, <2>1, <3>1, <5>1 DEF BlockedRunsKeepTheBar, Passed
      <4> QED
        BY <4>1, <4>2
    <3> QED
      BY <1>3, <3>2, <3>3
  <2>2. DOMAIN runs' = 1..n
    BY <1>3
  <2> QED
    BY <2>1, <2>2 DEF BlockedRunsKeepTheBar, Passed
<1> QED
  BY <1>4, <1>5

LEMMA BarStep == BarInv /\ [SyncNext \/ KillCommand]_syncVars => BarInv'
<1> SUFFICES ASSUME BarInv, [SyncNext \/ KillCommand]_syncVars PROVE BarInv'
  OBVIOUS
<1>0. SyncInv /\ BarHeld /\ BlockedRunsKeepTheBar
  BY DEF BarInv
<1>t. SyncTypeOK /\ HasRow
  BY <1>0 DEF SyncInv
<1>i. SyncInv'
  BY <1>0, SyncInvStep, SyncInvUnchanged
<1>l. runs \in Seq(Run) /\ Len(runs) \in Nat /\ DOMAIN runs = 1..Len(runs)
  BY <1>t DEF SyncTypeOK
<1>1. CASE UNCHANGED syncVars
  BY <1>0, <1>1, <1>i, SameRunsKeepBar DEF BarInv, syncVars, database, command
<1>2. CASE Edit \/ Tick
  BY <1>0, <1>2, <1>i, SameRunsKeepBar DEF BarInv, Edit, Tick, database, command
<1>3. CASE KillCommand
  BY <1>0, <1>3, <1>i, SameRunsKeepBar DEF BarInv, KillCommand, EndCommand, database
<1>4. CASE StartExport \/ WriteReport
  BY <1>0, <1>t, <1>4, <1>i, SameRunsKeepBar
     DEF BarInv, HasRow, StartExport, WriteReport, LockFree, EndCommand, database
<1>5. CASE Supplement \/ ExportCsv \/ ExportBloom \/ ExportMetadata \/ ExportFails
  <2>1. \/ EndCommand
        \/ syncing' = syncing /\ previous' = previous
           /\ pc \in {"supplement", "csv", "bloom", "metadata"}
    BY <1>5 DEF Supplement, ExportCsv, ExportBloom, ExportMetadata, ExportFails, Proceed
  <2>2. runs' = runs
    BY <1>5 DEF Supplement, ExportCsv, ExportBloom, ExportMetadata, ExportFails, database
  <2> QED
    BY <1>0, <1>i, <2>1, <2>2, SameRunsKeepBar DEF BarInv, EndCommand
<1>6. CASE StartSync
  <2> DEFINE run == [id |-> started', status |-> "running", crl |-> None,
                     version |-> None, keys |-> None]
  <2>0. PICK n \in Nat : n = Len(runs)
    BY <1>l
  <2>1. /\ runs' = Append(runs, run) /\ previous' = PreviousRate /\ pc' = "crl"
    BY <1>6 DEF StartSync
  <2>2. /\ Len(runs') = n + 1 /\ DOMAIN runs' = 1..n + 1
        /\ \A i \in 1..n : runs'[i] = runs[i]
        /\ runs'[n + 1] = run
    <3> HIDE DEF run
    <3> QED
      BY <1>l, <2>0, <2>1
  <2>3. run.status = "running" /\ ~Passed(n + 1)'
    BY <2>2 DEF Passed, Permitted
  <2>4. \A i \in 1..n : Passed(i)' <=> Passed(i)
    BY <2>2 DEF Passed
  <2>5. ASSUME NEW i \in 1..n, Passed(i), previous' # runs[i].crl
        PROVE  \E k \in i + 1..n : runs[k].status # "blocked"
    BY <1>0, <1>l, <2>0, <2>1, <2>5, PreviousOfBlocked
  <2>6. BarHeld'
    <3>1. \A i \in DOMAIN runs' : Passed(i)' => runs'[i].crl \in Rates
      BY <1>0, <1>l, <2>0, <2>2, <2>3, <2>4 DEF BarHeld
    <3>2. (~Passed(Len(runs)))'
      BY <1>l, <2>0, <2>2, <2>3
    <3>3. ASSUME NEW i \in DOMAIN runs', i # Len(runs'), Passed(i)', previous' # runs'[i].crl
          PROVE  \E k \in i + 1..Len(runs') - 1 : runs'[k].status # "blocked"
      <4>1. i \in 1..n /\ Passed(i) /\ previous' # runs[i].crl
        BY <1>l, <2>0, <2>2, <2>4, <3>3
      <4>2. PICK k \in i + 1..n : runs[k].status # "blocked"
        BY <4>1, <2>5
      <4>3. k \in 1..n /\ k \in i + 1..Len(runs') - 1
        BY <1>l, <2>0, <2>2, <4>1
      <4> QED
        BY <2>2, <4>2, <4>3
    <3> QED
      BY <2>1, <3>1, <3>2, <3>3 DEF BarHeld
  <2>7. BlockedRunsKeepTheBar'
    <3>1. ASSUME NEW i \in DOMAIN runs', NEW j \in DOMAIN runs', i < j, Passed(i)', Passed(j)',
                 ~(runs'[j].crl >= runs'[i].crl - MaxDrop)
          PROVE  \E k \in i + 1..j - 1 : runs'[k].status # "blocked"
      <4>1. i \in 1..n /\ j \in 1..n /\ Passed(i) /\ Passed(j)
            /\ ~(runs[j].crl >= runs[i].crl - MaxDrop)
        BY <1>l, <2>0, <2>2, <2>3, <2>4, <3>1
      <4>2. PICK k \in i + 1..j - 1 : runs[k].status # "blocked"
        BY <1>0, <1>l, <2>0, <3>1, <4>1 DEF BlockedRunsKeepTheBar, Passed
      <4>3. k \in 1..n
        BY <1>l, <4>1
      <4> QED
        BY <2>2, <4>2, <4>3
    <3> QED
      BY <3>1 DEF BlockedRunsKeepTheBar, Passed
  <2> QED
    BY <1>i, <2>6, <2>7 DEF BarInv
<1>7. CASE CrlStage
  <2>1. syncing /\ runs # <<>> /\ pc = "crl" /\ syncing' = syncing /\ previous' = previous
    BY <1>7, <1>t DEF CrlStage, HasRow
  <2>2. PICK result \in Rates \cup {Failed} :
          RecordCrl(result) /\ ((pc' = "supplement" /\ result \in Rates) \/ pc' = "abort")
    BY <1>7 DEF CrlStage
  <2>3. PICK n \in Nat : n = Len(runs)
    BY <1>l
  <2>4. PICK run \in Run : run = [runs[n] EXCEPT !.crl = result]
    <3>1. runs[n] \in Run
      BY <1>l, <2>1, <2>3
    <3> QED
      BY <3>1 DEF Run
  <2>5. runs' = [runs EXCEPT ![Len(runs)] = run]
    BY <2>2, <2>3, <2>4 DEF RecordCrl
  <2>6. /\ Len(runs') = n /\ DOMAIN runs' = 1..n /\ DOMAIN runs = 1..n
        /\ runs'[n] = run /\ n \in 1..n
        /\ \A i \in 1..n : i # n => runs'[i] = runs[i]
    BY <1>l, <2>1, <2>3, <2>5, RowsAfterUpdate
  <2>7. run.status = runs[n].status /\ run.crl = result
    <3>1. runs[n] \in Run
      BY <1>l, <2>1, <2>3
    <3> QED
      BY <2>4, <3>1 DEF Run
  <2>8. ~Passed(n) /\ \A i \in 1..n : runs'[i].status = runs[i].status
    BY <1>0, <2>1, <2>3, <2>6, <2>7 DEF BarHeld
  <2>9. BarHeld'
    <3>1. ASSUME NEW i \in 1..n, Passed(i)' PROVE runs'[i].crl \in Rates
      <4>1. i # n /\ Passed(i)
        BY <2>8, <3>1 DEF Passed
      <4> QED
        BY <1>0, <2>6, <4>1 DEF BarHeld
    <3>2. (~Passed(Len(runs)))'
      BY <2>6, <2>8 DEF Passed
    <3>3. pc' = "supplement" => runs'[n].crl \in Rates
      BY <2>2, <2>6, <2>7
    <3>4. ASSUME NEW i \in 1..n, i # n, Passed(i)', previous' # runs'[i].crl
          PROVE  \E k \in i + 1..n - 1 : runs'[k].status # "blocked"
      <4>1. Passed(i) /\ previous # runs[i].crl
        BY <2>1, <2>6, <2>8, <3>4 DEF Passed
      <4>2. PICK k \in i + 1..n - 1 : runs[k].status # "blocked"
        BY <1>0, <2>1, <2>3, <2>6, <3>4, <4>1 DEF BarHeld
      <4>3. k \in 1..n
        OBVIOUS
      <4> QED
        BY <2>8, <4>2, <4>3
    <3> QED
      BY <2>2, <2>6, <3>1, <3>2, <3>3, <3>4 DEF BarHeld
  <2>10. BlockedRunsKeepTheBar'
    <3>1. ASSUME NEW i \in 1..n, NEW j \in 1..n, i < j, Passed(i)', Passed(j)',
                 ~(runs'[j].crl >= runs'[i].crl - MaxDrop)
          PROVE  \E k \in i + 1..j - 1 : runs'[k].status # "blocked"
      <4>1. i # n /\ j # n /\ Passed(i) /\ Passed(j)
        BY <2>8, <3>1 DEF Passed
      <4>2. PICK k \in i + 1..j - 1 : runs[k].status # "blocked"
        BY <1>0, <2>6, <3>1, <4>1 DEF BlockedRunsKeepTheBar, Passed
      <4>3. k \in 1..n
        OBVIOUS
      <4> QED
        BY <2>8, <4>2, <4>3
    <3> QED
      BY <2>6, <3>1 DEF BlockedRunsKeepTheBar, Passed
  <2> QED
    BY <1>i, <2>9, <2>10 DEF BarInv
<1>8. CASE Gate \/ Abort
  <2> DEFINE last == runs[Len(runs)]
  <2>1. syncing /\ runs # <<>> /\ pc # "report"
    BY <1>8, <1>t DEF Gate, Abort, HasRow
  <2>2. last \in Run
    BY <1>l, <2>1
  <2>3. CASE Abort \/ Blockers(last.crl)
    <3> DEFINE run == [last EXCEPT !.status = "blocked", !.version = None, !.keys = None]
    <3>1. FinishSyncRun("blocked", None, None)
      BY <1>8, <2>3 DEF Gate, Abort
    <3>2. run \in Run /\ run.status = "blocked"
      BY <2>2 DEF Run
    <3>3. runs' = [runs EXCEPT ![Len(runs)] = run] /\ pc' = "report"
      BY <3>1 DEF FinishSyncRun, Proceed
    <3> HIDE DEF run
    <3>4. BarHeld' /\ BlockedRunsKeepTheBar'
      BY <2>1, <3>2, <3>3, FinishKeepsBar DEF Permitted
    <3> QED
      BY <1>i, <3>4 DEF BarInv
  <2>4. CASE Gate /\ ~Blockers(last.crl)
    <3> DEFINE run == [last EXCEPT !.status = quality, !.version = metadata.version,
                                   !.keys = Count[content]]
    <3>1. FinishSyncRun(quality, metadata.version, Count[content])
      BY <2>4 DEF Gate
    <3>2. last.crl \in Rates
      BY <1>0, <2>1, <2>4 DEF BarHeld, Gate
    <3>3. /\ quality \in {"blocked", "ready", "degraded"}
          /\ metadata.version \in 0..MaxMinute \cup {None} /\ Count[content] \in Nat
      BY <1>t, ConstantFacts DEF SyncTypeOK, Metadata, NoMetadata, Permitted
    <3>4. run \in Run /\ run.crl = last.crl
      BY <2>2, <3>3 DEF Run
    <3>5. runs' = [runs EXCEPT ![Len(runs)] = run] /\ pc' = "report"
      BY <3>1 DEF FinishSyncRun, Proceed
    <3>6. previous = None \/ last.crl >= previous - MaxDrop
      <4>1. ~(previous # None /\ last.crl < previous - MaxDrop)
        BY <2>4 DEF Blockers
      <4>2. last.crl \in Int
        BY <3>2, RatesAreIntegers
      <4>3. previous # None => previous \in Int
        BY <1>t, RatesAreIntegers DEF SyncTypeOK
      <4> QED
        BY <4>1, <4>2, <4>3 DEF MaxDrop
    <3> HIDE DEF run
    <3>7. BarHeld' /\ BlockedRunsKeepTheBar'
      BY <2>1, <3>2, <3>4, <3>5, <3>6, FinishKeepsBar
    <3> QED
      BY <1>i, <3>7 DEF BarInv
  <2> QED
    BY <1>8, <2>3, <2>4
<1> QED
  BY <1>1, <1>2, <1>3, <1>4, <1>5, <1>6, <1>7, <1>8 DEF SyncNext

(***************************************************************************)
(* For any rates and any number of runs, failures and kills: blocked runs  *)
(* do not lower the success rate that the gate asks for, because the       *)
(* baseline skips them.                                                    *)
(***************************************************************************)
THEOREM BarIsKept == SyncSpec => []BlockedRunsKeepTheBar
<1>1. SyncInit => BarInv
  <2>1. SyncInit => BarHeld /\ BlockedRunsKeepTheBar
    BY DEF SyncInit, BarHeld, BlockedRunsKeepTheBar
  <2> QED
    BY <2>1, SyncInvInit DEF BarInv
<1>2. BarInv => BlockedRunsKeepTheBar
  BY DEF BarInv
<1> QED
  BY <1>1, <1>2, BarStep, PTL DEF SyncSpec

----------------------------------------------------------------------------
(* Releases: the inductive invariant.                                      *)

\* The part of ContentMatches that the lock keeps.
ExportsMatch ==
    /\ Count[content] = report.keys /\ metadata.keys = report.keys
    /\ csv = content /\ bloom = content

\* What the checks have established, and what is left of it.
Checked ==
    /\ pc = "verify" => report # None /\ report.status \in Permitted /\ VerifyExports
    /\ pc = "build" =>
          /\ rows = content
          /\ RunMatches /\ report.status \in Permitted
          /\ VerifyExports /\ ExportsMatch /\ dbStats \in {Count[content], Torn}
          /\ metadata.version = report.version
    /\ built # None =>
          /\ pc \in {"clear", "move_out", "move_in"}
          /\ built.content = content /\ built.runs = runs

\* At each step of the replacement, where the last release is.
Located ==
    /\ pc \in {"clear", "move_out", "move_in"} => Complete(built)
    /\ pc = "clean" => Complete(output)
    /\ pc = "move_in" => output = None
    /\ interruptions = 0 =>
          IF pc = "move_in" THEN Complete(old) ELSE Complete(output)
    /\ interruptions < Many =>
          CASE pc \in {"clear", "move_out"} -> output = None \/ Complete(output)
            [] pc = "move_in" -> TRUE
            [] OTHER -> Complete(output) \/ (output = None /\ Complete(old))

ReleasesTyped ==
    /\ dbStats \in Nat \cup {None, Torn}
    /\ \A release \in {built, output, old} : release \in Releases \cup {None}
    /\ interruptions \in 0..Many

Inv == SyncInv /\ ReleasesTyped /\ Checked /\ ReleasesConsistent /\ Located

LEMMA InvInit == Init => Inv
<1> SUFFICES ASSUME Init PROVE Inv
  OBVIOUS
<1>1. SyncInv
  BY SyncInvInit DEF Init
<1>2. ReleasesTyped
  BY DEF Init, ReleasesTyped, Many
<1>3. Checked /\ ReleasesConsistent
  BY DEF Init, SyncInit, Checked, ReleasesConsistent
<1>4. Located
  BY DEF Init, SyncInit, Located, Many
<1> QED
  BY <1>1, <1>2, <1>3, <1>4 DEF Inv

LEMMA InvUnchanged == Inv /\ UNCHANGED vars => Inv'
<1> SUFFICES ASSUME Inv, UNCHANGED vars PROVE Inv'
  OBVIOUS
<1> USE DEF vars, directories
<1>1. SyncInv'
  BY SyncInvUnchanged DEF Inv
<1> USE DEF syncVars, database, exports, command
<1>2. ReleasesTyped'
  BY DEF Inv, ReleasesTyped
<1>3. Checked'
  BY DEF Inv, Checked, RunMatches, VerifyExports, ExportsMatch
<1>4. ReleasesConsistent'
  BY DEF Inv, ReleasesConsistent
<1>5. Located'
  BY DEF Inv, Located, Complete
<1> QED
  BY <1>1, <1>2, <1>3, <1>4, <1>5 DEF Inv

----------------------------------------------------------------------------
(* Steps of other commands: while one runs, nothing is being prepared.     *)

Preparing == pc \in {"verify", "build", "clear", "move_out", "move_in", "clean"}

\* The steps of SyncNext that are not the clock are of commands that are not
\* preparations, and start none.
LEMMA SyncStepsOutside ==
    ASSUME SyncNext, ~Tick
    PROVE  ~Preparing /\ ~Preparing'
BY DEF SyncNext, Preparing, Edit, StartSync, CrlStage, Supplement, ExportCsv, ExportBloom,
       ExportMetadata, ExportFails, Gate, Abort, FinishSyncRun, WriteReport, StartExport,
       LockFree, Proceed, EndCommand, command

LEMMA ReleasesStay ==
    ASSUME ReleasesConsistent, UNCHANGED directories
    PROVE  ReleasesConsistent'
BY DEF ReleasesConsistent, directories

LEMMA SyncKeepsInv ==
    ASSUME Inv, SyncNext, UNCHANGED <<dbStats, directories, interruptions>>
    PROVE  Inv'
<1>1. SyncInv'
  BY SyncInvStep DEF Inv
<1>2. ReleasesTyped'
  BY DEF Inv, ReleasesTyped, directories
<1>3. ReleasesConsistent'
  BY ReleasesStay DEF Inv
<1>4. CASE Tick
  <2>1. Checked'
    BY <1>4 DEF Tick, Inv, Checked, RunMatches, VerifyExports, ExportsMatch, database,
                exports, command, directories
  <2>2. Located'
    BY <1>4 DEF Tick, Inv, Located, Complete, command, directories
  <2> QED
    BY <1>1, <1>2, <1>3, <2>1, <2>2 DEF Inv
<1>5. CASE ~Tick
  <2>1. ~Preparing /\ ~Preparing'
    BY <1>5, SyncStepsOutside
  <2>2. Checked'
    BY <2>1 DEF Inv, Checked, Preparing, directories
  <2>3. Located'
    BY <2>1 DEF Inv, Located, Complete, Preparing, directories
  <2> QED
    BY <1>1, <1>2, <1>3, <2>2, <2>3 DEF Inv
<1> QED
  BY <1>4, <1>5

----------------------------------------------------------------------------
(* Steps of prepare-release and restore-release.                           *)

LEMMA ContinueKeepsSyncInv ==
    ASSUME SyncInv, NEW next, Continue(next),
           next \in {"idle", "verify", "build", "clear", "move_out", "move_in", "clean"}
    PROVE  SyncInv'
<1>1. /\ runs' \in Seq(Run) /\ content' \in Contents /\ report' \in Run \cup {None}
      /\ metadata' \in Metadata \cup {NoMetadata} /\ metadata.csv' = metadata.bloom'
      /\ UNCHANGED <<database, started, minute, csv, bloom, report>>
  BY DEF Continue, SyncInv, SyncTypeOK, ExportOrder, database, exports
<1>2. CASE next = "idle"
  BY <1>1, <1>2, CommandEnds DEF Continue
<1>3. CASE next # "idle"
  BY <1>1, <1>3, CommandProceeds DEF Continue
<1> QED
  BY <1>2, <1>3

LEMMA MetadataPresent ==
    ASSUME SyncInv, VerifyExports
    PROVE  metadata \in Metadata
BY DEF SyncInv, SyncTypeOK, VerifyExports, NoMetadata

\* A release that is half removed is still of one content.
LEMMA PartialKeeps ==
    ASSUME NEW release \in Releases \cup {None}, release # None => Consistent(release)
    PROVE  /\ Partial(release) \in Releases \cup {None}
           /\ Partial(release) # None => Consistent(Partial(release))
<1>1. CASE release = None
  BY <1>1 DEF Partial
<1>2. CASE release # None
  <2>1. release \in Releases /\ Consistent(release)
    BY <1>2
  <2>2. Partial(release) = [release EXCEPT !.complete = FALSE]
    BY <1>2 DEF Partial
  <2>3. Partial(release) \in Releases
    BY <2>1, <2>2 DEF Releases
  <2>4. /\ Partial(release).content = release.content /\ Partial(release).runs = release.runs
        /\ Partial(release).csv = release.csv /\ Partial(release).bloom = release.bloom
        /\ Partial(release).metadata = release.metadata
        /\ Partial(release).stats = release.stats /\ Partial(release).run = release.run
    BY <2>1, <2>2 DEF Releases
  <2> QED
    BY <2>1, <2>3, <2>4 DEF Consistent
<1> QED
  BY <1>1, <1>2

LEMMA StartPrepareKeepsInv == Inv /\ StartPrepare => Inv'
<1> SUFFICES ASSUME Inv, StartPrepare PROVE Inv'
  OBVIOUS
<1> USE DEF StartPrepare
<1>1. SyncInv'
  BY ContinueKeepsSyncInv DEF Inv
<1>2. ReleasesTyped'
  BY DEF Inv, ReleasesTyped, directories, Continue
<1>3. Checked'
  BY DEF Inv, Checked, LockFree, Continue, Proceed, exports, directories, VerifyExports
<1>4. ReleasesConsistent'
  BY ReleasesStay DEF Inv
<1>5. Located'
  BY DEF Inv, Located, Complete, LockFree, Continue, Proceed, directories
<1> QED
  BY <1>1, <1>2, <1>3, <1>4, <1>5 DEF Inv

LEMMA VerifyKeepsInv == Inv /\ VerifyReleaseRun => Inv'
<1> SUFFICES ASSUME Inv, VerifyReleaseRun PROVE Inv'
  OBVIOUS
<1> USE DEF VerifyReleaseRun
<1>1. SyncTypeOK'
  BY DEF Inv, SyncInv, SyncTypeOK, database, exports
<1>2. HasRow' /\ ExportOrder'
  BY DEF Inv, SyncInv, HasRow, ExportOrder, database, exports
<1>3. SyncInv'
  BY <1>1, <1>2 DEF SyncInv
<1>4. ReleasesTyped'
  BY DEF Inv, ReleasesTyped, directories
<1>5. Checked'
  BY DEF Inv, Checked, RunMatches, ContentMatches, ExportsMatch, VerifyExports, database,
         exports, directories
<1>6. ReleasesConsistent'
  BY ReleasesStay DEF Inv
<1>7. Located'
  BY DEF Inv, Located, Complete, directories
<1> QED
  BY <1>3, <1>4, <1>5, <1>6, <1>7 DEF Inv

LEMMA BuildKeepsInv == Inv /\ Build => Inv'
<1> SUFFICES ASSUME Inv, Build PROVE Inv'
  OBVIOUS
<1>1. SyncInv'
  BY ContinueKeepsSyncInv DEF Inv, Build
<1>2. /\ rows = content /\ RunMatches /\ report.status \in Permitted
      /\ VerifyExports /\ ExportsMatch /\ metadata.version = report.version
      /\ dbStats \in {Count[content], Torn}
  BY DEF Inv, Checked, Build
<1>3. metadata \in Metadata
  BY <1>2, MetadataPresent DEF Inv
<1>4. content \in Contents /\ runs \in Seq(Run) /\ Count[content] \in Nat
  BY ConstantFacts DEF Inv, SyncInv, SyncTypeOK
<1>5. report \in Run
  BY <1>2, <1>4, LastRunTyped DEF RunMatches
<1>6. built' \in Releases
  BY <1>2, <1>3, <1>4, <1>5 DEF Build, Releases, ExportsMatch
<1>7. built'.content = content /\ built'.runs = runs /\ built'.complete = TRUE /\ built' # None
  BY <1>2, <1>6, ReleaseConstants DEF Build
<1>8. Consistent(built')
  <2>1. metadata = [csv |-> content, bloom |-> content, version |-> report.version,
                    keys |-> Count[content]]
    BY <1>2, <1>3 DEF Metadata, VerifyExports, ExportsMatch
  <2> QED
    BY <1>2, <2>1 DEF Build, Consistent, RunMatches, ExportsMatch
<1>9. ReleasesTyped'
  BY <1>6 DEF Inv, ReleasesTyped, Build, Continue
<1>10. Checked'
  BY <1>7 DEF Build, Continue, Proceed, Checked, database
<1>11. ReleasesConsistent'
  BY <1>8 DEF Inv, ReleasesConsistent, Build
<1>12. Located'
  BY <1>7 DEF Inv, Located, Complete, Build, Continue, Proceed
<1> QED
  BY <1>1, <1>9, <1>10, <1>11, <1>12 DEF Inv

LEMMA RemoveSomeKeepsInv == Inv /\ RemoveSome => Inv'
<1> SUFFICES ASSUME Inv, RemoveSome PROVE Inv'
  OBVIOUS
<1> USE DEF RemoveSome
<1>1. SyncInv' /\ pc' = pc /\ UNCHANGED <<content, runs>>
  BY ContinueKeepsSyncInv DEF Inv, Continue, Proceed, database
<1>2. /\ Partial(old) \in Releases \cup {None}
      /\ Partial(old) # None => Consistent(Partial(old))
  BY PartialKeeps DEF Inv, ReleasesTyped, ReleasesConsistent
<1>3. ReleasesTyped'
  BY <1>2 DEF Inv, ReleasesTyped, Continue
<1>4. Checked'
  BY <1>1 DEF Inv, Checked
<1>5. ReleasesConsistent'
  BY <1>2 DEF Inv, ReleasesConsistent
<1>6. Located'
  BY <1>1 DEF Inv, Located, Complete
<1> QED
  BY <1>1, <1>3, <1>4, <1>5, <1>6 DEF Inv

LEMMA ReplacementKeepsInv == Inv /\ (RemoveOld \/ MoveOut \/ MoveIn) => Inv'
<1> SUFFICES ASSUME Inv, RemoveOld \/ MoveOut \/ MoveIn PROVE Inv'
  OBVIOUS
<1> USE DEF RemoveOld, MoveOut, MoveIn
<1>1. PICK next \in {"idle", "move_out", "move_in", "clean"} : Continue(next)
  OBVIOUS
<1>2. SyncInv' /\ UNCHANGED <<content, runs>>
  BY <1>1, ContinueKeepsSyncInv DEF Inv, Continue, database
<1>3. ReleasesTyped'
  BY <1>1 DEF Inv, ReleasesTyped, Continue, Many
<1>4. Checked'
  BY <1>2 DEF Inv, Checked, Continue, Proceed, EndCommand
<1>5. ReleasesConsistent'
  BY DEF Inv, ReleasesConsistent
<1>6. CASE RemoveOld
  <2>1. Located'
    BY <1>6 DEF Inv, Located, Complete, Continue, Proceed, EndCommand
  <2> QED
    BY <1>2, <1>3, <1>4, <1>5, <2>1 DEF Inv
<1>7. CASE MoveOut
  <2>1. Located'
    BY <1>7 DEF Inv, Located, Complete, Continue, Proceed
  <2> QED
    BY <1>2, <1>3, <1>4, <1>5, <2>1 DEF Inv
<1>8. CASE MoveIn
  <2>1. Located'
    BY <1>8 DEF Inv, Located, Complete, Continue, Proceed, Many
  <2> QED
    BY <1>2, <1>3, <1>4, <1>5, <2>1 DEF Inv
<1> QED
  BY <1>6, <1>7, <1>8

LEMMA PrepareFailsKeepsInv == Inv /\ PrepareFails => Inv'
<1> SUFFICES ASSUME Inv, PrepareFails PROVE Inv'
  OBVIOUS
<1> USE DEF PrepareFails
<1>1. SyncInv' /\ pc' = "idle"
  BY ContinueKeepsSyncInv DEF Inv, Continue, EndCommand
<1>2. interruptions' \in 0..Many
  BY DEF Inv, ReleasesTyped, Interrupted, Many
<1>3. ReleasesTyped'
  BY <1>2 DEF Inv, ReleasesTyped, Continue, RestoredAfterError
<1>4. Checked'
  BY <1>1 DEF Checked
<1>5. ReleasesConsistent'
  BY DEF Inv, ReleasesConsistent, RestoredAfterError
<1>6. Located'
  BY <1>1 DEF Inv, Located, ReleasesTyped, Complete, RestoredAfterError, Interrupted, Replacing, Many
<1> QED
  BY <1>1, <1>3, <1>4, <1>5, <1>6 DEF Inv

LEMMA KillKeepsInv == Inv /\ Kill => Inv'
<1> SUFFICES ASSUME Inv, Kill PROVE Inv'
  OBVIOUS
<1> USE DEF Kill
<1>1. SyncInv' /\ pc' = "idle"
  BY SyncInvStep DEF Inv, KillCommand, EndCommand
<1>2. interruptions' \in 0..Many
  BY DEF Inv, ReleasesTyped, Interrupted, Many
<1>3. ReleasesTyped'
  BY <1>2 DEF Inv, ReleasesTyped
<1>4. Checked'
  BY <1>1 DEF Checked
<1>5. ReleasesConsistent'
  BY DEF Inv, ReleasesConsistent
<1>6. Located'
  BY <1>1 DEF Inv, Located, ReleasesTyped, Complete, Interrupted, Replacing, Many
<1> QED
  BY <1>1, <1>3, <1>4, <1>5, <1>6 DEF Inv

LEMMA RestoreKeepsInv == Inv /\ RestoreRelease => Inv'
<1> SUFFICES ASSUME Inv, RestoreRelease PROVE Inv'
  OBVIOUS
<1> USE DEF RestoreRelease
<1>1. output \in Releases
  BY DEF Inv, ReleasesTyped
<1>2. content' \in Contents /\ runs' \in Seq(Run)
  BY <1>1 DEF Releases
<1>3. SyncTypeOK'
  BY <1>2 DEF Inv, SyncInv, SyncTypeOK, exports, command
<1>4. HasRow' /\ ExportOrder'
  BY DEF Inv, SyncInv, HasRow, ExportOrder, LockFree, exports, command
<1>5. SyncInv'
  BY <1>3, <1>4 DEF SyncInv
<1>6. ReleasesTyped'
  BY DEF Inv, ReleasesTyped, directories
<1>7. Checked'
  BY DEF Inv, Checked, LockFree, command, directories
<1>8. ReleasesConsistent'
  BY ReleasesStay DEF Inv
<1>9. Located'
  BY DEF Inv, Located, Complete, command, directories
<1> QED
  BY <1>5, <1>6, <1>7, <1>8, <1>9 DEF Inv

LEMMA StatisticsKeepInv == Inv /\ (TruncateStats \/ WriteStats) => Inv'
<1> SUFFICES ASSUME Inv, TruncateStats \/ WriteStats PROVE Inv'
  OBVIOUS
<1> USE DEF TruncateStats, WriteStats
<1>1. SyncInv'
  BY SyncInvUnchanged DEF Inv
<1>2. Count[content] \in Nat /\ dbStats' \in {Torn, Count[content]}
  BY ConstantFacts DEF Inv, SyncInv, SyncTypeOK
<1>3. ReleasesTyped'
  BY <1>2 DEF Inv, ReleasesTyped, directories
<1>4. Checked'
  BY <1>2 DEF Inv, Checked, RunMatches, ExportsMatch, VerifyExports, syncVars, database,
              exports, command, directories
<1>5. ReleasesConsistent'
  BY ReleasesStay DEF Inv
<1>6. Located'
  BY DEF Inv, Located, Complete, syncVars, command, directories
<1> QED
  BY <1>1, <1>3, <1>4, <1>5, <1>6 DEF Inv

LEMMA InvStep == Inv /\ [Next]_vars => Inv'
BY InvUnchanged, SyncKeepsInv, StatisticsKeepInv, StartPrepareKeepsInv, VerifyKeepsInv,
   BuildKeepsInv, RemoveSomeKeepsInv, ReplacementKeepsInv, PrepareFailsKeepsInv, KillKeepsInv,
   RestoreKeepsInv DEF Next

----------------------------------------------------------------------------
(* Releases: theorems.                                                     *)

(***************************************************************************)
(* Every variable of DataRelease keeps its type.                           *)
(***************************************************************************)
THEOREM DataReleaseTypeCorrect == Spec => []TypeOK
<1>1. Inv => TypeOK
  BY DEF Inv, SyncInv, ReleasesTyped, TypeOK
<1> QED
  BY InvInit, InvStep, <1>1, PTL DEF Spec

(***************************************************************************)
(* Whatever synchronizations, exports, statistics, restores and kills come *)
(* before, a release is of one content and of the latest run of its own    *)
(* database, which passed the gate.  Its statistics are of that content,   *)
(* or torn: nothing protects db_stats.json once it has been compared.      *)
(***************************************************************************)
THEOREM ReleasesAreConsistent == Spec => []ReleasesConsistent
<1>1. Inv => ReleasesConsistent
  BY DEF Inv
<1> QED
  BY InvInit, InvStep, <1>1, PTL DEF Spec

(***************************************************************************)
(* Errors alone never take the release from its place, and one kill during *)
(* its replacement leaves a whole one on disk.                             *)
(***************************************************************************)
THEOREM ReleasesSurvive == Spec => []ReleaseSurvives
<1>1. Inv => ReleaseSurvives
  BY DEF Inv, ReleasesTyped, Located, ReleaseSurvives, Complete, LockFree, Many
<1> QED
  BY InvInit, InvStep, <1>1, PTL DEF Spec

(***************************************************************************)
(* The lock makes the checks of prepare-release hold until the release is  *)
(* in place: it is of the database of that moment.                         *)
(***************************************************************************)
THEOREM InstalledReleasesAreCurrent == Spec => InstalledIsCurrent
<1>1. Inv /\ [Next]_vars =>
        [output' # output /\ built # None /\ output' = built =>
            built.content = content /\ built.runs = runs]_vars
  BY DEF Inv, Checked
<1> QED
  BY InvInit, InvStep, <1>1, PTL DEF Spec, InstalledIsCurrent
=============================================================================
