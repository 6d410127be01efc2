------------------------- MODULE LookupStateProofs --------------------------
(***************************************************************************)
(* What the file lock buys, for any records, sources, processes and        *)
(* delays: the selection of a running command stays valid until it is      *)
(* written.                                                                *)
(***************************************************************************)
EXTENDS LookupState, TLAPS

(***************************************************************************)
(* The inductive invariant.  Only the lock's holder runs a command, and    *)
(* what it selected is still without a key, active, not excluded, with an  *)
(* AKI if its source needs one, and (unless the command ignores retry      *)
(* times) not waiting.  The stored miss counts are the history of misses.  *)
(***************************************************************************)
Exclusive ==
    /\ \A p \in Processes : command[p] # Idle => lock = p
    /\ \A p \in Processes : command[p] = Idle => todo[p] = {}

SelectionValid ==
    \A p \in Processes : \A r \in todo[p] :
        /\ Eligible(r)
        /\ command[p].name = "pass" => QueriedBy(command[p].source, r)

CountsExact == \A r \in Records, s \in Sources : misses[r][s] = missed[r][s]

IInv == TypeOK /\ Exclusive /\ SelectionValid /\ BackoffHonoured /\ CountsExact

----------------------------------------------------------------------------
(* Types *)

LEMMA CommandFields ==
    ASSUME NEW c \in Commands
    PROVE  /\ c.name = "pass" => c.source \in Sources /\ c # Idle /\ c # Submission
           /\ c = Submission => c # Idle /\ c.name # "pass"
           /\ c = Idle => c.name # "pass"
  BY DEF Commands, Idle, Submission, Pass

LEMMA SelectionsAreRecords ==
    ASSUME NEW s, NEW b, NEW S \in SUBSET Records, NEW n
    PROVE  /\ Selection(s, b) \subseteq Pending(s, b)
           /\ Pending(s, b) \subseteq Records
           /\ FirstOf(S, n, s) \subseteq S
  BY DEF Selection, FirstOf, Pending

\* Acquiring and releasing the lock, as the commands do it.
LEMMA AcquireKeepsTypes ==
    ASSUME TypeOK, NEW p \in Processes, NEW c \in Commands, Acquire(p, c)
    PROVE  lock' \in Processes \cup {NoOne} /\ command' \in [Processes -> Commands]
  BY DEF TypeOK, Acquire

LEMMA MissesBounded ==
    ASSUME NEW count \in 0..MissLimit, NEW r
    PROVE  AddMiss(count) \in 0..MissLimit /\ MissDelay(r, count) \in 0..LongDelay
  BY LookupConstants DEF AddMiss, MissDelay

LEMMA RecordedTypes ==
    ASSUME TypeOK, NEW s \in Sources, NEW batch \in SUBSET Records,
           NEW outcome \in [batch -> {"found", "not_found", "error"}],
           RecordLookupResults(s, batch, outcome)
    PROVE  /\ key' \in [Records -> Sources \cup {Community, NoKey}]
           /\ misses' \in [Records -> [Sources -> 0..MissLimit]]
           /\ wait' \in [Records -> [Sources -> 0..LongDelay]]
           /\ missed' \in [Records -> [Sources -> 0..MissLimit]]
  <1>1. key' \in [Records -> Sources \cup {Community, NoKey}]
    BY DEF TypeOK, RecordLookupResults
  <1>2. ASSUME NEW r \in batch
        PROVE  /\ MissesAfter(r, s, outcome[r]) \in 0..MissLimit
               /\ WaitAfter(r, s, outcome[r]) \in 0..LongDelay
               /\ MissedAfter(r, s, outcome[r]) \in 0..MissLimit
    <2>1. misses[r][s] \in 0..MissLimit /\ 0 \in 0..MissLimit /\ 0 \in 0..LongDelay
      BY LookupConstants DEF TypeOK
    <2>2. /\ AddMiss(misses[r][s]) \in 0..MissLimit
          /\ MissDelay(r, AddMiss(misses[r][s])) \in 0..LongDelay
      BY <2>1, MissesBounded
    <2>3. outcome[r] \in {"found", "not_found", "error"}
      OBVIOUS
    <2>4. MissesAfter(r, s, outcome[r]) \in 0..MissLimit
      BY <2>1, <2>2, <2>3 DEF MissesAfter
    <2>5. WaitAfter(r, s, outcome[r]) \in 0..LongDelay
      BY <2>1, <2>2, <2>3 DEF WaitAfter
    <2>6. missed[r][s] \in 0..MissLimit
      BY DEF TypeOK
    <2>7. MissedAfter(r, s, outcome[r]) \in 0..MissLimit
      BY <2>3, <2>6, LookupConstants DEF MissedAfter
    <2> QED BY <2>4, <2>5, <2>7
  <1>3. misses' \in [Records -> [Sources -> 0..MissLimit]]
    BY <1>2 DEF TypeOK, RecordLookupResults
  <1>4. wait' \in [Records -> [Sources -> 0..LongDelay]]
    BY <1>2 DEF TypeOK, RecordLookupResults
  <1>5. missed' \in [Records -> [Sources -> 0..MissLimit]]
    BY <1>2 DEF TypeOK, RecordLookupResults
  <1> QED BY <1>1, <1>3, <1>4, <1>5

----------------------------------------------------------------------------
(* Every step keeps the invariant *)

LEMMA InitEstablishes == Init => IInv
  <1> SUFFICES ASSUME Init PROVE IInv
    OBVIOUS
  <1>1. TypeOK
    BY LookupConstants DEF Init, TypeOK, Commands
  <1> QED BY <1>1 DEF Init, IInv, Exclusive, SelectionValid, BackoffHonoured, CountsExact, Idle

\* A process that starts a command with a valid selection.
LEMMA AcquireKeeps ==
    ASSUME IInv, NEW p \in Processes, NEW c \in Commands, c # Idle,
           NEW S \in SUBSET Records,
           \A r \in S : Eligible(r),
           c.name = "pass" => \A r \in S : QueriedBy(c.source, r),
           c.name = "pass" /\ ~c.ignoreRetry =>
                \A r \in S : wait[r][c.source] = 0,
           Acquire(p, c), todo' = [todo EXCEPT ![p] = S], UNCHANGED tables
    PROVE  IInv'
  <1>1. TypeOK'
    BY AcquireKeepsTypes DEF IInv, TypeOK, tables, crlColumns
  <1>2. \A q \in Processes : command[q] = Idle /\ todo[q] = {}
    BY LookupConstants DEF IInv, Exclusive, Acquire, LockFree
  <1>3. command' = [command EXCEPT ![p] = c] /\ lock' = p
    BY DEF Acquire
  <1>4. \A q \in Processes : q # p => command'[q] = Idle /\ todo'[q] = {}
    BY <1>2, <1>3 DEF IInv, TypeOK
  <1>5. command'[p] = c /\ todo'[p] = S
    BY <1>3 DEF IInv, TypeOK
  <1>6. Exclusive'
    BY <1>3, <1>4, <1>5 DEF Exclusive
  <1>7. SelectionValid'
    BY <1>4, <1>5 DEF SelectionValid, Eligible, Excluded, QueriedBy, tables, crlColumns
  <1>8. BackoffHonoured'
    BY <1>4, <1>5 DEF BackoffHonoured, tables
  <1>9. CountsExact'
    BY DEF IInv, CountsExact, tables
  <1> QED BY <1>1, <1>6, <1>7, <1>8, <1>9 DEF IInv

LEMMA ReleaseKeeps ==
    ASSUME IInv, NEW p \in Processes, Release(p)
    PROVE  IInv'
  <1>1. TypeOK'
    BY DEF IInv, TypeOK, Release, tables, crlColumns, Commands
  <1>2. \A q \in Processes : command[q] # Idle => q = p
    BY DEF IInv, Exclusive, Release
  <1>3. \A q \in Processes : command'[q] = Idle /\ todo'[q] = {}
    BY <1>2 DEF IInv, Exclusive, TypeOK, Release
  <1>4. Exclusive' /\ SelectionValid' /\ BackoffHonoured'
    BY <1>3 DEF Exclusive, SelectionValid, BackoffHonoured, Idle
  <1>5. CountsExact'
    BY DEF IInv, CountsExact, Release, tables
  <1> QED BY <1>1, <1>4, <1>5 DEF IInv

\* A batch moves the stored counts and the history of misses alike.
LEMMA CountsStayExact ==
    ASSUME TypeOK, CountsExact, NEW s \in Sources, NEW batch \in SUBSET Records,
           NEW outcome \in [batch -> {"found", "not_found", "error"}],
           RecordLookupResults(s, batch, outcome)
    PROVE  CountsExact'
  <1> SUFFICES ASSUME NEW r \in Records, NEW t \in Sources
               PROVE  misses'[r][t] = missed'[r][t]
    BY DEF CountsExact
  <1>1. /\ misses[r][t] \in 0..MissLimit
        /\ misses[r][t] = missed[r][t]
        /\ misses[r] \in [Sources -> 0..MissLimit]
        /\ missed[r] \in [Sources -> 0..MissLimit]
    BY DEF TypeOK, CountsExact
  <1>2. CASE r \notin batch \/ t # s
    BY <1>1, <1>2 DEF RecordLookupResults
  <1>3. CASE r \in batch /\ t = s
    <2>1. /\ misses'[r][t] = MissesAfter(r, s, outcome[r])
          /\ missed'[r][t] = MissedAfter(r, s, outcome[r])
      BY <1>1, <1>3 DEF RecordLookupResults
    <2>2. outcome[r] \in {"found", "not_found", "error"}
      BY <1>3
    <2> QED BY <1>1, <1>3, <2>1, <2>2 DEF MissesAfter, MissedAfter, AddMiss
  <1> QED BY <1>2, <1>3

LEMMA RecordBatchKeeps ==
    ASSUME IInv, NEW p \in Processes, RecordBatch(p)
    PROVE  IInv'
  <1> DEFINE s == command[p].source
             batch == FirstOf(todo[p], BatchSize, s)
  <1>1. command[p] \in Commands /\ todo[p] \in SUBSET Records
    BY DEF IInv, TypeOK
  <1>2. s \in Sources /\ command[p] # Idle
    BY <1>1, CommandFields DEF RecordBatch
  <1>3. batch \subseteq todo[p] /\ batch \in SUBSET Records
    BY <1>1, SelectionsAreRecords
  <1>4. PICK outcome \in [batch -> {"found", "not_found", "error"}] :
            /\ RecordLookupResults(s, batch, outcome)
            /\ \/ todo' = [todo EXCEPT ![p] = {}]
               \/ todo' = [todo EXCEPT ![p] = @ \ batch]
    BY DEF RecordBatch
  <1>5. UNCHANGED <<lock, command, recent, withAki, cleaned, exclusion>>
    BY <1>4 DEF RecordBatch, RecordLookupResults, crlColumns
  <1>6. TypeOK'
    BY <1>1, <1>2, <1>3, <1>4, <1>5, RecordedTypes DEF IInv, TypeOK
  <1>7. \A q \in Processes : q # p => todo[q] = {} /\ todo'[q] = {}
    BY <1>2, <1>4 DEF IInv, TypeOK, Exclusive
  <1>8. todo'[p] \subseteq todo[p] \ batch
    BY <1>4 DEF IInv, TypeOK
  <1>9. Exclusive'
    BY <1>2, <1>5, <1>7, <1>8 DEF IInv, Exclusive
  <1>10. \A r \in todo'[p] : key'[r] = key[r] /\ wait'[r] = wait[r]
    BY <1>1, <1>4, <1>8 DEF RecordLookupResults
  <1>11. SelectionValid'
    BY <1>5, <1>7, <1>8, <1>10 DEF IInv, SelectionValid, Eligible, Excluded, QueriedBy
  <1>12. BackoffHonoured'
    BY <1>5, <1>7, <1>8, <1>10 DEF IInv, BackoffHonoured
  <1>13. CountsExact'
    BY <1>2, <1>3, <1>4, CountsStayExact DEF IInv
  <1> QED BY <1>6, <1>9, <1>11, <1>12, <1>13 DEF IInv

LEMMA ExhaustBudgetKeeps ==
    ASSUME IInv, NEW p \in Processes, ExhaustBudget(p)
    PROVE  IInv'
  <1>1. TypeOK'
    BY DEF IInv, TypeOK, ExhaustBudget, tables, crlColumns
  <1>2. \A q \in Processes : todo'[q] \subseteq todo[q]
    BY DEF IInv, TypeOK, ExhaustBudget
  <1>3. Exclusive' /\ SelectionValid' /\ BackoffHonoured'
    BY <1>2 DEF IInv, Exclusive, SelectionValid, BackoffHonoured, Eligible, Excluded,
       QueriedBy, ExhaustBudget, tables, crlColumns
  <1>4. CountsExact'
    BY DEF IInv, CountsExact, ExhaustBudget, tables
  <1> QED BY <1>1, <1>3, <1>4 DEF IInv

LEMMA ApplySubmissionKeeps ==
    ASSUME IInv, NEW p \in Processes, ApplySubmission(p)
    PROVE  IInv'
  <1>1. TypeOK'
    BY DEF IInv, TypeOK, ApplySubmission, crlColumns, Commands
  <1>2. command[p] # Idle
    BY CommandFields DEF IInv, TypeOK, ApplySubmission
  <1>3. \A q \in Processes : command'[q] = Idle /\ todo'[q] = {}
    BY <1>2 DEF IInv, Exclusive, TypeOK, ApplySubmission
  <1>4. Exclusive' /\ SelectionValid' /\ BackoffHonoured'
    BY <1>3 DEF Exclusive, SelectionValid, BackoffHonoured, Idle
  <1>5. CountsExact'
    BY DEF IInv, CountsExact, ApplySubmission
  <1> QED BY <1>1, <1>4, <1>5 DEF IInv

LEMMA SetExclusionKeeps ==
    ASSUME IInv, NEW r \in Records, NEW days \in ExclusionTerms \cup {0},
           SetExclusion(r, days)
    PROVE  IInv'
  <1>1. TypeOK'
    BY LookupConstants DEF IInv, TypeOK, SetExclusion, crlColumns
  <1>2. \A q \in Processes : todo'[q] = {}
    BY LookupConstants DEF IInv, Exclusive, SetExclusion, LockFree
  <1>3. Exclusive' /\ SelectionValid' /\ BackoffHonoured'
    BY <1>2 DEF IInv, Exclusive, SelectionValid, BackoffHonoured, SetExclusion
  <1>4. CountsExact'
    BY DEF IInv, CountsExact, SetExclusion
  <1> QED BY <1>1, <1>3, <1>4 DEF IInv

LEMMA SyncCrlsKeeps == ASSUME IInv, SyncCrls PROVE IInv'
  <1>1. TypeOK'
    BY DEF IInv, TypeOK, SyncCrls
  <1>2. \A q \in Processes : todo'[q] = {}
    BY LookupConstants DEF IInv, Exclusive, SyncCrls, LockFree
  <1>3. Exclusive' /\ SelectionValid' /\ BackoffHonoured'
    BY <1>2 DEF IInv, Exclusive, SelectionValid, BackoffHonoured, SyncCrls
  <1>4. CountsExact'
    BY DEF IInv, CountsExact, SyncCrls
  <1> QED BY <1>1, <1>3, <1>4 DEF IInv

LEMMA TickKeeps == ASSUME IInv, Tick PROVE IInv'
  <1>1. wait' \in [Records -> [Sources -> 0..LongDelay]]
    BY LookupConstants DEF IInv, TypeOK, Tick
  <1>2. exclusion' \in [Records -> Nat \cup {Forever}]
    <2>1. ASSUME NEW r \in Records
          PROVE  exclusion'[r] \in Nat \cup {Forever}
      <3>1. exclusion[r] \in Nat \cup {Forever}
        BY DEF IInv, TypeOK
      <3>2. exclusion'[r] = IF exclusion[r] \in {0, Forever} THEN exclusion[r]
                                                         ELSE exclusion[r] - 1
        BY DEF Tick
      <3> QED BY <3>1, <3>2, LookupConstants
    <2> QED BY <2>1 DEF Tick
  <1>3. TypeOK'
    BY <1>1, <1>2 DEF IInv, TypeOK, Tick
  <1>4. \A r \in Records : exclusion[r] = 0 => exclusion'[r] = 0
    BY DEF Tick
  <1>5. \A r \in Records, s \in Sources : wait[r][s] = 0 => wait'[r][s] = 0
    BY DEF Tick
  <1>6. Exclusive'
    BY DEF IInv, Exclusive, Tick
  <1>7. SelectionValid'
    BY <1>4 DEF IInv, TypeOK, SelectionValid, Eligible, Excluded, QueriedBy, Tick
  <1>8. BackoffHonoured'
    BY <1>5, CommandFields DEF IInv, TypeOK, BackoffHonoured, Tick
  <1>9. CountsExact'
    BY DEF IInv, CountsExact, Tick
  <1> QED BY <1>3, <1>6, <1>7, <1>8, <1>9 DEF IInv

LEMMA StartPassKeeps ==
    ASSUME IInv, NEW p \in Processes, NEW s \in Sources, NEW b \in BOOLEAN,
           StartPass(p, s, b)
    PROVE  IInv'
  <1>1. Pass(s, b) \in Commands /\ Pass(s, b) # Idle
    BY DEF Commands, Pass, Idle
  <1>2. Selection(s, b) \in SUBSET Records
    BY SelectionsAreRecords
  <1>3. \A r \in Selection(s, b) :
            /\ Eligible(r) /\ QueriedBy(s, r)
            /\ b \/ wait[r][s] = 0
    BY SelectionsAreRecords DEF Pending
  <1>4. /\ Acquire(p, Pass(s, b)) /\ UNCHANGED tables
        /\ todo' = [todo EXCEPT ![p] = Selection(s, b)]
    BY DEF StartPass
  <1>5. Pass(s, b).source = s /\ Pass(s, b).ignoreRetry = b
    BY DEF Pass
  <1> QED BY <1>1, <1>2, <1>3, <1>4, <1>5, AcquireKeeps

LEMMA ValidateSubmissionKeeps ==
    ASSUME IInv, NEW p \in Processes, NEW r \in Records, ValidateSubmission(p, r)
    PROVE  IInv'
  <1>1. Submission \in Commands /\ Submission # Idle /\ Submission.name # "pass"
    BY DEF Commands, Submission, Idle
  <1>2. \A q \in {r} : Eligible(q)
    BY DEF ValidateSubmission
  <1>3. Acquire(p, Submission) /\ todo' = [todo EXCEPT ![p] = {r}] /\ UNCHANGED tables
    BY DEF ValidateSubmission
  <1> DEFINE S == {r}
  <1>4. S \in SUBSET Records
    OBVIOUS
  <1> HIDE DEF S
  <1>5. (\A q \in S : Eligible(q)) /\ todo' = [todo EXCEPT ![p] = S]
    BY <1>2, <1>3 DEF S
  <1> QED BY <1>1, <1>3, <1>4, <1>5, AcquireKeeps

LEMMA StepKeeps == IInv /\ [Next]_vars => IInv'
  <1> SUFFICES ASSUME IInv, [Next]_vars PROVE IInv'
    OBVIOUS
  <1>1. CASE UNCHANGED vars
    BY <1>1 DEF vars, tables, crlColumns, IInv, TypeOK, Exclusive, SelectionValid,
       Eligible, Excluded, QueriedBy, BackoffHonoured, CountsExact
  <1>2. ASSUME NEW p \in Processes, NEW s \in Sources, NEW b \in BOOLEAN,
               StartPass(p, s, b)
        PROVE IInv'
    BY <1>2, StartPassKeeps
  <1>3. ASSUME NEW p \in Processes, NEW r \in Records, ValidateSubmission(p, r)
        PROVE IInv'
    BY <1>3, ValidateSubmissionKeeps
  <1>4. ASSUME NEW p \in Processes, ProcessStep(p) PROVE IInv'
    BY <1>4, RecordBatchKeeps, ExhaustBudgetKeeps, ReleaseKeeps,
       ApplySubmissionKeeps DEF ProcessStep, EndPass
  <1>5. ASSUME NEW p \in Processes, Crash(p) PROVE IInv'
    BY <1>5, ReleaseKeeps DEF Crash
  <1>6. ASSUME NEW r \in Records, NEW days \in ExclusionTerms \cup {0},
               SetExclusion(r, days)
        PROVE IInv'
    BY <1>6, SetExclusionKeeps
  <1> QED BY <1>1, <1>2, <1>3, <1>4, <1>5, <1>6, SyncCrlsKeeps, TickKeeps DEF Next

LEMMA Invariance == Spec => []IInv
  BY InitEstablishes, StepKeeps, PTL DEF Spec

----------------------------------------------------------------------------
(* The theorems *)

(***************************************************************************)
(* Every variable keeps its type; in particular a retry delay never        *)
(* exceeds the long delay of _retry_delay_hours.                           *)
(***************************************************************************)
THEOREM LookupTypeCorrect == Spec => []TypeOK
  BY Invariance, PTL DEF IInv

(***************************************************************************)
(* No pass that honours retry times holds a record it must not query yet,  *)
(* although time, other passes and exclusions go on after the selection.   *)
(***************************************************************************)
THEOREM BackoffIsHonoured == Spec => []BackoffHonoured
  BY Invariance, PTL DEF IInv

\* The only writers of a key write to records they selected.
LEMMA OnlySelectedChange ==
    ASSUME IInv, [Next]_vars, NEW r \in Records, key'[r] # key[r]
    PROVE  Eligible(r) /\ QueriedBy(key'[r], r)
  <1>1. CASE \E p \in Processes : RecordBatch(p)
    <2>1. PICK p \in Processes : RecordBatch(p)
      BY <1>1
    <2>2. command[p] \in Commands /\ todo[p] \in SUBSET Records
      BY DEF IInv, TypeOK
    <2>3. PICK batch \in SUBSET todo[p] :
              \E outcome : RecordLookupResults(command[p].source, batch, outcome)
      BY <2>1, <2>2, SelectionsAreRecords DEF RecordBatch
    <2>4. r \in todo[p] /\ key'[r] = command[p].source
      BY <2>3 DEF RecordLookupResults, IInv, TypeOK
    <2> QED BY <2>1, <2>4 DEF IInv, SelectionValid, RecordBatch
  <1>2. CASE \E p \in Processes : ApplySubmission(p)
    <2>1. PICK p \in Processes : ApplySubmission(p)
      BY <1>2
    <2>2. PICK q \in todo[p] : key' = [key EXCEPT ![q] = Community]
      BY <2>1 DEF ApplySubmission
    <2>3. q = r
      BY <2>2 DEF IInv, TypeOK
    <2>4. key'[r] = Community /\ Community \notin AkiSources
      BY <2>2, <2>3, LookupConstants DEF IInv, TypeOK
    <2> QED BY <2>2, <2>3, <2>4 DEF IInv, SelectionValid, QueriedBy
  <1>3. CASE UNCHANGED key
    BY <1>3
  <1> QED
    BY <1>1, <1>2, <1>3 DEF Next, ProcessStep, StartPass, ValidateSubmission,
       ExhaustBudget, EndPass, Crash, Release, SetExclusion, SyncCrls, Tick, vars, tables

(***************************************************************************)
(* A stored key is never replaced, no inactive or excluded record and, by  *)
(* an AKI source, no record without an AKI is given one,                   *)
(* though _update_public_key is unconditional: whoever calls it holds the  *)
(* lock since it saw the key missing and the record not excluded.          *)
(***************************************************************************)
THEOREM OnlyMissingKeysAreSupplemented == Spec => OnlyMissingSupplemented
  <1>1. IInv /\ [Next]_vars =>
            [\A r \in Records :
                key'[r] # key[r] => Eligible(r) /\ QueriedBy(key'[r], r)]_vars
    BY OnlySelectedChange
  <1> QED BY <1>1, Invariance, PTL DEF Spec, OnlyMissingSupplemented

\* The delay that the history of misses asks for.
LEMMA DelaysFollowHistory ==
    ASSUME IInv, [Next]_vars, NEW r \in Records, NEW s \in Sources,
           wait'[r][s] > wait[r][s]
    PROVE  wait'[r][s] = IF r \in recent THEN RecentDelay
                         ELSE IF missed'[r][s] < MissLimit THEN ShortDelay
                         ELSE LongDelay
  <1>1. wait[r][s] \in Nat /\ misses[r][s] \in 0..MissLimit
    BY LookupConstants DEF IInv, TypeOK
  <1>2. CASE \E p \in Processes : RecordBatch(p)
    <2>1. PICK p \in Processes : RecordBatch(p)
      BY <1>2
    <2>2. command[p] \in Commands /\ todo[p] \in SUBSET Records
      BY DEF IInv, TypeOK
    <2> DEFINE source == command[p].source
               batch == FirstOf(todo[p], BatchSize, source)
    <2>3. source \in Sources /\ batch \in SUBSET Records
      BY <2>1, <2>2, CommandFields, SelectionsAreRecords DEF RecordBatch
    <2>4. PICK outcome \in [batch -> {"found", "not_found", "error"}] :
              RecordLookupResults(source, batch, outcome)
      BY <2>1 DEF RecordBatch
    <2> HIDE DEF source, batch
    <2>5. r \in batch /\ s = source
      BY <1>1, <2>4 DEF RecordLookupResults, IInv, TypeOK
    <2>6. wait'[r][s] = WaitAfter(r, s, outcome[r])
      BY <2>3, <2>4, <2>5 DEF RecordLookupResults, IInv, TypeOK
    <2>7. outcome[r] = "not_found"
      BY <1>1, <2>6 DEF WaitAfter
    <2>8. misses'[r][s] = AddMiss(misses[r][s])
      BY <2>3, <2>4, <2>5, <2>7 DEF RecordLookupResults, MissesAfter, IInv, TypeOK
    <2>9. misses'[r][s] = missed'[r][s]
      BY <2>3, <2>4, CountsStayExact DEF IInv, CountsExact
    <2> QED BY <2>6, <2>7, <2>8, <2>9 DEF WaitAfter, MissDelay
  <1>3. CASE Tick
    BY <1>1, <1>3 DEF Tick
  <1>4. CASE UNCHANGED wait
    BY <1>1, <1>4
  <1> QED
    BY <1>2, <1>3, <1>4 DEF Next, ProcessStep, StartPass, ValidateSubmission,
       ApplySubmission, ExhaustBudget, EndPass, Crash, Release, SetExclusion, SyncCrls,
       vars, tables

(***************************************************************************)
(* Errors neither shorten nor lengthen a backoff: for any MissLimit, the   *)
(* delay written after a miss is the one its history of valid misses asks, *)
(* across passes, processes, kills, crl-syncs and days.                    *)
(***************************************************************************)
THEOREM BackoffIsByHistory == Spec => BackoffFollowsHistory
  <1>1. IInv /\ [Next]_vars =>
            [\A r \in Records, s \in Sources :
                wait'[r][s] > wait[r][s] =>
                    wait'[r][s] = IF r \in recent THEN RecentDelay
                                  ELSE IF missed'[r][s] < MissLimit THEN ShortDelay
                                  ELSE LongDelay]_vars
    BY DelaysFollowHistory
  <1> QED BY <1>1, Invariance, PTL DEF Spec, BackoffFollowsHistory
=============================================================================
