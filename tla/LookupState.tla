---------------------------- MODULE LookupState -----------------------------
(***************************************************************************)
(* Public-key lookup over the shared database: which records a pass        *)
(* selects (get_pending_lookup_records), what it writes back               *)
(* (record_lookup_results), community submissions (cert_validator.py) and  *)
(* exclusions, run by CLI processes that exclude each other only by the    *)
(* per-database file lock of cli.main.                                     *)
(*                                                                         *)
(* A pass selects its records ONCE and may then run for hours: between the *)
(* selection and the write of a batch, time passes and other processes are *)
(* started.  Only the lock keeps the selection valid.  The operator CT     *)
(* source queries by issuer key, so it selects no record without an AKI.   *)
(*                                                                         *)
(* Abstractions.  next_retry_after and expires_at are the days that are    *)
(* left; a day is one Tick.  consecutive_misses saturates at MissLimit,    *)
(* past which the code treats all counts alike.  A lookup outcome is       *)
(* found, not_found or an error: record_lookup_results has one branch for  *)
(* each.  A row that crl-sync inserts is one that nothing touched before.  *)
(* Which requests carry a batch, and the breaker behind                    *)
(* circuitOpens, are CircuitBreaker's subject.                             *)
(***************************************************************************)
EXTENDS Integers, FiniteSets

CONSTANTS
    Records,      \* rows of revoked_certs
    Newer,        \* the order of revocation dates: <<r, q>> if r is newer
    Sources,      \* lookup sources: operator_ct, crt_sh
    Limited,      \* the sources whose passes have a record limit (crt.sh)
    AkiSources,   \* the sources that pass require_aki (operator_ct)
    Processes,    \* CLI processes on this database
    NoOne, NoKey, Community, Forever,
    RecordLimit,  \* --crtsh-limit
    BatchSize,    \* records written per transaction
    MissLimit,    \* misses after which the long delay applies (10)
    RecentDelay, ShortDelay, LongDelay,  \* retry delays in days (1, 7, 30)
    ExclusionTerms \* how long exclusions last: days, or Forever

ASSUME LookupConstants ==
    /\ Newer \subseteq Records \X Records
    /\ Limited \subseteq Sources /\ AkiSources \subseteq Sources
    /\ NoOne \notin Processes
    /\ Community \notin Sources /\ NoKey \notin Sources \cup {Community}
    /\ {RecordLimit, BatchSize, MissLimit, RecentDelay, ShortDelay, LongDelay}
            \subseteq Nat \ {0}
    /\ ExclusionTerms \subseteq (Nat \ {0}) \cup {Forever}
    /\ RecentDelay <= ShortDelay /\ ShortDelay <= LongDelay
    /\ Forever \notin Nat

VARIABLES
    key,        \* [Records -> ...]: public_key_source, NoKey while missing
    recent,     \* records revoked within the last 30 days
    withAki,    \* records with an authority key identifier
    cleaned,    \* inactive records: those with a cleaned_at
    exclusion,  \* [Records -> ...]: days left, 0 for none, or Forever
    misses,     \* [Records -> [Sources -> 0..MissLimit]]
    wait,       \* [Records -> [Sources -> 0..LongDelay]]: days until retry
    lock,       \* the process holding the file lock
    command,    \* [Processes -> ...]: what each process is doing
    todo,       \* [Processes -> SUBSET Records]: selected, not yet written
    missed      \* history: the valid misses of each source in a row

\* What a CRL sync writes; what lookups, submissions and exclusions write.
crlColumns == <<recent, withAki, cleaned>>
tables == <<key, crlColumns, exclusion, misses, wait, missed>>
vars == <<tables, lock, command, todo>>

Idle == [name |-> "none"]
Pass(s, ignoreRetry) == [name |-> "pass", source |-> s, ignoreRetry |-> ignoreRetry]
Submission == [name |-> "submit"]
Commands ==
    {Idle, Submission} \cup {Pass(s, b) : s \in Sources, b \in BOOLEAN}

Excluded(r) == exclusion[r] # 0

----------------------------------------------------------------------------
(* get_pending_lookup_records *)

\* Without a key, active and not excluded.
Eligible(r) == key[r] = NoKey /\ r \notin cleaned /\ ~Excluded(r)

\* require_aki.
QueriedBy(s, r) == s \in AkiSources => r \in withAki

\* Mutant: a record missed often enough is given up.
PendingUntilMissLimit(s, ignoreRetry) ==
    {r \in Records :
        /\ Eligible(r) /\ QueriedBy(s, r)
        /\ ignoreRetry \/ wait[r][s] = 0
        /\ misses[r][s] < MissLimit}

Pending(s, ignoreRetry) ==
    {r \in Records :
        /\ Eligible(r) /\ QueriedBy(s, r)
        /\ ignoreRetry \/ wait[r][s] = 0}

\* ORDER BY: newest first for a limited source; otherwise recent revocations,
\* then fewer misses, then newest first.
Before(s, q, r) ==
    IF s \in Limited THEN <<q, r>> \in Newer
    ELSE \/ q \in recent /\ r \notin recent
         \/ /\ q \in recent <=> r \in recent
            /\ \/ misses[q][s] < misses[r][s]
               \/ misses[q][s] = misses[r][s] /\ <<q, r>> \in Newer

\* The first n records of S in the order of source s.
FirstOf(S, n, s) ==
    {r \in S : Cardinality({q \in S : Before(s, q, r)}) < n}

Selection(s, ignoreRetry) ==
    LET pending == Pending(s, ignoreRetry)
    IN  IF s \in Limited THEN FirstOf(pending, RecordLimit, s) ELSE pending

----------------------------------------------------------------------------

Init ==
    /\ key = [r \in Records |-> NoKey]
    /\ recent \in SUBSET Records
    /\ withAki \in SUBSET Records
    /\ cleaned \in SUBSET Records
    /\ exclusion = [r \in Records |-> 0]
    /\ misses = [r \in Records |-> [s \in Sources |-> 0]]
    /\ missed = misses
    /\ wait = [r \in Records |-> [s \in Sources |-> 0]]
    /\ lock = NoOne
    /\ command = [p \in Processes |-> Idle]
    /\ todo = [p \in Processes |-> {}]

\* Mutant: no file lock.
LockIgnored == TRUE

\* cli.main: a write command that finds the lock taken exits at once.
LockFree == lock = NoOne

Acquire(p, c) ==
    /\ LockFree
    /\ command[p] = Idle
    /\ lock' = p
    /\ command' = [command EXCEPT ![p] = c]

\* The command returns, or its process dies and the OS drops its lock.
Release(p) ==
    /\ command[p] # Idle
    /\ lock' = NoOne
    /\ command' = [command EXCEPT ![p] = Idle]
    /\ todo' = [todo EXCEPT ![p] = {}]
    /\ UNCHANGED tables

\* ct_sync_only, CrtShSupplementer.run: select once, before any request.
\* Only the CT source has a run that ignores retry times (--full-history).
StartPass(p, s, ignoreRetry) ==
    /\ ignoreRetry => s \notin Limited
    /\ Acquire(p, Pass(s, ignoreRetry))
    /\ todo' = [todo EXCEPT ![p] = Selection(s, ignoreRetry)]
    /\ UNCHANGED tables

(***************************************************************************)
(* record_lookup_results for one batch: one transaction over its results.  *)
(***************************************************************************)
\* Mutant: the long delay is added to the short one.
MissDelayAccumulated(r, count) ==
    IF r \in recent THEN RecentDelay
    ELSE IF count < MissLimit THEN ShortDelay ELSE ShortDelay + LongDelay

\* Mutant: the long delay comes one miss late.
MissDelayOffByOne(r, count) ==
    IF r \in recent THEN RecentDelay
    ELSE IF count <= MissLimit THEN ShortDelay ELSE LongDelay

MissDelay(r, count) ==
    IF r \in recent THEN RecentDelay
    ELSE IF count < MissLimit THEN ShortDelay ELSE LongDelay

AddMiss(count) == IF count < MissLimit THEN count + 1 ELSE count

\* Mutant: errors reset the miss count.
MissesAfterErrorsReset(r, s, outcome) ==
    IF outcome = "not_found" THEN AddMiss(misses[r][s]) ELSE 0

MissesAfter(r, s, outcome) ==
    CASE outcome = "found" -> 0
      [] outcome = "not_found" -> AddMiss(misses[r][s])
      [] outcome = "error" -> misses[r][s]

\* Whatever the outcome was, the row's next_retry_after is written: an error
\* and a hit write NULL.
WaitAfter(r, s, outcome) ==
    IF outcome = "not_found" THEN MissDelay(r, AddMiss(misses[r][s])) ELSE 0

\* History: the valid misses of s in a row, errors aside, up to MissLimit.
MissedAfter(r, s, outcome) ==
    CASE outcome = "found" -> 0
      [] outcome = "not_found" ->
            IF missed[r][s] = MissLimit THEN MissLimit ELSE missed[r][s] + 1
      [] outcome = "error" -> missed[r][s]

RecordLookupResults(s, batch, outcome) ==
    /\ key' = [r \in Records |->
            IF r \in batch /\ outcome[r] = "found" THEN s ELSE key[r]]
    /\ misses' = [r \in Records |-> IF r \notin batch THEN misses[r]
            ELSE [misses[r] EXCEPT ![s] = MissesAfter(r, s, outcome[r])]]
    /\ wait' = [r \in Records |-> IF r \notin batch THEN wait[r]
            ELSE [wait[r] EXCEPT ![s] = WaitAfter(r, s, outcome[r])]]
    /\ missed' = [r \in Records |-> IF r \notin batch THEN missed[r]
            ELSE [missed[r] EXCEPT ![s] = MissedAfter(r, s, outcome[r])]]
    /\ UNCHANGED <<crlColumns, exclusion>>

\* The source answers the next batch and the results are committed.  An open
\* circuit leaves the rest of the selection for a later pass.
RecordBatch(p) ==
    /\ command[p].name = "pass"
    /\ todo[p] # {}
    /\ LET s == command[p].source
           batch == FirstOf(todo[p], BatchSize, s)
       IN  \E outcome \in [batch -> {"found", "not_found", "error"}] :
           \E circuitOpens \in BOOLEAN :
              /\ circuitOpens => \E r \in batch : outcome[r] = "error"
              /\ RecordLookupResults(s, batch, outcome)
              /\ todo' = [todo EXCEPT ![p] = IF circuitOpens THEN {} ELSE @ \ batch]
    /\ UNCHANGED <<lock, command>>

\* The time budget of crt.sh runs out: unfinished records are not recorded.
ExhaustBudget(p) ==
    /\ command[p].name = "pass"
    /\ command[p].source \in Limited
    /\ todo[p] # {}
    /\ todo' = [todo EXCEPT ![p] = {}]
    /\ UNCHANGED <<tables, lock, command>>

EndPass(p) ==
    /\ command[p].name = "pass"
    /\ todo[p] = {}
    /\ Release(p)

\* The process is killed at any point of its command.
Crash(p) == Release(p)

\* Mutant: validate-cert is not among the write commands that lock.
ValidateSubmissionUnlocked(p, r) ==
    /\ command[p] = Idle
    /\ Eligible(r)
    /\ command' = [command EXCEPT ![p] = Submission]
    /\ todo' = [todo EXCEPT ![p] = {r}]
    /\ UNCHANGED <<tables, lock>>

\* validate_submission accepts a certificate for r ...
ValidateSubmission(p, r) ==
    /\ Acquire(p, Submission)
    /\ Eligible(r)
    /\ todo' = [todo EXCEPT ![p] = {r}]
    /\ UNCHANGED tables

\* ... and apply_submission records it as found.  Its lookup_state row, for
\* the source community_submission, is read by no pass.
ApplySubmission(p) ==
    /\ command[p] = Submission
    /\ \E r \in todo[p] : key' = [key EXCEPT ![r] = Community]
    /\ lock' = NoOne
    /\ command' = [command EXCEPT ![p] = Idle]
    /\ todo' = [todo EXCEPT ![p] = {}]
    /\ UNCHANGED <<crlColumns, exclusion, misses, wait, missed>>

\* Mutant: exclude-record is not among the write commands that lock.
SetExclusionUnlocked(r, days) ==
    /\ exclusion' = [exclusion EXCEPT ![r] = days]
    /\ UNCHANGED <<key, crlColumns, misses, wait, missed, lock, command, todo>>

\* exclude-record and clear-exclusion: one transaction under the lock.
SetExclusion(r, days) ==
    /\ LockFree
    /\ exclusion' = [exclusion EXCEPT ![r] = days]
    /\ UNCHANGED <<key, crlColumns, misses, wait, missed, lock, command, todo>>

\* crl-sync, finished or killed, under the lock: an entry of a CRL overwrites
\* the revocation date of its record and may bring its AKI, and the AKIs that
\* were propagated by issuer come and go.  Nothing in the code sets cleaned_at.
SyncCrls ==
    /\ LockFree
    /\ recent' \in SUBSET Records
    /\ withAki' \in SUBSET Records
    /\ UNCHANGED <<key, cleaned, exclusion, misses, wait, missed,
                   lock, command, todo>>

\* A day passes: retry times and exclusions run out, revocations age.
Tick ==
    /\ wait' = [r \in Records |-> [s \in Sources |->
            IF wait[r][s] > 0 THEN wait[r][s] - 1 ELSE 0]]
    /\ exclusion' = [r \in Records |->
            IF exclusion[r] \in {0, Forever} THEN exclusion[r]
                                             ELSE exclusion[r] - 1]
    /\ recent' \in SUBSET recent
    /\ UNCHANGED <<key, withAki, cleaned, misses, missed, lock, command, todo>>

----------------------------------------------------------------------------

ProcessStep(p) ==
    \/ RecordBatch(p) \/ ExhaustBudget(p) \/ EndPass(p)
    \/ ApplySubmission(p)

Next ==
    \/ \E p \in Processes :
          \/ \E s \in Sources, ignoreRetry \in BOOLEAN : StartPass(p, s, ignoreRetry)
          \/ \E r \in Records : ValidateSubmission(p, r)
          \/ ProcessStep(p)
          \/ Crash(p)
    \/ \E r \in Records, days \in ExclusionTerms \cup {0} : SetExclusion(r, days)
    \/ SyncCrls
    \/ Tick

Spec == Init /\ [][Next]_vars

(***************************************************************************)
(* Fairness: a started command runs on, days pass, and every source is     *)
(* scheduled again and again (a daily sync retries until it has the lock). *)
(***************************************************************************)
Fairness ==
    /\ \A p \in Processes : WF_vars(ProcessStep(p))
    /\ WF_vars(Tick)
    /\ \A s \in Sources : SF_vars(\E p \in Processes : StartPass(p, s, FALSE))

FairSpec == Spec /\ Fairness

(***************************************************************************)
(* Properties                                                              *)
(***************************************************************************)

TypeOK ==
    /\ key \in [Records -> Sources \cup {Community, NoKey}]
    /\ recent \in SUBSET Records
    /\ withAki \in SUBSET Records
    /\ cleaned \in SUBSET Records
    /\ exclusion \in [Records -> Nat \cup {Forever}]
    /\ misses \in [Records -> [Sources -> 0..MissLimit]]
    /\ missed \in [Records -> [Sources -> 0..MissLimit]]
    /\ wait \in [Records -> [Sources -> 0..LongDelay]]
    /\ lock \in Processes \cup {NoOne}
    /\ command \in [Processes -> Commands]
    /\ todo \in [Processes -> SUBSET Records]

(***************************************************************************)
(* Only an active record that has no key and is not excluded ever receives *)
(* one, and one of an AKI source only while it has an AKI.                 *)
(* _update_public_key overwrites unconditionally: it is the selection of a *)
(* pass and the validation of a submission, still true when their results  *)
(* are written, that protect a stored key and respect an exclusion.        *)
(***************************************************************************)
OnlyMissingSupplemented ==
    [][\A r \in Records :
          key'[r] # key[r] => Eligible(r) /\ QueriedBy(key'[r], r)]_vars

(***************************************************************************)
(* A pass that honours retry times never holds, until its batch is         *)
(* written, a record that a valid miss of the same source made wait.       *)
(***************************************************************************)
BackoffHonoured ==
    \A p \in Processes :
        command[p].name = "pass" /\ ~command[p].ignoreRetry =>
            \A r \in todo[p] : wait[r][command[p].source] = 0

(***************************************************************************)
(* Only valid misses count and errors preserve their history               *)
(* (docs/sources-and-retries.md): whatever errors, killed passes, other    *)
(* sources and days lie between, a record is made to wait for as long as   *)
(* its whole history of valid misses asks, and the long delay begins with  *)
(* the MissLimit-th of them.                                               *)
(***************************************************************************)
BackoffFollowsHistory ==
    [][\A r \in Records, s \in Sources :
          wait'[r][s] > wait[r][s] =>
              wait'[r][s] = IF r \in recent THEN RecentDelay
                            ELSE IF missed'[r][s] < MissLimit THEN ShortDelay
                            ELSE LongDelay]_vars

(***************************************************************************)
(* No miss count creates a permanent exclusion: a record that may be       *)
(* looked up (no key, active, not excluded, with an AKI if the source      *)
(* needs one) is selected again and again by an unlimited source.          *)
(***************************************************************************)
RetriedForever ==
    \A r \in Records, s \in Sources \ Limited :
        []<>(\/ ~Eligible(r) \/ ~QueriedBy(s, r)
             \/ \E p \in Processes :
                   /\ command[p].name = "pass" /\ command[p].source = s
                   /\ r \in todo[p])
=============================================================================
