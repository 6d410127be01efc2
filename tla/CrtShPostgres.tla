--------------------------- MODULE CrtShPostgres ----------------------------
(***************************************************************************)
(* CrtShPostgresProvider.supplement_records (crt_sh_crawler.py): one       *)
(* connection, batches of serial numbers one after the other, each         *)
(* committed before the next.  The provider blocks the event loop, so that *)
(* its steps are those of one process.                                     *)
(***************************************************************************)
EXTENDS CrtShSource

CONSTANT BatchSize  \* pg_batch_size

ASSUME PostgresConstants == BatchSize \in Nat \ {0}

VARIABLES
    pc,       \* what the provider waits for
    tries,    \* connection attempts
    offset,   \* records before the current batch
    attempt,  \* query attempts of the batch
    alive     \* the cursor belongs to an open connection

postgresVars == <<pc, tries, offset, attempt, alive>>

PostgresInit == pc = "stopped" /\ tries = 0 /\ offset = 0 /\ attempt = 0 /\ alive = FALSE

PostgresStart == pc' = "connect" /\ tries' = 0 /\ offset' = 0 /\ attempt' = 0 /\ alive' = FALSE

Batch ==
    {queue[i] : i \in offset + 1..IF offset + BatchSize < Len(queue)
                                  THEN offset + BatchSize ELSE Len(queue)}

\* What a pass that ended leaves in memory.
PostgresForget == pc' = "stopped" /\ tries' = 0 /\ offset' = 0 /\ attempt' = 0 /\ alive' = FALSE

Stop(how) == ending' = how /\ PostgresForget

\* The loop head: the next batch, unless none is left or the circuit is open.
EnterBatch(first) ==
    IF first >= Len(queue) THEN Stop("complete")
    ELSE IF isOpen' THEN Stop("circuit")
    ELSE /\ pc' = "query" /\ offset' = first /\ attempt' = 0 /\ tries' = 0
         /\ UNCHANGED ending

PostgresReport(outcomes) ==
    /\ reported' = [r \in Records |-> IF r \in Batch THEN outcomes[r] ELSE reported[r]]
    /\ EnterBatch(offset + BatchSize)

\* Mutant: without a result there are no candidates.
FailedIsMiss == [r \in Records |-> "not_found"]

Failed == [r \in Records |-> "error"]

Connects ==
    /\ pc = "connect"
    /\ alive' = TRUE
    /\ UNCHANGED <<breakerVars, reported>>
    /\ EnterBatch(0)

\* Without a first connection every record is an error.
ConnectionFails ==
    /\ pc = "connect" /\ ~calm
    /\ IF tries < MaxAttempts - 1
       THEN tries' = tries + 1 /\ UNCHANGED <<pc, offset, attempt, alive, reported, ending>>
       ELSE /\ reported' = [r \in Records |->
                                IF r \in ToSet(queue) THEN "error" ELSE reported[r]]
            /\ Stop("complete")
    /\ UNCHANGED breakerVars

Raising == \E r \in Batch : Verdict(r) = "raising"

\* What one record raises ends the pass and takes the batch with it.
QuerySucceeds ==
    /\ pc = "query" /\ alive
    /\ Breaker!RecordSuccess
    /\ IF Raising
       THEN Stop("failed") /\ UNCHANGED reported
       ELSE PostgresReport([r \in Records |-> Outcome(r)]) /\ alive' = (alive /\ ending' = "running")

\* A connection that was closed fails at once.
QueryFails ==
    /\ pc = "query" /\ (~calm \/ ~alive)
    /\ Breaker!RecordFailure(OtherFailure)
    /\ IF isOpen' \/ attempt = MaxAttempts - 1
       THEN PostgresReport(Failed) /\ alive' = (alive /\ ending' = "running")
       ELSE /\ pc' = "reconnect" /\ alive' = FALSE /\ tries' = 0
            /\ UNCHANGED <<offset, attempt, reported, ending>>

Reconnects ==
    /\ pc = "reconnect"
    /\ pc' = "query" /\ alive' = TRUE /\ attempt' = attempt + 1
    /\ UNCHANGED <<tries, offset, reported, ending, breakerVars>>

\* The batch fails; the next one starts with the closed connection.
ReconnectionFails ==
    /\ pc = "reconnect" /\ ~calm
    /\ UNCHANGED breakerVars
    /\ IF tries < MaxAttempts - 1
       THEN tries' = tries + 1 /\ UNCHANGED <<pc, offset, attempt, alive, reported, ending>>
       ELSE PostgresReport(Failed) /\ alive' = FALSE

\* _remaining raises before an operation or while it waits.
OutOfTime ==
    /\ ~calm
    /\ Stop("budget")
    /\ UNCHANGED <<reported, breakerVars>>

PostgresNext ==
    /\ ending = "running"
    /\ \/ Connects \/ ConnectionFails \/ QuerySucceeds \/ QueryFails
       \/ Reconnects \/ ReconnectionFails \/ OutOfTime
    /\ UNCHANGED given
=============================================================================
