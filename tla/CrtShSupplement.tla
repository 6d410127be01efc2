-------------------------- MODULE CrtShSupplement ---------------------------
(***************************************************************************)
(* CrtShSupplementer.run (crt_sh_crawler.py), again and again: each pass   *)
(* selects the newest records that may be queried, at most Limit of them,  *)
(* and lets one of the two providers, CrtShPostgres or CrtShHttp, look     *)
(* them up behind a new circuit breaker.  The outcomes of earlier passes   *)
(* decide what is selected.                                                *)
(*                                                                         *)
(* A found record and a miss are not selected again; LookupState models    *)
(* when a miss is.  An error sets no retry time, so that the record is     *)
(* selected first again.                                                   *)
(***************************************************************************)
EXTENDS CrtShHttp, CrtShPostgres

CONSTANTS
    Newest,     \* the records, in the order of get_pending_lookup_records
    Limit,
    Scenarios   \* what may be in the records: [server, refused, mode]

ASSUME SupplementConstants ==
    /\ Limit \in Nat \ {0}
    /\ Newest \in Seq(Records) /\ IsInjective(Newest)
    /\ \A s \in Scenarios :
          /\ s.server \in [Records -> Seq(Candidates)] /\ s.refused \subseteq Records
          /\ s.mode \in {"http", "postgres"}

VARIABLES
    mode,  \* "http" or "postgres"
    table  \* [Records -> ...]: outcomes in the database

vars == <<given, reported, ending, breakerVars, mode, table, httpVars, postgresVars>>

Unreported == [r \in Records |-> "none"]

Init ==
    /\ \E s \in Scenarios : server = s.server /\ refused = s.refused /\ mode = s.mode
    /\ calm = FALSE
    /\ queue = <<>> /\ reported = Unreported /\ ending = "idle"
    /\ table = Unreported
    /\ Breaker!Init /\ HttpInit /\ PostgresInit

\* Positions of records that may be queried.
Pending == {i \in DOMAIN Newest : table[Newest[i]] \in {"none", "error"}}

\* The newest Limit of them, in their order.
IsSelection(at) ==
    /\ \A i, j \in DOMAIN at : i < j => at[i] < at[j]
    /\ \A p \in Pending \ Range(at) : \A i \in DOMAIN at : at[i] < p

Selections ==
    LET size == IF Cardinality(Pending) < Limit THEN Cardinality(Pending) ELSE Limit
    IN  {[i \in 1..size |-> Newest[at[i]]] : at \in {f \in [1..size -> Pending] : IsSelection(f)}}

\* Mutant: the breaker of the last pass.
OldBreaker == UNCHANGED breakerVars

NewBreaker ==
    /\ recent' = <<>> /\ consecutiveFailures' = 0 /\ consecutiveRateLimits' = 0
    /\ isOpen' = FALSE /\ reason' = NotOpen

Begin ==
    /\ ending # "running" /\ Pending # {}
    /\ queue' \in Selections /\ reported' = Unreported /\ ending' = "running"
    /\ NewBreaker
    /\ \/ mode = "http" /\ HttpStart /\ UNCHANGED postgresVars
       \/ mode = "postgres" /\ PostgresStart /\ UNCHANGED httpVars
    /\ UNCHANGED <<server, refused, calm, mode, table>>

\* What is reported is committed.
Save ==
    /\ table' = [r \in Records |-> IF reported'[r] = reported[r] THEN table[r] ELSE reported'[r]]
    /\ UNCHANGED mode

HttpStep(Action) ==
    /\ mode = "http" /\ ending = "running"
    /\ Action /\ Save
    /\ UNCHANGED postgresVars

HttpWork(w) == HttpStep(Work(w))
HttpReturn == HttpStep(Return)
HttpBudget == HttpStep(Budget)

PostgresStep == mode = "postgres" /\ PostgresNext /\ Save /\ UNCHANGED httpVars

\* The process is killed, or the database refuses a commit.
Interrupt ==
    /\ ending = "running" /\ ~calm
    /\ ending' = "failed"
    /\ NewBreaker /\ HttpForget /\ PostgresForget
    /\ UNCHANGED <<given, reported, mode, table>>

CalmDown ==
    /\ ~calm /\ calm' = TRUE
    /\ UNCHANGED <<server, refused, queue, reported, ending, breakerVars, mode, table,
                   httpVars, postgresVars>>

Finished == \A r \in Records : table[r] \in {"found", "not_found"}

Next ==
    \/ Begin \/ HttpReturn \/ HttpBudget \/ PostgresStep
    \/ \E w \in Workers : HttpWork(w)
    \/ Interrupt \/ CalmDown
    \/ Finished /\ ending # "running" /\ UNCHANGED vars

Spec == Init /\ [][Next]_vars

(***************************************************************************)
(* Fairness: requests and connections have timeouts, pauses end, and the   *)
(* command is run again and again.                                         *)
(***************************************************************************)
Fairness ==
    /\ WF_vars(Begin) /\ WF_vars(PostgresStep) /\ WF_vars(HttpReturn)
    /\ \A w \in Workers : WF_vars(HttpWork(w))

FairSpec == Spec /\ Fairness

(***************************************************************************)
(* Properties                                                              *)
(***************************************************************************)

TypeOK ==
    /\ server \in [Records -> Seq(Candidates)] /\ refused \subseteq Records /\ calm \in BOOLEAN
    /\ mode \in {"http", "postgres"}
    /\ Breaker!TypeOK
    /\ queue \in Seq(Records) /\ Len(queue) <= Limit /\ IsInjective(queue)
    /\ reported \in [Records -> {"none", "found", "not_found", "error"}]
    /\ table \in [Records -> {"none", "found", "not_found", "error"}]
    /\ ending \in {"idle", "running", "complete", "circuit", "budget", "failed"}
    /\ next \in 1..Limit + 1
    /\ work \in [Workers -> [pc : {"new", "sent", "asleep", "stopped"}, position : 0..Limit,
                             candidate : Nat, attempt : 0..MaxAttempts - 1]]
    /\ pc \in {"connect", "query", "reconnect", "stopped"}
    /\ tries \in 0..MaxAttempts - 1 /\ attempt \in 0..MaxAttempts - 1
    /\ offset \in 0..Limit - 1 /\ alive \in BOOLEAN

HasUsable(r) == \E i \in DOMAIN server[r] : server[r][i] = "usable"

Pass == INSTANCE SourcePass WITH
    Records <- Records,
    has <- [r \in Records |->
               IF server[r] = <<>> THEN "absent"
               ELSE IF HasUsable(r) THEN "usable" ELSE "unusable"],
    selected <- ToSet(queue),
    reported <- reported,
    ending <- ending

(***************************************************************************)
(* Whatever fails, and whoever is cancelled by the budget between its      *)
(* awaits: a pass reports each record at most once and truthfully, is      *)
(* complete only if it reported all of them, and was cut short by the      *)
(* circuit only if an error shows it.                                      *)
(***************************************************************************)
ImplementsPass == Pass!Spec

(***************************************************************************)
(* After the circuit opened nothing is sent: neither by the workers that   *)
(* sleep before a retry or have candidates left, nor over a new connection *)
(* (unlike CtQuery, whose sleepers send one more request).                 *)
(***************************************************************************)
Requests == {w \in Workers : work[w].pc = "sent"}

SilentWhenOpen ==
    [][isOpen /\ ending = "running" =>
        /\ Requests' \subseteq Requests
        /\ \A w \in Requests' : work'[w] = work[w]
        /\ pc' \notin {"query", "reconnect"}]_vars

(***************************************************************************)
(* Every pass ends, whatever fails: no worker waits for ever and no batch  *)
(* is tried for ever.  One record that is refused by the source, or that   *)
(* has no usable certificate, is first in every selection, and still every *)
(* other record gets the verdict that the service has for it, once nothing *)
(* else fails; a failed request about a useless candidate may have spared  *)
(* it an error.  A record that raises ends every PostgreSQL pass: there,   *)
(* it has to be none.                                                      *)
(***************************************************************************)
NotStarved ==
    /\ Pass!Ends
    /\ (/\ calm
        /\ mode = "postgres" => \A r \in Records : Verdict(r) # "raising")
       ~> \A r \in Records :
             \/ r \in refused
             \/ table[r] = Outcome(r) \/ (table[r] = "found" /\ HasUsable(r))
=============================================================================
