------------------------------ MODULE CtQuery -------------------------------
(***************************************************************************)
(* SearchAPICTProvider.query_records (ct_client.py): batches of records    *)
(* are looked up concurrently, within the slots of one semaphore and       *)
(* behind one SourceCircuitBreaker, which this module instantiates.        *)
(* A batch is a set of records; Before is their order.                     *)
(*                                                                         *)
(* A coroutine holds its slot while it retries, sleeps, and splits a batch *)
(* whose answer is ambiguous.  The halves share a semaphore of one slot,   *)
(* so that a split batch is a stack of chunks, worked off one by one.  In  *)
(* a full-history run the misses of a dated batch queue again for a second *)
(* query without the date window.                                          *)
(*                                                                         *)
(* Everything between two awaits is one step: a response, what the breaker *)
(* learns from it and the decision to retry, split or give up.             *)
(*                                                                         *)
(* Abstractions.  Waiting batches get slots in any order.  An outcome is   *)
(* found, not_found or an error, as in LookupState.  The server is honest  *)
(* when it answers unambiguously: it returns exactly the certificates that *)
(* it has within the validity window of the query (CtWindow).  What        *)
(* coroutines do after another one raised is of no effect.                 *)
(***************************************************************************)
EXTENDS BreakerResults, SequencesExt, CtWindow

CONSTANTS
    Selected,     \* the records to look up, in the order of their selection
    Aki,          \* of each record
    BadAki,       \* one that cannot be encoded
    Revoked,      \* the date of each record
    BatchSize,    \* CT_BATCH_SIZE
    Concurrency,  \* CT_CONCURRENCY
    MaxRetries,   \* CT_MAX_RETRIES
    NoCertificate,
    Servers       \* functions from records to certificates or NoCertificate

Records == ToSet(Selected)

ASSUME CtConstants ==
    /\ Selected \in Seq(Records) /\ IsInjective(Selected)
    /\ Aki \in [Records -> Range(Aki)] /\ Revoked \in [Records -> Range(Revoked)]
    /\ BatchSize \in Nat \ {0} /\ Concurrency \in Nat \ {0} /\ MaxRetries \in Nat \ {0}
    /\ \A s \in Servers :
          /\ DOMAIN s = Records
          /\ \A r \in Records :
                s[r] # NoCertificate => s[r].notBefore \in Int /\ s[r].notAfter \in Int

----------------------------------------------------------------------------
(* _prepare_batches: coroutines of asyncio.gather, each with its records.  *)

Dated == {r \in Records : IsUsable(Revoked[r])}

Invalid == {r \in Records : Aki[r] = BadAki}

Group(r) == {q \in Records \ Invalid : Aki[q] = Aki[r] /\ (q \in Dated <=> r \in Dated)}

\* Python sorts are stable.
Before(q, r) ==
    IF q \in Dated /\ Revoked[q] # Revoked[r] THEN Revoked[q] > Revoked[r]
    ELSE \E i, j \in DOMAIN Selected : i < j /\ Selected[i] = q /\ Selected[j] = r

Position(S, r) == Cardinality({q \in S : Before(q, r)})

\* The slice of BatchSize records of the sorted group.
Batch(r) ==
    {q \in Group(r) :
        Position(Group(r), q) \div BatchSize = Position(Group(r), r) \div BatchSize}

Batches == {Batch(r) : r \in Records \ Invalid}

Certificates == (UNION {Range(s) : s \in Servers}) \ {NoCertificate}

\* _payload: what queries with a window ask for.
DatedQueries == {S \in UNION {SUBSET b : b \in Batches} : S # {} /\ S \subseteq Dated}

InWindow ==
    UNION {{<<S, certificate>> :
                certificate \in {c \in Certificates : InValidityWindow({Revoked[r] : r \in S}, c)}} :
           S \in DatedQueries}

Historical == {certificate \in Certificates : InHistory(certificate)}

----------------------------------------------------------------------------

VARIABLES
    server,       \* what the service has of each record
    fullHistory,  \* --full-history
    recent, consecutiveFailures, consecutiveRateLimits, isOpen, reason,
    pc,           \* [Batches -> ...]: what each coroutine waits for
    wide,         \* [Batches -> BOOLEAN]: in its second query
    chunks,       \* [Batches -> Seq(SUBSET Records)]: the stack, first is current
    attempt,      \* [Batches -> 0..MaxRetries - 1]
    result,       \* [Records -> ...]
    late,         \* requests sent after the circuit opened
    returned      \* query_records has returned

Breaker == INSTANCE CircuitBreaker

breakerVars == <<recent, consecutiveFailures, consecutiveRateLimits, isOpen, reason>>
given == <<server, fullHistory>>
vars == <<given, breakerVars, pc, wide, chunks, attempt, result, late, returned>>

Init ==
    /\ server \in Servers /\ fullHistory \in BOOLEAN
    /\ Breaker!Init
    /\ pc = [b \in Batches |-> "queued"]
    /\ wide = [b \in Batches |-> FALSE]
    /\ chunks = [b \in Batches |-> <<b>>]
    /\ attempt = [b \in Batches |-> 0]
    /\ result = [r \in Records |-> IF r \in Invalid THEN "error" ELSE "none"]
    /\ late = 0 /\ returned = FALSE

HoldsSlot(b) == pc[b] \in {"split", "sent", "asleep"}
Current(b) == chunks[b][1]

----------------------------------------------------------------------------
(* The end of a query: its records have results, the next half follows.    *)

\* Mutant: the second query repeats the whole batch.
UnmatchedOrFailed(b, results) ==
    IF \E r \in b : results[r] = "not_found" THEN b ELSE {}

Unmatched(b, results) ==
    {r \in b : results[r] = "not_found"}

Finish(b, outcome) ==
    LET results == [r \in Records |-> IF r \in Current(b) THEN outcome[r] ELSE result[r]]
        missing == Unmatched(b, results)
        last == Len(chunks[b]) = 1
        fallback == last /\ ~wide[b] /\ fullHistory /\ b \subseteq Dated /\ missing # {}
    IN  /\ result' = results
        /\ chunks' = [chunks EXCEPT ![b] = IF fallback THEN <<missing>> ELSE Tail(@)]
        /\ wide' = [wide EXCEPT ![b] = @ \/ fallback]
        /\ pc' = [pc EXCEPT ![b] =
                    IF ~last THEN "split" ELSE IF fallback THEN "queued" ELSE "done"]
        /\ attempt' = [attempt EXCEPT ![b] = 0]

Fail(b) == Finish(b, [r \in Records |-> "error"])

----------------------------------------------------------------------------

\* Mutant: halves wait for slots of the semaphore that their batch holds one of.
MayEnterSharing(b) ==
    /\ pc[b] \in {"queued", "split"}
    /\ Cardinality({c \in Batches : HoldsSlot(c)}) < Concurrency

\* The halves of a split batch use the slot of the batch.
MayEnter(b) ==
    \/ pc[b] = "split"
    \/ pc[b] = "queued" /\ Cardinality({c \in Batches : HoldsSlot(c)}) < Concurrency

\* With its slot, a query asks the breaker once and sends its first request.
Enter(b) ==
    /\ MayEnter(b)
    /\ IF Breaker!AllowRequest
       THEN pc' = [pc EXCEPT ![b] = "sent"] /\ UNCHANGED <<wide, chunks, attempt, result>>
       ELSE Fail(b)
    /\ UNCHANGED <<given, breakerVars, late>>

\* After the pause the request is sent again, whatever happened meanwhile.
Wake(b) ==
    /\ pc[b] = "asleep"
    /\ pc' = [pc EXCEPT ![b] = "sent"]
    /\ late' = late + (IF isOpen THEN 1 ELSE 0)
    /\ UNCHANGED <<given, breakerVars, wide, chunks, attempt, result>>

\* The service has the certificate, and the query asks for it.
InScope(b, r) ==
    /\ server[r] \in Certificates
    /\ IF ~wide[b] /\ Current(b) \subseteq Dated
       THEN <<Current(b), server[r]>> \in InWindow
       ELSE fullHistory => server[r] \in Historical

\* An unambiguous answer.  A certificate may still be unusable: no DER,
\* another issuer, an unsupported key.
Answer(b) ==
    LET certificates == {r \in Current(b) : InScope(b, r)}
    IN  /\ pc[b] = "sent"
        /\ Breaker!RecordSuccess
        /\ \E usable \in SUBSET certificates :
              Finish(b, [r \in Records |->
                            IF r \notin certificates THEN "not_found"
                            ELSE IF r \in usable THEN "found" ELSE "error"])
        /\ UNCHANGED <<given, late>>

Halves(chunk) ==
    LET first == {r \in chunk : Position(chunk, r) < Cardinality(chunk) \div 2}
    IN  <<first, chunk \ first>>

\* An item that belongs to no record of the query.
AmbiguousAnswer(b) ==
    /\ pc[b] = "sent"
    /\ Breaker!RecordFailure(OtherFailure)
    /\ IF Cardinality(Current(b)) > 1 /\ ~isOpen'
       THEN /\ chunks' = [chunks EXCEPT ![b] = Halves(@[1]) \o Tail(@)]
            /\ pc' = [pc EXCEPT ![b] = "split"]
            /\ attempt' = [attempt EXCEPT ![b] = 0]
            /\ UNCHANGED <<wide, result>>
       ELSE Fail(b)
    /\ UNCHANGED <<given, late>>

\* Mutant: the last attempt is followed by another.
RetriesLeftOneMore(b) == attempt[b] < MaxRetries

RetriesLeft(b) == attempt[b] < MaxRetries - 1

\* Mutant: a retry although the circuit opened.
RequestFailsRetryingAnyway(b, failure) ==
    /\ pc[b] = "sent"
    /\ Breaker!RecordFailure(failure)
    /\ IF RetriesLeft(b)
       THEN /\ pc' = [pc EXCEPT ![b] = "asleep"]
            /\ attempt' = [attempt EXCEPT ![b] = @ + 1]
            /\ UNCHANGED <<wide, chunks, result>>
       ELSE Fail(b)
    /\ UNCHANGED <<given, late>>

\* A status other than 200, a timeout, a network error, a malformed body.
RequestFails(b, failure) ==
    /\ pc[b] = "sent"
    /\ Breaker!RecordFailure(failure)
    /\ IF RetriesLeft(b) /\ failure # HttpClientError /\ ~isOpen'
       THEN /\ pc' = [pc EXCEPT ![b] = "asleep"]
            /\ attempt' = [attempt EXCEPT ![b] = @ + 1]
            /\ UNCHANGED <<wide, chunks, result>>
       ELSE Fail(b)
    /\ UNCHANGED <<given, late>>

\* query_records: no batch of the pass keeps its results.
Abandon ==
    /\ pc' = [b \in Batches |-> "done"]
    /\ chunks' = [b \in Batches |-> <<>>]
    /\ result' = [r \in Records |-> "error"]
    /\ UNCHANGED <<given, breakerVars, wide, attempt, late>>

Finished == \A b \in Batches : pc[b] = "done"

\* No HTTP session: nothing was sent.
SessionFails ==
    /\ ~Finished /\ \A b \in Batches : pc[b] = "queued" /\ ~wide[b]
    /\ Abandon
    /\ UNCHANGED returned

\* A certificate whose key type the cryptography library does not know: what
\* it raises is none of the exceptions that the coroutine handles.
AnswerRaises(b) ==
    /\ pc[b] = "sent"
    /\ \E r \in Current(b) : InScope(b, r)
    /\ Abandon

Reply(b) ==
    \/ Answer(b) \/ AmbiguousAnswer(b) \/ AnswerRaises(b)
    \/ \E failure \in Failures : RequestFails(b, failure)

Work(b) == (Enter(b) \/ Wake(b) \/ Reply(b)) /\ UNCHANGED returned

\* All coroutines are done, or there are none.
Return ==
    /\ Finished /\ ~returned /\ returned' = TRUE
    /\ UNCHANGED <<given, breakerVars, pc, wide, chunks, attempt, result, late>>

Next ==
    \/ \E b \in Batches : Work(b)
    \/ SessionFails \/ Return
    \/ returned /\ UNCHANGED vars

Spec == Init /\ [][Next]_vars

(***************************************************************************)
(* Fairness: every request has a timeout, every pause ends, and a waiter   *)
(* of an asyncio semaphore gets a slot that is free for good.              *)
(***************************************************************************)
Fairness == WF_vars(Return) /\ \A b \in Batches : WF_vars(Work(b))

FairSpec == Spec /\ Fairness

(***************************************************************************)
(* Properties                                                              *)
(***************************************************************************)

TypeOK ==
    /\ server \in Servers /\ fullHistory \in BOOLEAN
    /\ Breaker!TypeOK
    /\ pc \in [Batches -> {"queued", "split", "sent", "asleep", "done"}]
    /\ wide \in [Batches -> BOOLEAN]
    /\ DOMAIN chunks = Batches
    /\ \A b \in Batches :
          /\ chunks[b] = <<>> <=> pc[b] = "done"
          /\ chunks[b] \in Seq((SUBSET b) \ {{}})
    /\ attempt \in [Batches -> 0..MaxRetries - 1]
    /\ result \in [Records -> {"none", "found", "not_found", "error"}]
    /\ late \in Nat /\ returned \in BOOLEAN

(***************************************************************************)
(* The second query concerns misses only: found certificates and errors    *)
(* are not queried again.                                                  *)
(***************************************************************************)
OnlyMissesQueriedAgain ==
    \A b \in Batches : wide[b] =>
        \A i \in DOMAIN chunks[b] : \A r \in chunks[b][i] : result[r] = "not_found"

(***************************************************************************)
(* A coroutine that sleeps before a retry does not see the circuit open.   *)
(* Each slot may send one more request, except that of the coroutine whose *)
(* failure opened it.                                                      *)
(***************************************************************************)
OvershootBounded == late < Concurrency

(***************************************************************************)
(* What a run promises to find: a certificate that conformed to the TLS    *)
(* rules and was valid on the day of its revocation; without a usable date *)
(* any; in a full-history run any of the wide range.                       *)
(***************************************************************************)
ValidWhenRevoked ==
    UNION {{<<r, certificate>> :
                certificate \in {c \in Certificates : Conforms(c) /\ ValidOn(c, Revoked[r])}} :
           r \in Dated}

Promise(r) ==
    IF server[r] \notin Certificates THEN "absent"
    ELSE IF \/ <<r, server[r]>> \in ValidWhenRevoked
            \/ IF fullHistory THEN server[r] \in Historical ELSE r \notin Dated
         THEN "usable"
    ELSE "outside"

Pass == INSTANCE SourcePass WITH
    Records <- Records,
    has <- [r \in Records |-> Promise(r)],
    selected <- Records,
    reported <- IF returned THEN result ELSE [r \in Records |-> "none"],
    ending <- IF ~returned THEN "running" ELSE IF isOpen THEN "circuit" ELSE "complete"

(***************************************************************************)
(* A miss is only reported for a certificate that the service does not     *)
(* have or that is beyond what the run promises to find: neither the       *)
(* window of a batch with several dates, nor that of one half of it, nor   *)
(* an ambiguous answer, a failed second query or an open circuit makes a   *)
(* miss of another.  An open circuit shows in an error.                    *)
(***************************************************************************)
ImplementsPass == Pass!Spec

\* Every query ends, with as many batches as there may be and one slot.
EveryPassEnds == Pass!Ends
=============================================================================
