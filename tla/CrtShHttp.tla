----------------------------- MODULE CrtShHttp ------------------------------
(***************************************************************************)
(* CrtShHttpProvider.supplement_records (crt_sh_crawler.py): workers take  *)
(* records from one iterator.  A record costs a query for its candidates   *)
(* and a request for the certificate of each, until one is usable.  Every  *)
(* attempt of every request asks the breaker first.                        *)
(*                                                                         *)
(* Everything between two awaits is one step: a response, what the breaker *)
(* learns from it, the outcome with its commit, the next record and its    *)
(* first request.  The semaphore has a slot for every worker and never     *)
(* blocks.                                                                 *)
(***************************************************************************)
EXTENDS CrtShSource

CONSTANT Workers  \* self.concurrency

ASSUME HttpConstants == Workers # {}

VARIABLES
    next,  \* position of the iterator in the queue
    work   \* [Workers -> what the worker does]

httpVars == <<next, work>>

\* position: in the queue; candidate: 0 while they are queried.
Idle == [pc |-> "stopped", position |-> 0, candidate |-> 0, attempt |-> 0]

HttpInit == next = 1 /\ work = [w \in Workers |-> Idle]

\* What a pass that ended leaves in memory.
HttpForget == next' = 1 /\ work' = [w \in Workers |-> Idle]

HttpStart ==
    /\ next' = 1
    /\ work' = [w \in Workers |-> [Idle EXCEPT !.pc = "new"]]

Record(w) == queue[work[w].position]

Send(w, position, candidate) ==
    work' = [work EXCEPT ![w] = [pc |-> "sent", position |-> position,
                                 candidate |-> candidate, attempt |-> 0]]

\* The loop head of a worker, after the outcomes so far: a record that
\* meets an open circuit is gone from the iterator without an outcome.
TakeNext(w, outcomes) ==
    /\ reported' = outcomes
    /\ IF next > Len(queue)
       THEN work' = [work EXCEPT ![w] = Idle] /\ UNCHANGED next
       ELSE /\ next' = next + 1
            /\ IF isOpen' THEN work' = [work EXCEPT ![w] = Idle] ELSE Send(w, next, 0)

HttpReport(w, outcome) == TakeNext(w, [reported EXCEPT ![Record(w)] = outcome])

\* A candidate is useless or its request failed.  With an open circuit the
\* requests for the others fail before they are sent.
NextCandidate(w) ==
    IF work[w].candidate < Len(server[Record(w)]) /\ ~isOpen'
    THEN Send(w, work[w].position, work[w].candidate + 1) /\ UNCHANGED <<next, reported>>
    ELSE HttpReport(w, "error")

GiveUp(w) == IF work[w].candidate = 0 THEN HttpReport(w, "error") ELSE NextCandidate(w)

StartWorker(w) ==
    /\ work[w].pc = "new"
    /\ UNCHANGED breakerVars
    /\ TakeNext(w, reported)
    /\ UNCHANGED <<given, ending>>

Answered(w) == work[w].pc = "sent" /\ Record(w) \notin refused

\* The list of candidates.
Listed(w) ==
    /\ Answered(w) /\ work[w].candidate = 0
    /\ Breaker!RecordSuccess
    /\ IF server[Record(w)] = <<>> THEN HttpReport(w, "not_found") ELSE NextCandidate(w)
    /\ UNCHANGED <<given, ending>>

\* A list that is none, or whose items lack an issuer or an id.
Malformed(w) ==
    /\ Answered(w) /\ work[w].candidate = 0 /\ ~calm
    /\ Breaker!RecordSuccess
    /\ HttpReport(w, "error")
    /\ UNCHANGED <<given, ending>>

Examined(w) == server[Record(w)][work[w].candidate]

\* The DER of a candidate.
Downloaded(w) ==
    /\ Answered(w) /\ work[w].candidate > 0 /\ Examined(w) # "raising"
    /\ Breaker!RecordSuccess
    /\ IF Examined(w) = "usable" THEN HttpReport(w, "found") ELSE NextCandidate(w)
    /\ UNCHANGED <<given, ending>>

\* The worker catches what its record raises, after the success of the
\* request was recorded, and records a failure as well.
Raises(w) ==
    /\ Answered(w) /\ work[w].candidate > 0 /\ Examined(w) = "raising"
    /\ recent' = Breaker!Push(Breaker!Push(recent, 0), 1)
    /\ consecutiveFailures' = 1 /\ consecutiveRateLimits' = 0
    /\ LET found == Breaker!OpeningReason(OtherFailure, recent', 1, 0)
       IN  /\ isOpen' = (isOpen \/ found # NotOpen)
           /\ reason' = IF isOpen THEN reason ELSE found
    /\ HttpReport(w, "error")
    /\ UNCHANGED <<given, ending>>

\* Mutant: the last attempt is followed by another.
MayRetryOnceMore(w, failure) ==
    work[w].attempt < MaxAttempts /\ failure # HttpClientError /\ ~isOpen'

MayRetry(w, failure) ==
    work[w].attempt < MaxAttempts - 1 /\ failure # HttpClientError /\ ~isOpen'

RequestFails(w, failure) ==
    /\ work[w].pc = "sent" /\ failure \in Troubles(Record(w))
    /\ Breaker!RecordFailure(failure)
    /\ IF MayRetry(w, failure)
       THEN /\ work' = [work EXCEPT ![w] = [@ EXCEPT !.pc = "asleep",
                                                   !.attempt = work[w].attempt + 1]]
            /\ UNCHANGED <<next, reported>>
       ELSE GiveUp(w)
    /\ UNCHANGED <<given, ending>>

\* Mutant: the request is sent again, as in ct_client.py.
WakeWithoutAsking(w) ==
    /\ work[w].pc = "asleep"
    /\ work' = [work EXCEPT ![w].pc = "sent"]
    /\ UNCHANGED <<given, ending, breakerVars, next, reported>>

\* After the pause the breaker is asked again.
Wake(w) ==
    /\ work[w].pc = "asleep"
    /\ UNCHANGED breakerVars
    /\ IF isOpen THEN GiveUp(w)
       ELSE work' = [work EXCEPT ![w].pc = "sent"] /\ UNCHANGED <<next, reported>>
    /\ UNCHANGED <<given, ending>>

\* All workers are done: the pass is complete, or the circuit cut it short.
Return ==
    /\ \A w \in Workers : work[w].pc = "stopped"
    /\ ending' = IF \A r \in ToSet(queue) : reported[r] # "none"
                 THEN "complete" ELSE "circuit"
    /\ HttpForget
    /\ UNCHANGED <<given, reported, breakerVars>>

\* wait_for cancels the workers at their awaits; what is on its way is lost.
Budget ==
    /\ ~calm
    /\ ending' = "budget"
    /\ HttpForget
    /\ UNCHANGED <<given, reported, breakerVars>>

Work(w) ==
    \/ StartWorker(w) \/ Listed(w) \/ Malformed(w) \/ Downloaded(w) \/ Raises(w) \/ Wake(w)
    \/ \E failure \in Failures : RequestFails(w, failure)

HttpNext == (\E w \in Workers : Work(w)) \/ Return \/ Budget
=============================================================================
