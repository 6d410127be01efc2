--------------------------- MODULE CircuitBreaker ---------------------------
(***************************************************************************)
(* SourceCircuitBreaker (lookup.py): the per-run breaker that stops one    *)
(* unhealthy lookup source.  Every coroutine of a source (CT batches,      *)
(* crt.sh workers) shares one breaker; each method runs under its          *)
(* asyncio.Lock, so each method is one atomic action here.                 *)
(*                                                                         *)
(* The breaker never stores the history of requests.  It keeps a bounded   *)
(* window and two counters, and evaluates its thresholds only while it     *)
(* records a FAILURE.                                                      *)
(***************************************************************************)
EXTENDS BreakerResults

VARIABLES
    recent,                 \* _recent: 1 is a failed request, newest last
    consecutiveFailures,    \* _consecutive_failures
    consecutiveRateLimits,  \* _consecutive_rate_limits
    isOpen,                 \* _open
    reason                  \* _reason, "" while closed

breakerVars ==
    <<recent, consecutiveFailures, consecutiveRateLimits, isOpen, reason>>

\* Mutant: a deque without maxlen.
PushUnbounded(window, sample) == Append(window, sample)

\* deque(maxlen=window_size).append: a full window loses its oldest sample.
Push(window, sample) ==
    IF Len(window) < WindowSize THEN Append(window, sample)
                                ELSE Append(Tail(window), sample)

FailuresIn(window) == Cardinality({i \in 1..Len(window) : window[i] = 1})

RatioReached(window) ==
    /\ Len(window) >= MinimumWindowSamples
    /\ 100 * FailuresIn(window) >= FailurePercent * Len(window)

(***************************************************************************)
(* The reason the if/elif chain of record_failure finds, or NotOpen:   *)
(* window, failures and rateLimits are the values after the failure was    *)
(* counted.                                                                *)
(***************************************************************************)
OpeningReason(failure, window, failures, rateLimits) ==
    IF failure = HttpClientError THEN "http_client_error"
    ELSE IF rateLimits >= RateLimitLimit THEN "consecutive_rate_limits"
    ELSE IF failures >= ConsecutiveFailureLimit
         THEN "consecutive_request_failures"
    ELSE IF RatioReached(window) THEN "request_failure_ratio"
    ELSE NotOpen

----------------------------------------------------------------------------

Init ==
    /\ recent = <<>>
    /\ consecutiveFailures = 0
    /\ consecutiveRateLimits = 0
    /\ isOpen = FALSE
    /\ reason = NotOpen

\* Mutant: a success does not end a run of rate limits.
RecordSuccessKeepingRateLimits ==
    /\ recent' = Push(recent, 0)
    /\ consecutiveFailures' = 0
    /\ UNCHANGED <<consecutiveRateLimits, isOpen, reason>>

\* record_success resets both counters and evaluates no threshold.
RecordSuccess ==
    /\ recent' = Push(recent, 0)
    /\ consecutiveFailures' = 0
    /\ consecutiveRateLimits' = 0
    /\ UNCHANGED <<isOpen, reason>>

\* Mutant: a later reason replaces the first.
RecordFailureLastReason(failure) ==
    /\ recent' = Push(recent, 1)
    /\ consecutiveFailures' = consecutiveFailures + 1
    /\ consecutiveRateLimits' =
            IF failure = RateLimited THEN consecutiveRateLimits + 1 ELSE 0
    /\ LET found == OpeningReason(failure, recent', consecutiveFailures',
                                  consecutiveRateLimits')
       IN  /\ isOpen' = (isOpen \/ found # NotOpen)
           /\ reason' = IF found # NotOpen THEN found ELSE reason

\* record_failure and _open_with: the first reason wins, nothing closes again.
RecordFailure(failure) ==
    /\ recent' = Push(recent, 1)
    /\ consecutiveFailures' = consecutiveFailures + 1
    /\ consecutiveRateLimits' =
            IF failure = RateLimited THEN consecutiveRateLimits + 1 ELSE 0
    /\ LET found == OpeningReason(failure, recent', consecutiveFailures',
                                  consecutiveRateLimits')
       IN  /\ isOpen' = (isOpen \/ found # NotOpen)
           /\ reason' = IF isOpen THEN reason ELSE found

\* allow_request: what a coroutine learns before it sends a request.
AllowRequest == ~isOpen

Record(result) ==
    \/ result = Success /\ RecordSuccess
    \/ result \in Failures /\ RecordFailure(result)

Next == \E result \in Results : Record(result)

Spec == Init /\ [][Next]_breakerVars

(***************************************************************************)
(* Type invariant.  A deque never outgrows its maxlen, an open breaker has *)
(* a reason and a closed one has none.                                     *)
(***************************************************************************)
TypeOK ==
    /\ recent \in Seq({0, 1})
    /\ Len(recent) <= WindowSize
    /\ consecutiveFailures \in Nat
    /\ consecutiveRateLimits \in Nat
    /\ isOpen \in BOOLEAN
    /\ reason \in Reasons \cup {NotOpen}
    /\ isOpen <=> reason # NotOpen
=============================================================================
