--------------------------- MODULE BreakerPromise ---------------------------
(***************************************************************************)
(* What SourceCircuitBreaker promises its callers, stated over the whole   *)
(* history of recorded results instead of the window and counters it       *)
(* keeps.  CircuitBreaker is shown to implement this specification.        *)
(***************************************************************************)
EXTENDS BreakerResults

VARIABLES history, isOpen, reason

promiseVars == <<history, isOpen, reason>>

\* The last n results exist and all lie in S.
LastAreIn(h, n, S) ==
    /\ Len(h) >= n
    /\ \A i \in 1..n : h[Len(h) - n + i] \in S

\* The sizes of the recent history and of the failures in it.
Samples(h) == IF Len(h) < WindowSize THEN Len(h) ELSE WindowSize
FailedSamples(h) ==
    Cardinality({i \in 1..Samples(h) : h[Len(h) - Samples(h) + i] \in Failures})

(***************************************************************************)
(* The reason a history ending in a failure gives for opening.  A history  *)
(* ending in a success gives none, whatever its failure ratio.             *)
(***************************************************************************)
Cause(h) ==
    IF h[Len(h)] \notin Failures THEN NotOpen
    ELSE IF h[Len(h)] = HttpClientError THEN "http_client_error"
    ELSE IF LastAreIn(h, RateLimitLimit, {RateLimited})
         THEN "consecutive_rate_limits"
    ELSE IF LastAreIn(h, ConsecutiveFailureLimit, Failures)
         THEN "consecutive_request_failures"
    ELSE IF /\ Samples(h) >= MinimumWindowSamples
            /\ 100 * FailedSamples(h) >= FailurePercent * Samples(h)
         THEN "request_failure_ratio"
    ELSE NotOpen

Init ==
    /\ history = <<>>
    /\ isOpen = FALSE
    /\ reason = NotOpen

\* The breaker opens with the first cause its history gives, and for good.
Record(result) ==
    /\ history' = Append(history, result)
    /\ isOpen' = (isOpen \/ Cause(history') # NotOpen)
    /\ reason' = IF isOpen THEN reason ELSE Cause(history')

Next == \E result \in Results : Record(result)

Spec == Init /\ [][Next]_promiseVars
=============================================================================
