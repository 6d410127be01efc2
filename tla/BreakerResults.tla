--------------------------- MODULE BreakerResults ---------------------------
(***************************************************************************)
(* What is reported to a SourceCircuitBreaker (lookup.py), and its limits. *)
(* Shared by the breaker and by the abstract statement of its promise.     *)
(***************************************************************************)
EXTENDS Integers, Sequences, FiniteSets

CONSTANTS
    ConsecutiveFailureLimit,  \* consecutive_failure_limit (5)
    WindowSize,               \* window_size, the deque's maxlen (20)
    MinimumWindowSamples,     \* minimum_window_samples (10)
    FailurePercent,           \* failure_ratio as a percentage (50)
    RateLimitLimit            \* rate_limit_limit (3)

ASSUME BreakerLimits ==
    /\ ConsecutiveFailureLimit \in Nat \ {0}
    /\ WindowSize \in Nat \ {0}
    /\ MinimumWindowSamples \in Nat \ {0}
    /\ FailurePercent \in 0..100
    /\ RateLimitLimit \in Nat \ {0}

(***************************************************************************)
(* The failures the callers report, by what the thresholds tell apart: a   *)
(* 429, any other 4xx, and everything else (5xx, timeout, network error,   *)
(* malformed body).                                                        *)
(***************************************************************************)
RateLimited == "rate_limited"
HttpClientError == "http_client_error"
OtherFailure == "other_failure"
Success == "success"

Failures == {RateLimited, HttpClientError, OtherFailure}
Results == Failures \cup {Success}

NotOpen == ""
Reasons ==
    {"http_client_error", "consecutive_rate_limits",
     "consecutive_request_failures", "request_failure_ratio"}
=============================================================================
