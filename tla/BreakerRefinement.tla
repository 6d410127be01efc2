------------------------- MODULE BreakerRefinement --------------------------
(***************************************************************************)
(* CircuitBreaker with the history it does not keep, as a history          *)
(* variable, and the statement that it implements BreakerPromise.          *)
(***************************************************************************)
EXTENDS CircuitBreaker

VARIABLE history  \* every recorded result, oldest first

refinementVars == <<breakerVars, history>>

Promise == INSTANCE BreakerPromise WITH
    history <- history, isOpen <- isOpen, reason <- reason

HInit == Init /\ history = <<>>

HNext ==
    \E result \in Results :
        /\ Record(result)
        /\ history' = Append(history, result)

HSpec == HInit /\ [][HNext]_refinementVars

(***************************************************************************)
(* The bounded state of the breaker is an exact summary of the history:    *)
(* the window is its suffix, and each counter is the length of the longest *)
(* suffix of failures, of 429s.  A counter that is not reset by the other  *)
(* kind of result, or a window that drops the wrong end, breaks it.        *)
(***************************************************************************)
Sample(result) == IF result \in Failures THEN 1 ELSE 0

IsWindowOf(w, h) ==
    /\ Len(w) = Promise!Samples(h)
    /\ \A i \in 1..Len(w) : w[i] = Sample(h[Len(h) - Len(w) + i])

IsLongestSuffix(h, n, S) ==
    /\ n <= Len(h)
    /\ \A i \in 1..n : h[Len(h) - n + i] \in S
    /\ n < Len(h) => h[Len(h) - n] \notin S

CountersSummariseHistory ==
    /\ IsWindowOf(recent, history)
    /\ IsLongestSuffix(history, consecutiveFailures, Failures)
    /\ IsLongestSuffix(history, consecutiveRateLimits, {RateLimited})

(***************************************************************************)
(* The breaker opens exactly when its history first gives a cause, with    *)
(* that cause as its reason, and never closes or changes its reason.       *)
(***************************************************************************)
ImplementsPromise == Promise!Spec

(***************************************************************************)
(* docs/sources-and-retries.md, "Source Circuit Breaker": the circuit      *)
(* opens after at least 10 samples in the recent 20 with a failure ratio   *)
(* of 50% or more.  A success recorded when the window reaches its         *)
(* minimum size leaves such a window with the circuit closed.              *)
(***************************************************************************)
RatioOpensCircuit == RatioReached(recent) => isOpen
=============================================================================
