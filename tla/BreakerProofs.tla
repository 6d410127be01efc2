--------------------------- MODULE BreakerProofs ----------------------------
(***************************************************************************)
(* BreakerRefinement's invariants and refinement, for every value of the   *)
(* limits and histories of any length.                                     *)
(***************************************************************************)
EXTENDS BreakerRefinement, TLAPS

HTypeOK == TypeOK /\ history \in Seq(Results)

IInv == HTypeOK /\ CountersSummariseHistory

LEMMA ReasonIsKnown ==
    ASSUME NEW f, NEW w, NEW n, NEW r
    PROVE  OpeningReason(f, w, n, r) \in Reasons \cup {NotOpen}
  BY DEF OpeningReason, Reasons, NotOpen

\* deque.append: the newest sample is last, and at most one old sample leaves.
LEMMA PushKeepsSuffix ==
    ASSUME NEW w \in Seq({0, 1}), Len(w) <= WindowSize, NEW b \in {0, 1}
    PROVE  /\ Push(w, b) \in Seq({0, 1})
           /\ Len(Push(w, b)) = IF Len(w) < WindowSize THEN Len(w) + 1
                                                       ELSE WindowSize
           /\ Push(w, b)[Len(Push(w, b))] = b
           /\ Len(w) < WindowSize => \A i \in 1..Len(w) : Push(w, b)[i] = w[i]
           /\ Len(w) = WindowSize =>
                 \A i \in 1..(WindowSize - 1) : Push(w, b)[i] = w[i + 1]
  <1> USE BreakerLimits DEF Push
  <1>1. CASE Len(w) < WindowSize
    BY <1>1
  <1>2. CASE Len(w) = WindowSize
    <2>1. w # <<>> /\ Tail(w) \in Seq({0, 1}) /\ Len(Tail(w)) = WindowSize - 1
      BY <1>2
    <2>2. \A i \in 1..(WindowSize - 1) : Tail(w)[i] = w[i + 1]
      BY <1>2, <2>1
    <2> DEFINE t == Tail(w)
    <2>3. /\ Push(w, b) = Append(t, b)
          /\ t \in Seq({0, 1}) /\ Len(t) = WindowSize - 1
          /\ \A i \in 1..(WindowSize - 1) : t[i] = w[i + 1]
      BY <1>2, <2>1, <2>2
    <2> HIDE DEF t
    <2>4. /\ Append(t, b) \in Seq({0, 1})
          /\ Len(Append(t, b)) = WindowSize
          /\ Append(t, b)[WindowSize] = b
          /\ \A i \in 1..(WindowSize - 1) : Append(t, b)[i] = t[i]
      BY <2>3
    <2> QED
      BY <1>2, <2>3, <2>4
  <1> QED
    BY <1>1, <1>2

LEMMA InitEstablishes == HInit => IInv
  <1> SUFFICES ASSUME HInit PROVE IInv
    OBVIOUS
  <1> USE BreakerLimits DEF HInit, Init
  <1>1. HTypeOK
    <2>1. recent \in Seq({0, 1}) /\ Len(recent) <= WindowSize
      BY DEF HTypeOK, TypeOK
    <2>2. isOpen \in BOOLEAN /\ (isOpen <=> reason # NotOpen)
      BY Zenon
    <2> QED
      BY <2>1, <2>2 DEF HTypeOK, TypeOK
  <1>2. Len(recent) = 0 /\ Len(history) = 0 /\ Promise!Samples(history) = 0
    BY DEF Promise!Samples
  <1>3. CountersSummariseHistory
    BY <1>2 DEF CountersSummariseHistory, IsWindowOf, IsLongestSuffix
  <1> QED
    BY <1>1, <1>3 DEF IInv

LEMMA TypeStep == HTypeOK /\ HNext => HTypeOK'
  <1> SUFFICES ASSUME HTypeOK, NEW result \in Results, Record(result),
                      history' = Append(history, result)
               PROVE  HTypeOK'
    BY DEF HNext
  <1> USE DEF HTypeOK, TypeOK
  <1>1. history' \in Seq(Results)
    OBVIOUS
  <1>2. CASE result = Success /\ RecordSuccess
    BY <1>1, <1>2, PushKeepsSuffix, BreakerLimits DEF RecordSuccess
  <1>3. CASE result \in Failures /\ RecordFailure(result)
    <2> DEFINE found == OpeningReason(result, recent', consecutiveFailures',
                                      consecutiveRateLimits')
    <2>1. recent' \in Seq({0, 1}) /\ Len(recent') <= WindowSize
      BY <1>3, PushKeepsSuffix, BreakerLimits DEF RecordFailure
    <2>2. consecutiveFailures' \in Nat /\ consecutiveRateLimits' \in Nat
      BY <1>3 DEF RecordFailure
    <2>3. found \in Reasons \cup {NotOpen}
      BY ReasonIsKnown
    <2>4. /\ isOpen' = (isOpen \/ found # NotOpen)
          /\ reason' = IF isOpen THEN reason ELSE found
      BY <1>3 DEF RecordFailure
    <2>5. isOpen' \in BOOLEAN /\ reason' \in Reasons \cup {NotOpen}
      BY <2>3, <2>4
    <2>6. isOpen' <=> reason' # NotOpen
      BY <2>4
    <2> QED
      BY <1>1, <2>1, <2>2, <2>5, <2>6
  <1> QED
    BY <1>2, <1>3 DEF Record

\* A result in S extends the longest suffix in S by one; another ends it.
LEMMA SuffixGrows ==
    ASSUME NEW h \in Seq(Results), NEW r \in Results, NEW n \in Nat, NEW S,
           IsLongestSuffix(h, n, S)
    PROVE  IsLongestSuffix(Append(h, r), IF r \in S THEN n + 1 ELSE 0, S)
  <1> DEFINE g == Append(h, r)
  <1>1. /\ Len(h) \in Nat
        /\ Len(g) = Len(h) + 1
        /\ g[Len(h) + 1] = r
        /\ \A i \in 1..Len(h) : g[i] = h[i]
    OBVIOUS
  <1> HIDE DEF g
  <1>2. CASE r \in S
    <2>1. ASSUME NEW i \in 1..(n + 1)
          PROVE  g[Len(g) - (n + 1) + i] \in S
      <3>1. Len(g) - (n + 1) + i = Len(h) - n + i
        BY <1>1
      <3>2. CASE i = n + 1
        BY <1>1, <1>2, <3>1, <3>2
      <3>3. CASE i \in 1..n
        <4>1. Len(h) - n + i \in 1..Len(h)
          BY <1>1, <3>3 DEF IsLongestSuffix
        <4> QED
          BY <1>1, <3>1, <3>3, <4>1 DEF IsLongestSuffix
      <3> QED
        BY <3>2, <3>3
    <2>2. ASSUME n + 1 < Len(g)
          PROVE  g[Len(g) - (n + 1)] \notin S
      <3>1. Len(g) - (n + 1) = Len(h) - n /\ Len(h) - n \in 1..Len(h)
        BY <1>1, <2>2
      <3> QED
        BY <1>1, <2>2, <3>1 DEF IsLongestSuffix
    <2>3. n + 1 <= Len(g)
      BY <1>1 DEF IsLongestSuffix
    <2> QED
      BY <1>2, <2>1, <2>2, <2>3 DEF IsLongestSuffix, g
  <1>3. CASE r \notin S
    BY <1>1, <1>3 DEF IsLongestSuffix, g
  <1> QED
    BY <1>2, <1>3

\* The window stays the suffix of the history when both record a result.
LEMMA WindowSlides ==
    ASSUME NEW w \in Seq({0, 1}), NEW h \in Seq(Results), NEW r \in Results,
           IsWindowOf(w, h)
    PROVE  IsWindowOf(Push(w, Sample(r)), Append(h, r))
  <1> DEFINE v == Push(w, Sample(r))
             g == Append(h, r)
  <1>1. Len(h) \in Nat /\ Len(w) \in Nat /\ WindowSize \in Nat \ {0}
    BY BreakerLimits
  <1>2. /\ Len(w) = IF Len(h) < WindowSize THEN Len(h) ELSE WindowSize
        /\ \A i \in 1..Len(w) : w[i] = Sample(h[Len(h) - Len(w) + i])
    BY DEF IsWindowOf, Promise!Samples
  <1>3. /\ Len(g) = Len(h) + 1
        /\ g[Len(h) + 1] = r
        /\ \A i \in 1..Len(h) : g[i] = h[i]
    OBVIOUS
  <1>4. /\ Len(v) = IF Len(w) < WindowSize THEN Len(w) + 1 ELSE WindowSize
        /\ v[Len(v)] = Sample(r)
        /\ Len(w) < WindowSize => \A i \in 1..Len(w) : v[i] = w[i]
        /\ Len(w) = WindowSize => \A i \in 1..(WindowSize - 1) : v[i] = w[i + 1]
    <2>1. Sample(r) \in {0, 1} /\ Len(w) <= WindowSize
      BY <1>1, <1>2 DEF Sample
    <2> QED
      BY <2>1, PushKeepsSuffix
  <1> HIDE DEF v, g
  <1>5. Len(v) = IF Len(g) < WindowSize THEN Len(g) ELSE WindowSize
    BY <1>1, <1>2, <1>3, <1>4
  <1>6. Len(v) \in Nat
    BY <1>1, <1>4
  <1>7. ASSUME NEW i \in 1..Len(v)
        PROVE  v[i] = Sample(g[Len(g) - Len(v) + i])
    <2>1. CASE i = Len(v)
      <3>1. Len(g) - Len(v) + i = Len(h) + 1
        BY <1>3, <1>1, <1>6, <2>1
      <3> QED
        BY <1>3, <1>4, <2>1, <3>1
    <2>2. CASE i < Len(v) /\ Len(w) < WindowSize
      <3>0. /\ Len(v) = Len(w) + 1 /\ Len(w) = Len(h) /\ Len(g) = Len(h) + 1
            /\ i \in Int /\ 1 <= i
        BY <1>1, <1>2, <1>3, <1>4, <1>6, <2>2
      <3>1. /\ i \in 1..Len(w)
            /\ Len(g) - Len(v) + i = Len(h) - Len(w) + i
            /\ Len(h) - Len(w) + i \in 1..Len(h)
        BY <1>1, <2>2, <3>0
      <3> QED
        BY <1>2, <1>3, <1>4, <2>2, <3>1
    <2>3. CASE i < Len(v) /\ Len(w) = WindowSize
      <3>0. /\ Len(v) = WindowSize /\ Len(w) <= Len(h) /\ Len(g) = Len(h) + 1
            /\ i \in Int /\ 1 <= i
        BY <1>1, <1>2, <1>3, <1>4, <1>6, <2>3
      <3>1. /\ i \in 1..(WindowSize - 1) /\ i + 1 \in 1..Len(w)
            /\ Len(g) - Len(v) + i = Len(h) - Len(w) + (i + 1)
            /\ Len(h) - Len(w) + (i + 1) \in 1..Len(h)
        BY <1>1, <2>3, <3>0
      <3>2. w[i + 1] = Sample(h[Len(h) - Len(w) + (i + 1)])
        BY <1>2, <3>1
      <3> QED
        BY <1>3, <1>4, <2>3, <3>1, <3>2
    <2> QED
      BY <1>1, <1>2, <1>6, <2>1, <2>2, <2>3
  <1> QED
    BY <1>5, <1>7 DEF IsWindowOf, Promise!Samples, v, g

LEMMA CountersStep == IInv /\ HNext => CountersSummariseHistory'
  <1> SUFFICES ASSUME IInv, NEW result \in Results, Record(result),
                      history' = Append(history, result)
               PROVE  CountersSummariseHistory'
    BY DEF HNext
  <1>1. /\ recent \in Seq({0, 1}) /\ history \in Seq(Results)
        /\ consecutiveFailures \in Nat /\ consecutiveRateLimits \in Nat
    BY DEF IInv, HTypeOK, TypeOK
  <1>2. /\ recent' = Push(recent, Sample(result))
        /\ consecutiveFailures' =
              IF result \in Failures THEN consecutiveFailures + 1 ELSE 0
        /\ consecutiveRateLimits' =
              IF result \in {RateLimited} THEN consecutiveRateLimits + 1 ELSE 0
    BY DEF Record, RecordSuccess, RecordFailure, Sample, Failures, Success,
           RateLimited, HttpClientError, OtherFailure
  <1>3. IsWindowOf(recent, history)'
    BY <1>1, <1>2, WindowSlides DEF IInv, CountersSummariseHistory
  <1>4. IsLongestSuffix(history, consecutiveFailures, Failures)'
    BY <1>1, <1>2, SuffixGrows DEF IInv, CountersSummariseHistory
  <1>5. IsLongestSuffix(history, consecutiveRateLimits, {RateLimited})'
    BY <1>1, <1>2, SuffixGrows DEF IInv, CountersSummariseHistory
  <1> QED
    BY <1>3, <1>4, <1>5 DEF CountersSummariseHistory

LEMMA Invariance == IInv /\ [HNext]_refinementVars => IInv'
  <1>1. CASE HNext
    BY <1>1, TypeStep, CountersStep DEF IInv
  <1>2. CASE UNCHANGED refinementVars
    BY <1>2 DEF IInv, HTypeOK, TypeOK, CountersSummariseHistory, IsWindowOf,
                IsLongestSuffix, Promise!Samples, refinementVars, breakerVars
  <1> QED
    BY <1>1, <1>2

(***************************************************************************)
(* The types of the breaker's fields: the window never outgrows its        *)
(* maxlen and a reason is set exactly while the breaker is open.           *)
(***************************************************************************)
THEOREM BreakerTypeCorrect == HSpec => []TypeOK
  <1>1. IInv => TypeOK
    BY DEF IInv, HTypeOK
  <1> QED
    BY <1>1, InitEstablishes, Invariance, PTL DEF HSpec

(***************************************************************************)
(* The window and the two counters of the breaker are an exact summary of  *)
(* everything recorded so far, however long the run.                       *)
(***************************************************************************)
THEOREM BreakerCountersExact == HSpec => []CountersSummariseHistory
  <1>1. IInv => CountersSummariseHistory
    BY DEF IInv
  <1> QED
    BY <1>1, InitEstablishes, Invariance, PTL DEF HSpec

----------------------------------------------------------------------------

\* A counter reaches k exactly when the last k results are of its kind.
LEMMA CounterReachesLimit ==
    ASSUME NEW g \in Seq(Results), NEW n \in Nat, NEW S, NEW k \in Nat \ {0},
           IsLongestSuffix(g, n, S)
    PROVE  Promise!LastAreIn(g, k, S) <=> n >= k
  <1>1. Len(g) \in Nat
    OBVIOUS
  <1>2. ASSUME n >= k
        PROVE  Promise!LastAreIn(g, k, S)
    <2>1. ASSUME NEW i \in 1..k
          PROVE  g[Len(g) - k + i] \in S
      <3>1. /\ Len(g) - k + i = Len(g) - n + (n - k + i)
            /\ n - k + i \in 1..n
        BY <1>1, <1>2
      <3> QED
        BY <3>1 DEF IsLongestSuffix
    <2> QED
      BY <1>1, <1>2, <2>1 DEF Promise!LastAreIn, IsLongestSuffix
  <1>3. ASSUME n < k, Promise!LastAreIn(g, k, S)
        PROVE  FALSE
    <2>1. /\ n < Len(g) /\ k - n \in 1..k
          /\ Len(g) - k + (k - n) = Len(g) - n
      BY <1>1, <1>3 DEF Promise!LastAreIn
    <2> QED
      BY <1>3, <2>1 DEF Promise!LastAreIn, IsLongestSuffix
  <1> QED
    BY <1>2, <1>3

\* The window holds as many failures as the recent history.
LEMMA WindowCountsFailures ==
    ASSUME NEW w, NEW g, IsWindowOf(w, g)
    PROVE  FailuresIn(w) = Promise!FailedSamples(g)
  <1>1. Len(w) = Promise!Samples(g)
    BY DEF IsWindowOf
  <1>2. \A i \in 1..Len(w) : w[i] = 1 <=> g[Len(g) - Len(w) + i] \in Failures
    BY DEF IsWindowOf, Sample
  <1>3. {i \in 1..Len(w) : w[i] = 1} =
        {i \in 1..Promise!Samples(g) :
            g[Len(g) - Promise!Samples(g) + i] \in Failures}
    BY <1>1, <1>2
  <1>4. Promise!Failures = Failures
    BY DEF Promise!Failures, Failures, Promise!RateLimited,
           Promise!HttpClientError, Promise!OtherFailure, RateLimited,
           HttpClientError, OtherFailure
  <1>5. {i \in 1..Promise!Samples(g) :
            g[Len(g) - Promise!Samples(g) + i] \in Failures} =
        {i \in 1..Promise!Samples(g) :
            g[Len(g) - Promise!Samples(g) + i] \in Promise!Failures}
    BY <1>4
  <1> QED
    BY <1>3, <1>5 DEF FailuresIn, Promise!FailedSamples, Cardinality,
                      Promise!Cardinality

\* The elif chain over the summary finds the cause of the whole history.
LEMMA ReasonIsCause ==
    ASSUME NEW w, NEW g \in Seq(Results), NEW n \in Nat, NEW m \in Nat,
           Len(g) > 0, g[Len(g)] \in Failures,
           IsWindowOf(w, g), IsLongestSuffix(g, n, Failures),
           IsLongestSuffix(g, m, {RateLimited})
    PROVE  OpeningReason(g[Len(g)], w, n, m) = Promise!Cause(g)
  <1>1. Promise!LastAreIn(g, ConsecutiveFailureLimit, Failures)
           <=> n >= ConsecutiveFailureLimit
    BY CounterReachesLimit, BreakerLimits
  <1>2. Promise!LastAreIn(g, RateLimitLimit, {RateLimited})
           <=> m >= RateLimitLimit
    BY CounterReachesLimit, BreakerLimits
  <1>3. RatioReached(w) <=>
           /\ Promise!Samples(g) >= MinimumWindowSamples
           /\ 100 * Promise!FailedSamples(g)
                >= FailurePercent * Promise!Samples(g)
    <2>1. Len(w) = Promise!Samples(g)
      BY DEF IsWindowOf
    <2> QED
      BY <2>1, WindowCountsFailures DEF RatioReached
  <1> QED
    BY <1>1, <1>2, <1>3
    DEF OpeningReason, Promise!Cause, Promise!Failures, Failures,
        Promise!RateLimited, Promise!HttpClientError, Promise!OtherFailure,
        RateLimited, HttpClientError, OtherFailure, Promise!NotOpen, NotOpen

LEMMA StepRefines == IInv /\ HNext => Promise!Next
  <1> SUFFICES ASSUME IInv, NEW result \in Results, Record(result),
                      history' = Append(history, result)
               PROVE  Promise!Record(result)
    BY DEF HNext, Promise!Next, Promise!Results, Results, Promise!Failures,
           Failures, Promise!RateLimited, Promise!HttpClientError,
           Promise!OtherFailure, RateLimited, HttpClientError, OtherFailure,
           Promise!Success, Success
  <1>1. HNext
    BY DEF HNext
  <1>2. IInv'
    BY <1>1, Invariance
  <1>3. /\ history' \in Seq(Results) /\ Len(history') > 0
        /\ history'[Len(history')] = result
    BY DEF IInv, HTypeOK
  <1>4. CASE result = Success /\ RecordSuccess
    <2>1. Promise!Cause(history') = NotOpen
      BY <1>3, <1>4 DEF Promise!Cause, Promise!Failures, Promise!RateLimited,
                        Promise!HttpClientError, Promise!OtherFailure, Success,
                        Promise!NotOpen, NotOpen
    <2>2. isOpen' = isOpen /\ reason' = reason /\ isOpen \in BOOLEAN
      BY <1>4 DEF RecordSuccess, IInv, HTypeOK, TypeOK
    <2>3. isOpen <=> reason # NotOpen
      BY DEF IInv, HTypeOK, TypeOK
    <2>4. /\ isOpen' = (isOpen \/ Promise!Cause(history') # Promise!NotOpen)
          /\ reason' = IF isOpen THEN reason ELSE Promise!Cause(history')
      BY <2>1, <2>2, <2>3 DEF Promise!NotOpen, NotOpen
    <2> QED
      BY <2>4 DEF Promise!Record
  <1>5. CASE result \in Failures /\ RecordFailure(result)
    <2>1. OpeningReason(result, recent', consecutiveFailures',
                        consecutiveRateLimits') = Promise!Cause(history')
      <3>1. /\ consecutiveFailures' \in Nat /\ consecutiveRateLimits' \in Nat
            /\ IsWindowOf(recent', history')
            /\ IsLongestSuffix(history', consecutiveFailures', Failures)
            /\ IsLongestSuffix(history', consecutiveRateLimits', {RateLimited})
        BY <1>2 DEF IInv, HTypeOK, TypeOK, CountersSummariseHistory
      <3> QED
        BY <1>3, <1>5, <3>1, ReasonIsCause
    <2> QED
      BY <1>5, <2>1 DEF RecordFailure, Promise!Record, Promise!NotOpen, NotOpen
  <1> QED
    BY <1>4, <1>5 DEF Record

(***************************************************************************)
(* SourceCircuitBreaker implements BreakerPromise: with window and         *)
(* counters it opens on exactly the result after which the whole history   *)
(* first gives a cause, keeps that reason, and never closes.               *)
(***************************************************************************)
THEOREM BreakerImplementsPromise == HSpec => ImplementsPromise
  <1>1. HInit => Promise!Init
    BY DEF HInit, Init, Promise!Init, Promise!NotOpen, NotOpen
  <1>2. IInv /\ [HNext]_refinementVars => [Promise!Next]_(Promise!promiseVars)
    BY StepRefines DEF refinementVars, breakerVars, Promise!promiseVars
  <1> QED
    BY <1>1, <1>2, InitEstablishes, Invariance, PTL
    DEF HSpec, ImplementsPromise, Promise!Spec
=============================================================================
