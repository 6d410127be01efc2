----------------------------- MODULE CrtShProofs ----------------------------
(***************************************************************************)
(* A pass over crt.sh keeps its promise to the caller, over HTTP and over  *)
(* PostgreSQL, for any records, limits, workers, batches and breakers: it  *)
(* implements SourcePass.  After its circuit opened it is silent.          *)
(***************************************************************************)
EXTENDS CrtShSupplement, SequenceTheorems, FiniteSetTheorems, TLAPS

----------------------------------------------------------------------------
(* The inductive invariant *)

IsQueued(r) == \E i \in DOMAIN queue : queue[i] = r

\* A worker that has a record.
Holds(w) == work[w].pc \in {"sent", "asleep"}

\* Outcomes are of the records of the pass, and an open circuit is not the
\* silent kind: the record whose failure opened it is an error.
OutcomesOK ==
    /\ \A r \in Records : reported[r] # "none" => IsQueued(r)
    /\ ending = "running" /\ isOpen => \E r \in Records : IsQueued(r) /\ reported[r] = "error"

\* A provider that does not run holds nothing.
AtRest ==
    /\ (mode = "http" \/ ending # "running") => pc = "stopped"
    /\ (mode = "postgres" \/ ending # "running") => \A w \in Workers : work[w] = Idle

\* Each record that a worker holds was taken from the iterator, has no
\* outcome yet, and no other worker holds it.
HoldingsOK ==
    /\ \A w \in Workers : Holds(w) =>
          /\ work[w].position \in 1..next - 1
          /\ reported[Record(w)] = "none"
          /\ work[w].candidate \in 0..Len(server[Record(w)])
    /\ \A v, w \in Workers :
          Holds(v) /\ Holds(w) /\ work[v].position = work[w].position => v = w

\* The iterator: what is before it has an outcome or is held, unless the
\* circuit is open, and what is behind it has none.
IteratorOK ==
    /\ next \in 1..Len(queue) + 1
    /\ \A i \in DOMAIN queue : i >= next => reported[queue[i]] = "none"
    /\ ~isOpen => \A i \in DOMAIN queue : i < next =>
          \/ reported[queue[i]] # "none"
          \/ \E w \in Workers : Holds(w) /\ work[w].position = i
    /\ ~isOpen /\ (\E w \in Workers : work[w].pc = "stopped") => next = Len(queue) + 1

HttpOK == mode = "http" /\ ending = "running" => HoldingsOK /\ IteratorOK

\* The batches: what is before the current one has an outcome, the rest none.
PostgresOK ==
    mode = "postgres" /\ ending = "running" =>
        /\ ~isOpen /\ pc # "stopped" /\ offset < Len(queue)
        /\ \A i \in DOMAIN queue : (reported[queue[i]] = "none") <=> (i > offset)
        /\ pc = "connect" => offset = 0
        /\ pc = "reconnect" => attempt < MaxAttempts - 1

IInv == TypeOK /\ OutcomesOK /\ AtRest /\ HttpOK /\ PostgresOK

----------------------------------------------------------------------------
(* The breaker *)

LEMMA WindowPushed ==
    ASSUME NEW w \in Seq({0, 1}), Len(w) <= WindowSize, NEW sample \in {0, 1}
    PROVE  Breaker!Push(w, sample) \in Seq({0, 1}) /\ Len(Breaker!Push(w, sample)) <= WindowSize
  <1> USE BreakerLimits DEF Breaker!Push
  <1>1. CASE Len(w) < WindowSize
    BY <1>1
  <1>2. CASE Len(w) = WindowSize
    <2> DEFINE t == Tail(w)
    <2>1. t \in Seq({0, 1}) /\ Len(t) = WindowSize - 1 /\ Breaker!Push(w, sample) = Append(t, sample)
      BY <1>2
    <2> HIDE DEF t
    <2>2. Append(t, sample) \in Seq({0, 1}) /\ Len(Append(t, sample)) = WindowSize
      BY <2>1
    <2> QED
      BY <2>1, <2>2
  <1> QED
    BY <1>1, <1>2

LEMMA BreakerKeepsType ==
    ASSUME Breaker!TypeOK
    PROVE  /\ isOpen \in BOOLEAN
           /\ Breaker!RecordSuccess => Breaker!TypeOK' /\ isOpen' = isOpen
           /\ \A f \in Failures : Breaker!RecordFailure(f) =>
                 Breaker!TypeOK' /\ isOpen' \in BOOLEAN /\ (isOpen => isOpen')
           /\ UNCHANGED breakerVars => Breaker!TypeOK' /\ isOpen' = isOpen
  <1> USE DEF Breaker!TypeOK
  <1>1. Breaker!RecordSuccess => Breaker!TypeOK' /\ isOpen' = isOpen
    BY WindowPushed DEF Breaker!RecordSuccess
  <1>2. ASSUME NEW f \in Failures, Breaker!RecordFailure(f)
        PROVE  Breaker!TypeOK' /\ isOpen' \in BOOLEAN /\ (isOpen => isOpen')
    <2> DEFINE found == Breaker!OpeningReason(f, recent', consecutiveFailures',
                                              consecutiveRateLimits')
    <2>1. recent' \in Seq({0, 1}) /\ Len(recent') <= WindowSize
      BY <1>2, WindowPushed DEF Breaker!RecordFailure
    <2>2. consecutiveFailures' \in Nat /\ consecutiveRateLimits' \in Nat
      BY <1>2 DEF Breaker!RecordFailure
    <2>3. found \in Breaker!Reasons \cup {Breaker!NotOpen}
      BY DEF Breaker!OpeningReason, Breaker!Reasons, Breaker!NotOpen
    <2>4. /\ isOpen' = (isOpen \/ found # Breaker!NotOpen)
          /\ reason' = IF isOpen THEN reason ELSE found
      BY <1>2 DEF Breaker!RecordFailure
    <2>5. isOpen' \in BOOLEAN /\ reason' \in Breaker!Reasons \cup {Breaker!NotOpen}
      BY <2>3, <2>4
    <2>6. (isOpen' <=> reason' # Breaker!NotOpen) /\ (isOpen => isOpen')
      BY <2>4
    <2> QED
      BY <2>1, <2>2, <2>5, <2>6
  <1>3. UNCHANGED breakerVars => Breaker!TypeOK' /\ isOpen' = isOpen
    BY DEF breakerVars
  <1>4. isOpen \in BOOLEAN
    OBVIOUS
  <1> QED
    BY <1>1, <1>2, <1>3, <1>4

\* What a worker records that its record made raise: a success, then a failure.
LEMMA RaisingKeepsType ==
    ASSUME Breaker!TypeOK, NEW w \in Workers, Raises(w)
    PROVE  Breaker!TypeOK' /\ isOpen' \in BOOLEAN /\ (isOpen => isOpen')
  <1> USE DEF Breaker!TypeOK
  <1> DEFINE found == Breaker!OpeningReason(OtherFailure, recent', 1, 0)
             once == Breaker!Push(recent, 0)
  <1>1. once \in Seq({0, 1}) /\ Len(once) <= WindowSize
    BY WindowPushed
  <1>2. recent' = Breaker!Push(once, 1)
    BY DEF Raises
  <1> HIDE DEF once
  <1>3. recent' \in Seq({0, 1}) /\ Len(recent') <= WindowSize
    BY <1>1, <1>2, WindowPushed
  <1>4. consecutiveFailures' \in Nat /\ consecutiveRateLimits' \in Nat
    BY DEF Raises
  <1>5. found \in Breaker!Reasons \cup {Breaker!NotOpen}
    BY DEF Breaker!OpeningReason, Breaker!Reasons, Breaker!NotOpen
  <1>6. /\ isOpen' = (isOpen \/ found # NotOpen)
        /\ reason' = IF isOpen THEN reason ELSE found
    BY DEF Raises
  <1>7. isOpen' \in BOOLEAN /\ reason' \in Breaker!Reasons \cup {Breaker!NotOpen}
    BY <1>5, <1>6 DEF NotOpen, Breaker!NotOpen
  <1>8. (isOpen' <=> reason' # Breaker!NotOpen) /\ (isOpen => isOpen')
    BY <1>6 DEF NotOpen, Breaker!NotOpen
  <1> QED
    BY <1>3, <1>4, <1>7, <1>8

LEMMA NewBreakerType == NewBreaker => Breaker!TypeOK' /\ isOpen' = FALSE
  <1> SUFFICES ASSUME NewBreaker PROVE Breaker!TypeOK' /\ isOpen' = FALSE
    OBVIOUS
  <1>1. recent' \in Seq({0, 1}) /\ Len(recent') <= WindowSize
    BY BreakerLimits, EmptySeq DEF NewBreaker
  <1>2. reason' = Breaker!NotOpen /\ isOpen' = FALSE
    BY DEF NewBreaker, Breaker!NotOpen, NotOpen
  <1>3. consecutiveFailures' \in Nat /\ consecutiveRateLimits' \in Nat
    BY DEF NewBreaker
  <1> QED
    BY <1>1, <1>2, <1>3 DEF Breaker!TypeOK

----------------------------------------------------------------------------
(* What a pass may select *)

\* A selection is not empty, no longer than Limit, and has no record twice.
LEMMA SelectionsAreQueues ==
    ASSUME Pending # {}, NEW q \in Selections
    PROVE  q \in Seq(Records) /\ Len(q) \in 1..Limit /\ IsInjective(q)
  <1> DEFINE N == Len(Newest)
  <1>1. Newest \in Seq(Records) /\ N \in Nat /\ Limit \in Nat \ {0} /\ DOMAIN Newest = 1..N
    BY SupplementConstants
  <1>2. \A i, j \in DOMAIN Newest : Newest[i] = Newest[j] => i = j
    BY SupplementConstants DEF IsInjective
  <1>3. Pending \subseteq 1..N /\ \A i \in 1..N : Newest[i] \in Records
    BY <1>1 DEF Pending
  <1>4. IsFiniteSet(Pending) /\ Cardinality(Pending) \in Nat /\ Cardinality(Pending) # 0
    <2>1. IsFiniteSet(1..N)
      BY <1>1, FS_Interval
    <2>2. IsFiniteSet(Pending)
      BY <1>3, <2>1, FS_Subset
    <2> QED
      BY <2>2, FS_CardinalityType, FS_EmptySet
  <1> DEFINE size == IF Cardinality(Pending) < Limit THEN Cardinality(Pending) ELSE Limit
  <1>5. size \in 1..Limit
    BY <1>1, <1>4
  <1>6. PICK at \in [1..size -> Pending] :
            IsSelection(at) /\ q = [i \in 1..size |-> Newest[at[i]]]
    BY DEF Selections
  <1> HIDE DEF size, N
  <1>7. \A i \in 1..size : at[i] \in DOMAIN Newest /\ Newest[at[i]] \in Records
    BY <1>1, <1>3, <1>6
  <1>8. q \in Seq(Records) /\ Len(q) = size /\ DOMAIN q = 1..size
    BY <1>5, <1>6, <1>7
  <1>9. \A i, j \in 1..size : q[i] = q[j] => i = j
    <2> SUFFICES ASSUME NEW i \in 1..size, NEW j \in 1..size, q[i] = q[j]
                 PROVE  i = j
      OBVIOUS
    <2>1. at[i] = at[j]
      BY <1>2, <1>6, <1>7
    <2>2. at[i] \in Int /\ at[j] \in Int /\ DOMAIN at = 1..size
      BY <1>1, <1>6, <1>7
    <2>3. (i < j => at[i] < at[j]) /\ (j < i => at[j] < at[i])
      BY <1>6, <2>2 DEF IsSelection
    <2> QED
      BY <1>5, <2>1, <2>2, <2>3
  <1> QED
    BY <1>5, <1>8, <1>9 DEF IsInjective

----------------------------------------------------------------------------
(* What a step of a worker does to its record *)

MayReport(r, outcome) ==
    \/ outcome = "error"
    \/ outcome = "found" /\ HasUsable(r)
    \/ outcome = "not_found" /\ server[r] = <<>>

WorkStates == [pc : {"new", "sent", "asleep", "stopped"}, position : 0..Limit,
               candidate : Nat, attempt : 0..MaxAttempts - 1]

\* The worker goes on with its record.
Keeps(w) ==
    /\ Holds(w) /\ ~isOpen' /\ next' = next /\ reported' = reported
    /\ \E state \in WorkStates :
          /\ state.pc \in {"sent", "asleep"} /\ state.position = work[w].position
          /\ state.candidate \in 0..Len(server[Record(w)])
          /\ work' = [work EXCEPT ![w] = state]

\* It is done with its record and takes the next one.
Finishes(w) ==
    /\ Holds(w) /\ isOpen' \in BOOLEAN
    /\ \E outcome \in {"found", "not_found", "error"} :
          /\ MayReport(Record(w), outcome) /\ HttpReport(w, outcome)
          /\ isOpen' => isOpen \/ outcome = "error"

\* It takes its first record.
Starts(w) == work[w].pc = "new" /\ isOpen' = isOpen /\ TakeNext(w, reported)

HttpRuns == IInv /\ mode = "http" /\ ending = "running"

LEMMA WorkIsTyped ==
    ASSUME HttpRuns, NEW w \in Workers
    PROVE  work[w] \in WorkStates
  BY DEF HttpRuns, IInv, TypeOK, WorkStates

LEMMA HeldRecord ==
    ASSUME HttpRuns, NEW w \in Workers, Holds(w)
    PROVE  /\ work[w].position \in 1..next - 1 /\ next \in 1..Len(queue) + 1
           /\ Len(queue) \in Nat /\ work[w].position \in DOMAIN queue /\ DOMAIN queue = 1..Len(queue)
           /\ Record(w) \in Records /\ reported[Record(w)] = "none"
           /\ Len(server[Record(w)]) \in Nat /\ server[Record(w)] \in Seq(Candidates)
           /\ work[w].candidate \in 0..Len(server[Record(w)])
           /\ work[w].attempt \in 0..MaxAttempts - 1
  <1>1. /\ work[w].position \in 1..next - 1 /\ reported[Record(w)] = "none"
        /\ work[w].candidate \in 0..Len(server[Record(w)]) /\ next \in 1..Len(queue) + 1
    BY DEF HttpRuns, IInv, HttpOK, HoldingsOK, IteratorOK
  <1>2. queue \in Seq(Records) /\ Len(queue) \in Nat /\ DOMAIN queue = 1..Len(queue)
    BY DEF HttpRuns, IInv, TypeOK
  <1>3. work[w].position \in 1..Len(queue)
    BY <1>1, <1>2
  <1>4. Record(w) \in Records
    BY <1>2, <1>3 DEF Record
  <1>5. server[Record(w)] \in Seq(Candidates) /\ Len(server[Record(w)]) \in Nat
    BY <1>4 DEF HttpRuns, IInv, TypeOK
  <1>6. work[w].attempt \in 0..MaxAttempts - 1
    BY DEF HttpRuns, IInv, TypeOK
  <1> QED
    BY <1>1, <1>2, <1>3, <1>4, <1>5, <1>6

\* The candidates of a record come to an end.
LEMMA CandidatesEnd ==
    ASSUME HttpRuns, NEW w \in Workers, Holds(w), isOpen' \in BOOLEAN, NextCandidate(w)
    PROVE  Keeps(w) \/ Finishes(w)
  <1>1. CASE work[w].candidate < Len(server[Record(w)]) /\ ~isOpen'
    <2> DEFINE state == [pc |-> "sent", position |-> work[w].position,
                         candidate |-> work[w].candidate + 1, attempt |-> 0]
    <2>1. work' = [work EXCEPT ![w] = state] /\ next' = next /\ reported' = reported
      BY <1>1 DEF NextCandidate, Send
    <2>2. /\ work[w].candidate + 1 \in 0..Len(server[Record(w)])
          /\ work[w].candidate + 1 \in Nat /\ 0 \in 0..MaxAttempts - 1
      BY <1>1, HeldRecord, CrtShConstants
    <2>3. /\ state \in WorkStates /\ state.pc \in {"sent", "asleep"}
          /\ state.position = work[w].position
          /\ state.candidate \in 0..Len(server[Record(w)])
      BY <2>2, WorkIsTyped DEF WorkStates
    <2> HIDE DEF state
    <2> QED
      BY <1>1, <2>1, <2>3 DEF Keeps
  <1>2. CASE ~(work[w].candidate < Len(server[Record(w)]) /\ ~isOpen')
    BY <1>2 DEF NextCandidate, Finishes, MayReport
  <1> QED
    BY <1>1, <1>2

LEMMA GivenUpEnd ==
    ASSUME HttpRuns, NEW w \in Workers, Holds(w), isOpen' \in BOOLEAN, GiveUp(w)
    PROVE  Keeps(w) \/ Finishes(w)
  BY CandidatesEnd DEF GiveUp, Finishes, MayReport

\* Every step of a worker is of one of these shapes, and closes no circuit.
LEMMA WorkShapes ==
    ASSUME HttpRuns, NEW w \in Workers, Work(w)
    PROVE  /\ Breaker!TypeOK' /\ isOpen' \in BOOLEAN /\ (isOpen => isOpen')
           /\ UNCHANGED <<given, ending>>
           /\ Keeps(w) \/ Finishes(w) \/ Starts(w)
  <1>1. Breaker!TypeOK
    BY DEF HttpRuns, IInv, TypeOK
  <1>2. UNCHANGED <<given, ending>>
    BY DEF Work, StartWorker, Listed, Malformed, Downloaded, Raises, Wake, RequestFails
  <1>3. CASE StartWorker(w)
    <2>1. Breaker!TypeOK' /\ isOpen' = isOpen /\ isOpen \in BOOLEAN
      BY <1>1, <1>3, BreakerKeepsType DEF StartWorker
    <2> QED
      BY <1>2, <1>3, <2>1 DEF StartWorker, Starts
  <1>4. CASE Listed(w)
    <2>1. Breaker!TypeOK' /\ isOpen' = isOpen /\ isOpen \in BOOLEAN
      BY <1>1, <1>4, BreakerKeepsType DEF Listed
    <2>2. Holds(w)
      BY <1>4 DEF Listed, Answered, Holds
    <2>3. CASE server[Record(w)] = <<>>
      <3>1. HttpReport(w, "not_found")
        BY <1>4, <2>3 DEF Listed
      <3> QED
        BY <1>2, <2>1, <2>2, <2>3, <3>1 DEF Finishes, MayReport
    <2>4. CASE server[Record(w)] # <<>>
      <3>1. NextCandidate(w)
        BY <1>4, <2>4 DEF Listed
      <3> QED
        BY <1>2, <2>1, <2>2, <3>1, CandidatesEnd
    <2> QED
      BY <2>3, <2>4
  <1>5. CASE Malformed(w)
    <2>1. Breaker!TypeOK' /\ isOpen' = isOpen /\ isOpen \in BOOLEAN
      BY <1>1, <1>5, BreakerKeepsType DEF Malformed
    <2>2. Holds(w) /\ HttpReport(w, "error")
      BY <1>5 DEF Malformed, Answered, Holds
    <2> QED
      BY <1>2, <2>1, <2>2 DEF Finishes, MayReport
  <1>6. CASE Downloaded(w)
    <2>1. Breaker!TypeOK' /\ isOpen' = isOpen /\ isOpen \in BOOLEAN
      BY <1>1, <1>6, BreakerKeepsType DEF Downloaded
    <2>2. Holds(w) /\ work[w].candidate > 0
      BY <1>6 DEF Downloaded, Answered, Holds
    <2>3. CASE Examined(w) = "usable"
      <3>1. HttpReport(w, "found")
        BY <1>6, <2>3 DEF Downloaded
      <3>2. work[w].candidate \in DOMAIN server[Record(w)]
        BY <2>2, HeldRecord
      <3>3. HasUsable(Record(w))
        BY <2>3, <3>2 DEF HasUsable, Examined
      <3> QED
        BY <1>2, <2>1, <2>2, <3>1, <3>3 DEF Finishes, MayReport
    <2>4. CASE Examined(w) # "usable"
      <3>1. NextCandidate(w)
        BY <1>6, <2>4 DEF Downloaded
      <3> QED
        BY <1>2, <2>1, <2>2, <3>1, CandidatesEnd
    <2> QED
      BY <2>3, <2>4
  <1>7. CASE Raises(w)
    <2>1. Breaker!TypeOK' /\ isOpen' \in BOOLEAN /\ (isOpen => isOpen')
      BY <1>1, <1>7, RaisingKeepsType
    <2>2. Holds(w) /\ HttpReport(w, "error")
      BY <1>7 DEF Raises, Answered, Holds
    <2> QED
      BY <1>2, <2>1, <2>2 DEF Finishes, MayReport
  <1>8. CASE Wake(w)
    <2>1. Breaker!TypeOK' /\ isOpen' = isOpen /\ isOpen \in BOOLEAN
      BY <1>1, <1>8, BreakerKeepsType DEF Wake
    <2>2. Holds(w)
      BY <1>8 DEF Wake, Holds
    <2>3. CASE isOpen
      <3>1. GiveUp(w)
        BY <1>8, <2>3 DEF Wake
      <3> QED
        BY <1>2, <2>1, <2>2, <3>1, GivenUpEnd
    <2>4. CASE ~isOpen
      <3> DEFINE state == [work[w] EXCEPT !.pc = "sent"]
      <3>1. work' = [work EXCEPT ![w] = state] /\ next' = next /\ reported' = reported
        BY <1>8, <2>4 DEF Wake
      <3>2. /\ state \in WorkStates /\ state.pc = "sent"
            /\ state.position = work[w].position /\ state.candidate = work[w].candidate
        BY WorkIsTyped DEF WorkStates
      <3> HIDE DEF state
      <3>4. Keeps(w)
        BY <2>1, <2>2, <2>4, <3>1, <3>2, HeldRecord DEF Keeps
      <3> QED
        BY <1>2, <2>1, <3>4
    <2> QED
      BY <2>3, <2>4
  <1>9. ASSUME NEW failure \in Failures, RequestFails(w, failure)
        PROVE  /\ Breaker!TypeOK' /\ isOpen' \in BOOLEAN /\ (isOpen => isOpen')
               /\ Keeps(w) \/ Finishes(w)
    <2>1. Breaker!TypeOK' /\ isOpen' \in BOOLEAN /\ (isOpen => isOpen')
      BY <1>1, <1>9, BreakerKeepsType DEF RequestFails
    <2>2. Holds(w)
      BY <1>9 DEF RequestFails, Holds
    <2>3. CASE MayRetry(w, failure)
      <3> DEFINE a == work[w].attempt + 1
                 state == [work[w] EXCEPT !.pc = "asleep", !.attempt = a]
      <3>1. work' = [work EXCEPT ![w] = state] /\ next' = next /\ reported' = reported
        BY <1>9, <2>3 DEF RequestFails
      <3>2. a \in 0..MaxAttempts - 1 /\ ~isOpen'
        BY <2>2, <2>3, HeldRecord, CrtShConstants DEF MayRetry
      <3> HIDE DEF a
      <3>3. /\ state \in WorkStates /\ state.pc = "asleep"
            /\ state.position = work[w].position /\ state.candidate = work[w].candidate
        BY <3>2, WorkIsTyped DEF WorkStates
      <3> HIDE DEF state
      <3>5. Keeps(w)
        BY <2>2, <3>1, <3>2, <3>3, HeldRecord DEF Keeps
      <3> QED
        BY <2>1, <3>5
    <2>4. CASE ~MayRetry(w, failure)
      <3>1. GiveUp(w)
        BY <1>9, <2>4 DEF RequestFails
      <3> QED
        BY <2>1, <2>2, <3>1, GivenUpEnd
    <2> QED
      BY <2>3, <2>4
  <1> QED
    BY <1>2, <1>3, <1>4, <1>5, <1>6, <1>7, <1>8, <1>9 DEF Work

----------------------------------------------------------------------------
(* A worker's step preserves the invariant *)

Outcomes == {"none", "found", "not_found", "error"}

LEMMA SavedTable ==
    ASSUME TypeOK, reported' \in [Records -> Outcomes], Save
    PROVE  table' \in [Records -> Outcomes]
  BY DEF TypeOK, Save, Outcomes

\* The types of everything that a step of a worker leaves alone.
LEMMA WorkTypes ==
    ASSUME HttpRuns, Breaker!TypeOK', UNCHANGED <<given, ending, mode, postgresVars>>, Save,
           reported' \in [Records -> Outcomes],
           next' \in 1..Len(queue) + 1, work' \in [Workers -> WorkStates]
    PROVE  TypeOK'
  <1>1. table' \in [Records -> Outcomes]
    BY SavedTable DEF HttpRuns, IInv
  <1>2. next' \in 1..Limit + 1
    BY SupplementConstants DEF HttpRuns, IInv, TypeOK
  <1>3. /\ server' = server /\ refused' = refused /\ calm' = calm /\ queue' = queue
        /\ mode' = mode /\ ending' = ending /\ pc' = pc /\ tries' = tries /\ attempt' = attempt
        /\ offset' = offset /\ alive' = alive
    BY DEF given, postgresVars
  <1> QED
    BY <1>1, <1>2, <1>3 DEF HttpRuns, IInv, TypeOK, Outcomes, WorkStates

LEMMA KeepsStep ==
    ASSUME HttpRuns, NEW w \in Workers, Breaker!TypeOK', isOpen => isOpen',
           UNCHANGED <<given, ending, mode, postgresVars>>, Save, Keeps(w)
    PROVE  IInv' /\ reported' = reported /\ ~isOpen
  <1> USE DEF HttpRuns, IInv
  <1>1. PICK state \in WorkStates :
            /\ state.pc \in {"sent", "asleep"} /\ state.position = work[w].position
            /\ state.candidate \in 0..Len(server[Record(w)])
            /\ work' = [work EXCEPT ![w] = state]
    BY DEF Keeps
  <1>2. ~isOpen' /\ ~isOpen /\ next' = next /\ reported' = reported /\ Holds(w)
    BY DEF Keeps
  <1>3. work \in [Workers -> WorkStates] /\ reported \in [Records -> Outcomes]
    BY DEF TypeOK, WorkStates, Outcomes
  <1>4. work' \in [Workers -> WorkStates]
    BY <1>1, <1>3
  <1>5. next' \in 1..Len(queue) + 1
    BY <1>2, HeldRecord
  <1>6. TypeOK'
    BY <1>2, <1>3, <1>4, <1>5, WorkTypes
  <1>7. server' = server /\ queue' = queue /\ mode' = mode /\ ending' = ending /\ pc' = pc
    BY DEF given, postgresVars
  <1>8. \A v \in Workers : /\ v # w => work'[v] = work[v]
                           /\ work'[w] = state
                           /\ work'[v].position = work[v].position
    BY <1>1, <1>3
  <1>9. \A v \in Workers : (Holds(v)' <=> Holds(v)) /\ Record(v)' = Record(v)
    BY <1>1, <1>2, <1>7, <1>8 DEF Holds, Record
  <1>10. HoldingsOK'
    <2>1. ASSUME NEW v \in Workers, Holds(v)'
          PROVE  /\ work'[v].position \in 1..next' - 1
                 /\ reported'[Record(v)'] = "none"
                 /\ work'[v].candidate \in 0..Len(server'[Record(v)'])
      <3>1. Holds(v) /\ Record(v)' = Record(v)
        BY <1>9, <2>1
      <3>2. CASE v = w
        BY <1>1, <1>2, <1>7, <1>8, <3>1, <3>2, HeldRecord
      <3>3. CASE v # w
        BY <1>2, <1>7, <1>8, <3>1, <3>3, HeldRecord
      <3> QED
        BY <3>2, <3>3
    <2>2. \A u, v \in Workers :
             Holds(u)' /\ Holds(v)' /\ work'[u].position = work'[v].position => u = v
      BY <1>8, <1>9 DEF HttpOK, HoldingsOK
    <2> QED
      BY <2>1, <2>2 DEF HoldingsOK
  <1>11. IteratorOK'
    <2>1. IteratorOK
      BY DEF HttpOK
    <2>2. ASSUME NEW i \in DOMAIN queue, i < next
          PROVE  \/ reported[queue[i]] # "none"
                 \/ \E v \in Workers : Holds(v)' /\ work'[v].position = i
      BY <1>2, <1>8, <1>9, <2>1, <2>2 DEF IteratorOK
    <2>3. \A v \in Workers : work'[v].pc = "stopped" => work[v].pc = "stopped"
      BY <1>1, <1>8
    <2> QED
      BY <1>2, <1>5, <1>7, <2>1, <2>2, <2>3 DEF IteratorOK
  <1>12. OutcomesOK'
    BY <1>2, <1>7 DEF OutcomesOK, IsQueued
  <1>13. AtRest' /\ PostgresOK' /\ HttpOK'
    BY <1>7, <1>10, <1>11 DEF AtRest, PostgresOK, HttpOK
  <1> QED
    BY <1>2, <1>6, <1>12, <1>13

\* What a worker that takes the next record has reported of the last one.
ReportsLast(w) ==
    /\ reported' \in [Records -> Outcomes] /\ isOpen' \in BOOLEAN
    /\ \A r \in Records : reported'[r] = reported[r] \/ (Holds(w) /\ r = Record(w))
    /\ Holds(w) => reported'[Record(w)] # "none"
    /\ isOpen' => isOpen \/ (Holds(w) /\ reported'[Record(w)] = "error")

\* The worker is out of records, or has the next one.
Advances(w) ==
    \/ next > Len(queue) /\ next' = next /\ work' = [work EXCEPT ![w] = Idle]
    \/ next <= Len(queue) /\ next' = next + 1 /\ isOpen' /\ work' = [work EXCEPT ![w] = Idle]
    \/ next <= Len(queue) /\ next' = next + 1 /\ ~isOpen' /\ Send(w, next, 0)

LEMMA TakesHoldings ==
    ASSUME HttpRuns, NEW w \in Workers, UNCHANGED given, ReportsLast(w), Advances(w)
    PROVE  HoldingsOK' /\ next' \in 1..Len(queue) + 1 /\ work' \in [Workers -> WorkStates]
  <1>1. /\ queue \in Seq(Records) /\ Len(queue) \in Nat /\ DOMAIN queue = 1..Len(queue)
        /\ Len(queue) <= Limit /\ Limit \in Nat
        /\ \A i, j \in DOMAIN queue : queue[i] = queue[j] => i = j
        /\ work \in [Workers -> WorkStates]
    BY SupplementConstants DEF HttpRuns, IInv, TypeOK, IsInjective, WorkStates
  <1>2. HoldingsOK /\ IteratorOK /\ next \in 1..Len(queue) + 1
    BY DEF HttpRuns, IInv, HttpOK, IteratorOK
  <1>3. next' \in 1..Len(queue) + 1 /\ (next' = next \/ (next' = next + 1 /\ next <= Len(queue)))
    BY <1>1, <1>2 DEF Advances
  <1>4. queue' = queue /\ server' = server
    BY DEF given
  <1> DEFINE first == [pc |-> "sent", position |-> next, candidate |-> 0, attempt |-> 0]
  <1>5. Idle \in WorkStates /\ (next <= Len(queue) => first \in WorkStates)
    <2>1. 0 \in 0..MaxAttempts - 1 /\ 0 \in 0..Limit /\ (next <= Len(queue) => next \in 0..Limit)
      BY <1>1, <1>2, CrtShConstants
    <2> QED
      BY <2>1 DEF Idle, WorkStates
  <1>6. \/ work' = [work EXCEPT ![w] = Idle]
        \/ next <= Len(queue) /\ next' = next + 1 /\ work' = [work EXCEPT ![w] = first]
    BY DEF Advances, Send
  <1>7. work' \in [Workers -> WorkStates]
    BY <1>1, <1>5, <1>6
  <1>8. /\ \A v \in Workers : v # w => work'[v] = work[v]
        /\ \/ work'[w] = Idle
           \/ next <= Len(queue) /\ next' = next + 1 /\ work'[w] = first
    BY <1>1, <1>6
  <1>9. /\ ~(Idle.pc \in {"sent", "asleep"})
        /\ first.position = next /\ first.candidate = 0
    BY DEF Idle
  <1> HIDE DEF first
  <1>10. ASSUME NEW v \in Workers, Holds(v)', v # w
         PROVE  /\ Holds(v) /\ work'[v] = work[v] /\ Record(v)' = Record(v)
                /\ work[v].position \in 1..next - 1 /\ work[v].position \in DOMAIN queue
                /\ reported'[Record(v)] = "none"
    <2>1. Holds(v) /\ work'[v] = work[v] /\ Record(v)' = Record(v)
      BY <1>4, <1>8, <1>10 DEF Holds, Record
    <2>2. /\ work[v].position \in 1..next - 1 /\ work[v].position \in DOMAIN queue
          /\ Record(v) \in Records /\ reported[Record(v)] = "none"
      BY <2>1, HeldRecord
    <2>3. ASSUME Holds(w), Record(v) = Record(w) PROVE FALSE
      <3>1. work[w].position \in DOMAIN queue
        BY <2>3, HeldRecord
      <3>2. work[v].position = work[w].position
        BY <1>1, <2>2, <2>3, <3>1 DEF Record
      <3> QED
        BY <1>2, <1>10, <2>1, <2>3, <3>2 DEF HoldingsOK
    <2>4. reported'[Record(v)] = "none"
      BY <2>2, <2>3 DEF ReportsLast
    <2> QED
      BY <2>1, <2>2, <2>4
  <1>11. ASSUME Holds(w)'
         PROVE  /\ work'[w] = first /\ next <= Len(queue) /\ next' = next + 1
                /\ Record(w)' = queue[next] /\ reported'[queue[next]] = "none"
    <2>1. work'[w] = first /\ next <= Len(queue) /\ next' = next + 1
      BY <1>8, <1>9, <1>11 DEF Holds
    <2>2. Record(w)' = queue[next]
      BY <1>4, <1>9, <2>1 DEF Record
    <2>3. next \in DOMAIN queue /\ queue[next] \in Records /\ reported[queue[next]] = "none"
      BY <1>1, <1>2, <2>1 DEF IteratorOK
    <2>4. ASSUME Holds(w), queue[next] = Record(w) PROVE FALSE
      <3>1. work[w].position \in DOMAIN queue /\ work[w].position \in 1..next - 1
        BY <2>4, HeldRecord
      <3>2. work[w].position = next
        BY <1>1, <2>3, <2>4, <3>1 DEF Record
      <3> QED
        BY <1>2, <3>1, <3>2
    <2>5. reported'[queue[next]] = "none"
      BY <2>3, <2>4 DEF ReportsLast
    <2> QED
      BY <2>1, <2>2, <2>5
  <1>12. ASSUME NEW v \in Workers, Holds(v)'
         PROVE  /\ work'[v].position \in 1..next' - 1
                /\ reported'[Record(v)'] = "none"
                /\ work'[v].candidate \in 0..Len(server'[Record(v)'])
    <2>1. CASE v = w
      <3>1. queue[next] \in Records
        BY <1>1, <1>2, <1>11, <1>12, <2>1
      <3>2. Len(server[queue[next]]) \in Nat
        BY <3>1 DEF HttpRuns, IInv, TypeOK
      <3> QED
        BY <1>2, <1>4, <1>9, <1>11, <1>12, <2>1, <3>2
    <2>2. CASE v # w
      BY <1>2, <1>3, <1>4, <1>10, <1>12, <2>2, HeldRecord
    <2> QED
      BY <2>1, <2>2
  <1>13. ASSUME NEW u \in Workers, NEW v \in Workers, Holds(u)', Holds(v)',
                work'[u].position = work'[v].position
         PROVE  u = v
    <2>1. CASE u # w /\ v # w
      BY <1>2, <1>10, <1>13, <2>1 DEF HoldingsOK
    <2>2. CASE u = w /\ v # w
      BY <1>2, <1>9, <1>10, <1>11, <1>13, <2>2
    <2>3. CASE u # w /\ v = w
      BY <1>2, <1>9, <1>10, <1>11, <1>13, <2>3
    <2> QED
      BY <2>1, <2>2, <2>3
  <1>14. HoldingsOK'
    BY <1>12, <1>13 DEF HoldingsOK
  <1> QED
    BY <1>3, <1>7, <1>14

LEMMA TakesIterator ==
    ASSUME HttpRuns, NEW w \in Workers, UNCHANGED given, ReportsLast(w), Advances(w),
           isOpen => isOpen', Holds(w) \/ work[w].pc = "new"
    PROVE  IteratorOK'
  <1>1. /\ queue \in Seq(Records) /\ Len(queue) \in Nat /\ DOMAIN queue = 1..Len(queue)
        /\ \A i \in DOMAIN queue : queue[i] \in Records
        /\ \A i, j \in DOMAIN queue : queue[i] = queue[j] => i = j
        /\ work \in [Workers -> WorkStates]
    BY DEF HttpRuns, IInv, TypeOK, IsInjective, WorkStates
  <1>2. IteratorOK /\ next \in 1..Len(queue) + 1
    BY DEF HttpRuns, IInv, HttpOK, IteratorOK
  <1>3. next' \in 1..Len(queue) + 1 /\ (next' = next \/ (next' = next + 1 /\ next <= Len(queue)))
    BY <1>1, <1>2 DEF Advances
  <1>4. queue' = queue
    BY DEF given
  <1>5. \A v \in Workers : v # w => work'[v] = work[v]
    BY <1>1 DEF Advances, Send
  <1>6. ~isOpen' => \/ next > Len(queue) /\ next' = next
                    \/ /\ next <= Len(queue) /\ next' = next + 1
                       /\ work'[w].pc = "sent" /\ work'[w].position = next
    BY <1>1 DEF Advances, Send
  <1>7. ASSUME NEW i \in DOMAIN queue, i >= next'
        PROVE  reported'[queue[i]] = "none"
    <2>1. i >= next /\ reported[queue[i]] = "none"
      BY <1>1, <1>2, <1>3, <1>7 DEF IteratorOK
    <2>2. ASSUME Holds(w), queue[i] = Record(w) PROVE FALSE
      <3>1. work[w].position \in DOMAIN queue /\ work[w].position \in 1..next - 1
        BY <2>2, HeldRecord
      <3>2. work[w].position = i
        BY <1>1, <2>2, <3>1 DEF Record
      <3> QED
        BY <1>1, <1>2, <2>1, <3>1, <3>2
    <2> QED
      BY <1>1, <2>1, <2>2 DEF ReportsLast
  <1>8. ASSUME ~isOpen', NEW i \in DOMAIN queue, i < next'
        PROVE  \/ reported'[queue[i]] # "none"
               \/ \E v \in Workers : Holds(v)' /\ work'[v].position = i
    <2>1. CASE i < next
      <3>1. CASE reported[queue[i]] # "none"
        BY <1>1, <3>1 DEF ReportsLast
      <3>2. CASE reported[queue[i]] = "none"
        <4>1. PICK v \in Workers : Holds(v) /\ work[v].position = i
          BY <1>2, <1>8, <2>1, <3>2 DEF IteratorOK
        <4>2. CASE v = w
          BY <4>1, <4>2 DEF ReportsLast, Record
        <4>3. CASE v # w
          BY <1>5, <4>1, <4>3 DEF Holds
        <4> QED
          BY <4>2, <4>3
      <3> QED
        BY <3>1, <3>2
    <2>2. CASE ~(i < next)
      <3>1. i = next /\ next' = next + 1
        BY <1>1, <1>2, <1>3, <1>8, <2>2
      <3>2. Holds(w)' /\ work'[w].position = i
        BY <1>2, <1>6, <1>8, <3>1 DEF Holds
      <3> QED
        BY <3>2
    <2> QED
      BY <2>1, <2>2
  <1>9. ASSUME ~isOpen', NEW v \in Workers, work'[v].pc = "stopped"
        PROVE  next' = Len(queue) + 1
    <2>1. CASE v = w
      BY <1>1, <1>2, <1>6, <1>9, <2>1
    <2>2. CASE v # w
      <3>1. next = Len(queue) + 1
        BY <1>2, <1>5, <1>9, <2>2 DEF IteratorOK
      <3> QED
        BY <1>1, <1>3, <3>1
    <2> QED
      BY <2>1, <2>2
  <1> QED
    BY <1>3, <1>4, <1>7, <1>8, <1>9 DEF IteratorOK

LEMMA TakingAdvances ==
    ASSUME HttpRuns, NEW w \in Workers, isOpen' \in BOOLEAN, NEW outcomes, TakeNext(w, outcomes)
    PROVE  Advances(w) /\ reported' = outcomes
  <1>1. next \in Nat /\ Len(queue) \in Nat
    BY DEF HttpRuns, IInv, TypeOK
  <1>2. reported' = outcomes
    BY DEF TakeNext
  <1>3. CASE next > Len(queue)
    BY <1>2, <1>3 DEF TakeNext, Advances
  <1>4. CASE ~(next > Len(queue))
    <2>1. next <= Len(queue) /\ next' = next + 1
      BY <1>1, <1>4 DEF TakeNext
    <2> QED
      BY <1>2, <1>4, <2>1 DEF TakeNext, Advances
  <1> QED
    BY <1>3, <1>4

\* The outcomes of the shapes: what is needed of them.
LEMMA TakesReports ==
    ASSUME HttpRuns, NEW w \in Workers, isOpen' \in BOOLEAN, Finishes(w) \/ Starts(w)
    PROVE  /\ ReportsLast(w) /\ Advances(w) /\ (Holds(w) \/ work[w].pc = "new")
           /\ \A r \in Records : reported'[r] # reported[r] =>
                 IsQueued(r) /\ reported[r] = "none" /\ MayReport(r, reported'[r])
  <1>1. reported \in [Records -> Outcomes]
    BY DEF HttpRuns, IInv, TypeOK, Outcomes
  <1>2. CASE Finishes(w)
    <2>1. PICK outcome \in {"found", "not_found", "error"} :
              /\ MayReport(Record(w), outcome) /\ HttpReport(w, outcome)
              /\ isOpen' => isOpen \/ outcome = "error"
      BY <1>2 DEF Finishes
    <2>2. Holds(w)
      BY <1>2 DEF Finishes
    <2>3. /\ Record(w) \in Records /\ reported[Record(w)] = "none"
          /\ work[w].position \in DOMAIN queue
      BY <2>2, HeldRecord
    <2>4. reported' = [reported EXCEPT ![Record(w)] = outcome] /\ Advances(w)
      BY <2>1, TakingAdvances DEF HttpReport
    <2>5. reported' \in [Records -> Outcomes] /\ reported'[Record(w)] = outcome
      BY <1>1, <2>1, <2>3, <2>4 DEF Outcomes
    <2>6. \A r \in Records : reported'[r] = reported[r] \/ r = Record(w)
      BY <1>1, <2>4
    <2>7. IsQueued(Record(w))
      BY <2>3 DEF IsQueued, Record
    <2> QED
      BY <2>1, <2>2, <2>3, <2>4, <2>5, <2>6, <2>7 DEF ReportsLast
  <1>3. CASE Starts(w)
    <2>1. reported' = reported /\ Advances(w) /\ isOpen' = isOpen
      BY <1>3, TakingAdvances DEF Starts
    <2>2. ~Holds(w) /\ work[w].pc = "new"
      BY <1>3 DEF Starts, Holds
    <2> QED
      BY <1>1, <2>1, <2>2 DEF ReportsLast
  <1> QED
    BY <1>2, <1>3

LEMMA TakesStep ==
    ASSUME HttpRuns, NEW w \in Workers, Breaker!TypeOK', isOpen' \in BOOLEAN, isOpen => isOpen',
           UNCHANGED <<given, ending, mode, postgresVars>>, Save, Finishes(w) \/ Starts(w)
    PROVE  IInv'
  <1>1. /\ ReportsLast(w) /\ Advances(w) /\ (Holds(w) \/ work[w].pc = "new")
        /\ \A r \in Records : reported'[r] # reported[r] =>
              IsQueued(r) /\ reported[r] = "none" /\ MayReport(r, reported'[r])
    BY TakesReports
  <1>2. HoldingsOK' /\ next' \in 1..Len(queue) + 1 /\ work' \in [Workers -> WorkStates]
    BY <1>1, TakesHoldings
  <1>3. IteratorOK'
    BY <1>1, TakesIterator
  <1>4. reported' \in [Records -> Outcomes]
    BY <1>1 DEF ReportsLast
  <1>5. TypeOK'
    BY <1>2, <1>4, WorkTypes
  <1>6. queue' = queue /\ mode' = mode /\ ending' = ending /\ pc' = pc
    BY DEF given, postgresVars
  <1>7. OutcomesOK'
    <2>1. OutcomesOK /\ ending = "running"
      BY DEF HttpRuns, IInv
    <2>2. \A r \in Records : reported'[r] # "none" => IsQueued(r)
      BY <1>1, <2>1 DEF OutcomesOK
    <2>3. ASSUME isOpen'
          PROVE  \E r \in Records : IsQueued(r) /\ reported'[r] = "error"
      <3>1. CASE isOpen
        BY <1>1, <2>1, <3>1 DEF OutcomesOK
      <3>2. CASE Holds(w) /\ reported'[Record(w)] = "error"
        <4>1. Record(w) \in Records
          BY <3>2, HeldRecord
        <4> QED
          BY <2>2, <3>2, <4>1
      <3> QED
        BY <1>1, <2>3, <3>1, <3>2 DEF ReportsLast
    <2> QED
      BY <1>6, <2>2, <2>3 DEF OutcomesOK, IsQueued
  <1>8. AtRest' /\ HttpOK' /\ PostgresOK'
    BY <1>2, <1>3, <1>6 DEF HttpRuns, IInv, AtRest, HttpOK, PostgresOK
  <1> QED
    BY <1>5, <1>7, <1>8 DEF IInv

----------------------------------------------------------------------------
(* A step of a worker, as the caller sees it, and when the circuit is open *)

LEMMA MayReportIsTruthful ==
    ASSUME NEW r \in Records, NEW outcome, MayReport(r, outcome)
    PROVE  Pass!Truthful(r, outcome)
  <1>1. HasUsable(r) => server[r] # <<>>
    BY DEF HasUsable
  <1> QED
    BY <1>1 DEF MayReport, Pass!Truthful

LEMMA QueuedIsSelected ==
    ASSUME NEW r, IsQueued(r)
    PROVE  r \in ToSet(queue)
  BY DEF IsQueued, ToSet

LEMMA GivenToThePass ==
    ASSUME UNCHANGED <<server, queue>>
    PROVE  UNCHANGED <<[r \in Records |-> IF server[r] = <<>> THEN "absent"
                                          ELSE IF HasUsable(r) THEN "usable" ELSE "unusable"],
                       ToSet(queue)>>
  BY DEF HasUsable, ToSet

PassStep == Pass!Proceed \/ UNCHANGED Pass!passVars

\* What is seen of an open circuit.
Silent ==
    isOpen /\ ending = "running" =>
        /\ Requests' \subseteq Requests
        /\ \A w \in Requests' : work'[w] = work[w]
        /\ pc' \notin {"query", "reconnect"}

LEMMA WorkPasses ==
    ASSUME HttpRuns, NEW w \in Workers, UNCHANGED <<given, ending>>,
           Keeps(w) \/ Finishes(w) \/ Starts(w), isOpen' \in BOOLEAN
    PROVE  PassStep
  <1>1. server' = server /\ queue' = queue /\ ending' = ending /\ ending = "running"
    BY DEF given, HttpRuns
  <1>2. \A r \in Records : reported'[r] # reported[r] =>
           IsQueued(r) /\ reported[r] = "none" /\ MayReport(r, reported'[r])
    BY TakesReports DEF Keeps
  <1>3. reported' \in [Records -> Outcomes]
    BY TakesReports DEF Keeps, ReportsLast, HttpRuns, IInv, TypeOK, Outcomes
  <1>4. \A r \in Records :
           \/ reported'[r] = reported[r]
           \/ r \in ToSet(queue) /\ reported[r] = "none" /\ Pass!Truthful(r, reported'[r])
    BY <1>2, MayReportIsTruthful, QueuedIsSelected
  <1>5. Pass!Proceed
    BY <1>1, <1>3, <1>4, GivenToThePass DEF Pass!Proceed, Pass!Outcomes, Pass!Endings, Outcomes
  <1> QED
    BY <1>5 DEF PassStep

LEMMA WorkIsSilent ==
    ASSUME HttpRuns, NEW w \in Workers, Keeps(w) \/ Finishes(w) \/ Starts(w),
           isOpen => isOpen', isOpen' \in BOOLEAN, UNCHANGED postgresVars
    PROVE  Silent
  <1> SUFFICES ASSUME isOpen
               PROVE  /\ Requests' \subseteq Requests
                      /\ \A v \in Requests' : work'[v] = work[v]
                      /\ pc' \notin {"query", "reconnect"}
    BY DEF Silent
  <1>1. Advances(w)
    BY TakesReports DEF Keeps
  <1>2. work' = [work EXCEPT ![w] = Idle]
    BY <1>1 DEF Advances
  <1>3. work \in [Workers -> WorkStates] /\ pc = "stopped" /\ pc' = pc
    BY DEF HttpRuns, IInv, TypeOK, WorkStates, AtRest, postgresVars
  <1>4. work'[w].pc = "stopped" /\ \A v \in Workers : v # w => work'[v] = work[v]
    BY <1>2, <1>3 DEF Idle
  <1> QED
    BY <1>3, <1>4 DEF Requests

----------------------------------------------------------------------------
(* The beginning and the end of a pass *)

LEMMA IdleIsTyped == Idle \in WorkStates /\ Idle.pc = "stopped" /\ ~(Idle.pc \in {"sent", "asleep"})
  <1>1. 0 \in 0..MaxAttempts - 1 /\ 0 \in 0..Limit
    BY CrtShConstants, SupplementConstants
  <1> QED
    BY <1>1 DEF Idle, WorkStates

\* What a provider that was forgotten looks like.
LEMMA ForgottenTypes ==
    /\ HttpForget => /\ next' \in 1..Limit + 1 /\ work' \in [Workers -> WorkStates]
                     /\ \A w \in Workers : work'[w] = Idle
    /\ PostgresForget => /\ pc' = "stopped" /\ tries' \in 0..MaxAttempts - 1
                         /\ attempt' \in 0..MaxAttempts - 1 /\ offset' \in 0..Limit - 1
                         /\ alive' \in BOOLEAN
  <1>1. 0 \in 0..MaxAttempts - 1 /\ 0 \in 0..Limit - 1 /\ 1 \in 1..Limit + 1
    BY CrtShConstants, SupplementConstants
  <1> QED
    BY <1>1, IdleIsTyped DEF HttpForget, PostgresForget

THEOREM InvariantHoldsFirst == Init => IInv
  <1> SUFFICES ASSUME Init PROVE IInv
    OBVIOUS
  <1>1. PICK s \in Scenarios : server = s.server /\ refused = s.refused /\ mode = s.mode
    BY DEF Init
  <1>2. server \in [Records -> Seq(Candidates)] /\ refused \subseteq Records
        /\ mode \in {"http", "postgres"} /\ calm \in BOOLEAN
    BY <1>1, SupplementConstants DEF Init
  <1>3. queue = <<>> /\ reported = Unreported /\ ending = "idle" /\ table = Unreported
        /\ next = 1 /\ work = [w \in Workers |-> Idle]
        /\ pc = "stopped" /\ tries = 0 /\ offset = 0 /\ attempt = 0 /\ alive = FALSE
    BY DEF Init, HttpInit, PostgresInit
  <1>4. Breaker!TypeOK
    <2>1. recent \in Seq({0, 1}) /\ Len(recent) <= WindowSize
      BY BreakerLimits, EmptySeq DEF Init, Breaker!Init
    <2>2. reason = Breaker!NotOpen /\ isOpen = FALSE
      BY DEF Init, Breaker!Init
    <2>3. consecutiveFailures \in Nat /\ consecutiveRateLimits \in Nat
      BY DEF Init, Breaker!Init
    <2> QED
      BY <2>1, <2>2, <2>3 DEF Breaker!TypeOK
  <1>5. queue \in Seq(Records) /\ Len(queue) <= Limit /\ IsInjective(queue)
    BY <1>3, SupplementConstants, EmptySeq DEF IsInjective
  <1>6. reported \in [Records -> Outcomes] /\ table \in [Records -> Outcomes]
    BY <1>3 DEF Unreported, Outcomes
  <1>7. /\ 0 \in 0..MaxAttempts - 1 /\ 0 \in 0..Limit - 1 /\ 1 \in 1..Limit + 1
        /\ work \in [Workers -> WorkStates]
    BY <1>3, CrtShConstants, SupplementConstants, IdleIsTyped
  <1>8. TypeOK
    BY <1>2, <1>3, <1>4, <1>5, <1>6, <1>7 DEF TypeOK, WorkStates, Outcomes
  <1>9. OutcomesOK
    BY <1>3 DEF OutcomesOK, Unreported
  <1>10. AtRest
    BY <1>3 DEF AtRest
  <1> QED
    BY <1>3, <1>8, <1>9, <1>10 DEF IInv, HttpOK, PostgresOK

\* A pass that ends with the outcomes so far.
LEMMA EndKeeps ==
    ASSUME IInv, UNCHANGED <<given, reported, mode, table>>, Breaker!TypeOK',
           ending' \in {"complete", "circuit", "budget", "failed"},
           pc' = "stopped", tries' \in 0..MaxAttempts - 1, attempt' \in 0..MaxAttempts - 1,
           offset' \in 0..Limit - 1, alive' \in BOOLEAN,
           next' \in 1..Limit + 1, work' \in [Workers -> WorkStates],
           \A w \in Workers : work'[w] = Idle
    PROVE  IInv'
  <1>1. /\ server' = server /\ refused' = refused /\ calm' = calm /\ queue' = queue
        /\ reported' = reported /\ mode' = mode /\ table' = table
    BY DEF given
  <1>2. TypeOK'
    BY <1>1 DEF IInv, TypeOK, WorkStates
  <1>3. OutcomesOK'
    BY <1>1 DEF IInv, OutcomesOK, IsQueued
  <1>4. AtRest' /\ HttpOK' /\ PostgresOK'
    BY DEF AtRest, HttpOK, PostgresOK
  <1> QED
    BY <1>2, <1>3, <1>4 DEF IInv

LEMMA NothingSaved ==
    ASSUME TypeOK, Save, reported' = reported
    PROVE  table' = table
  BY DEF TypeOK, Save

\* The workers stop early only if the circuit opened.
LEMMA EarlyStopIsTheCircuit ==
    ASSUME HttpRuns, \A w \in Workers : work[w].pc = "stopped",
           NEW r \in Records, IsQueued(r), reported[r] = "none"
    PROVE  isOpen
  <1> SUFFICES ASSUME ~isOpen PROVE FALSE
    BY DEF HttpRuns, IInv, TypeOK, Breaker!TypeOK
  <1>1. PICK w \in Workers : work[w].pc = "stopped"
    BY HttpConstants
  <1>2. next = Len(queue) + 1
    BY <1>1 DEF HttpRuns, IInv, HttpOK, IteratorOK
  <1>3. PICK i \in DOMAIN queue : queue[i] = r
    BY DEF IsQueued
  <1>4. i < next
    BY <1>2, <1>3 DEF HttpRuns, IInv, TypeOK
  <1>5. PICK v \in Workers : Holds(v)
    BY <1>3, <1>4 DEF HttpRuns, IInv, HttpOK, IteratorOK
  <1> QED
    BY <1>5 DEF Holds

LEMMA HttpReturnStep ==
    ASSUME IInv, HttpReturn
    PROVE  IInv' /\ PassStep /\ Silent
  <1>1. HttpRuns /\ Return /\ Save /\ UNCHANGED postgresVars
    BY DEF HttpReturn, HttpStep, HttpRuns
  <1>2. UNCHANGED <<given, reported, breakerVars>> /\ HttpForget /\ mode' = mode
    BY <1>1 DEF Return, Save
  <1>3. Breaker!TypeOK'
    BY <1>2, BreakerKeepsType DEF IInv, TypeOK
  <1>4. table' = table /\ reported' = reported /\ server' = server /\ queue' = queue
    BY <1>1, <1>2, NothingSaved DEF IInv, given
  <1>5. /\ ending' \in {"complete", "circuit"}
        /\ ending' = "complete" => \A r \in ToSet(queue) : reported[r] # "none"
        /\ ending' = "circuit" => \E r \in ToSet(queue) : reported[r] = "none"
    BY <1>1 DEF Return
  <1>6. pc' = "stopped" /\ tries' = tries /\ attempt' = attempt /\ offset' = offset /\ alive' = alive
    BY <1>1 DEF IInv, AtRest, HttpRuns, postgresVars
  <1>7. /\ next' \in 1..Limit + 1 /\ work' \in [Workers -> WorkStates]
        /\ \A w \in Workers : work'[w] = Idle
    BY <1>2, ForgottenTypes
  <1>8. /\ tries' \in 0..MaxAttempts - 1 /\ attempt' \in 0..MaxAttempts - 1
        /\ offset' \in 0..Limit - 1 /\ alive' \in BOOLEAN
    BY <1>6 DEF IInv, TypeOK
  <1>9. IInv'
    BY <1>2, <1>3, <1>4, <1>5, <1>6, <1>7, <1>8, EndKeeps
  <1>10. ending' = "circuit" => \E r \in ToSet(queue) : reported[r] = "error"
    <2> SUFFICES ASSUME ending' = "circuit"
                 PROVE  \E r \in ToSet(queue) : reported[r] = "error"
      OBVIOUS
    <2>1. PICK r \in ToSet(queue) : reported[r] = "none"
      BY <1>5
    <2>2. IsQueued(r) /\ r \in Records
      BY <2>1 DEF ToSet, IsQueued, IInv, TypeOK
    <2>3. isOpen
      BY <1>1, <2>1, <2>2, EarlyStopIsTheCircuit DEF Return
    <2>4. PICK q \in Records : IsQueued(q) /\ reported[q] = "error"
      BY <1>1, <2>3 DEF HttpRuns, IInv, OutcomesOK
    <2> QED
      BY <2>4, QueuedIsSelected
  <1>11. reported \in [Records -> Outcomes] /\ ending = "running"
    BY <1>1 DEF HttpRuns, IInv, TypeOK, Outcomes
  <1>12. Pass!Proceed
    BY <1>4, <1>5, <1>10, <1>11, GivenToThePass
    DEF Pass!Proceed, Pass!Outcomes, Pass!Endings, Outcomes
  <1>13. Silent
    BY <1>6, <1>7, IdleIsTyped DEF Silent, Requests
  <1> QED
    BY <1>9, <1>12, <1>13 DEF PassStep

\* What the budget or a kill takes away.
LEMMA CutShort ==
    ASSUME IInv, ending = "running", UNCHANGED <<given, reported, mode, table>>,
           Breaker!TypeOK', ending' \in {"budget", "failed"}, HttpForget,
           PostgresForget \/ (mode = "http" /\ UNCHANGED postgresVars)
    PROVE  IInv' /\ PassStep /\ Silent
  <1>1. /\ next' \in 1..Limit + 1 /\ work' \in [Workers -> WorkStates]
        /\ \A w \in Workers : work'[w] = Idle
    BY ForgottenTypes
  <1>2. /\ pc' = "stopped" /\ tries' \in 0..MaxAttempts - 1 /\ attempt' \in 0..MaxAttempts - 1
        /\ offset' \in 0..Limit - 1 /\ alive' \in BOOLEAN
    <2>1. CASE PostgresForget
      BY <2>1, ForgottenTypes
    <2>2. CASE mode = "http" /\ UNCHANGED postgresVars
      BY <2>2 DEF IInv, TypeOK, AtRest, postgresVars
    <2> QED
      BY <2>1, <2>2
  <1>3. IInv'
    BY <1>1, <1>2, EndKeeps
  <1>4. reported \in [Records -> Outcomes] /\ server' = server /\ queue' = queue
    BY DEF IInv, TypeOK, Outcomes, given
  <1>5. Pass!Proceed
    BY <1>4, GivenToThePass DEF Pass!Proceed, Pass!Outcomes, Pass!Endings, Outcomes
  <1>6. Silent
    BY <1>1, <1>2, IdleIsTyped DEF Silent, Requests
  <1> QED
    BY <1>3, <1>5, <1>6 DEF PassStep

LEMMA HttpBudgetStep ==
    ASSUME IInv, HttpBudget
    PROVE  IInv' /\ PassStep /\ Silent
  <1>1. /\ UNCHANGED <<given, reported, breakerVars, mode, postgresVars>> /\ HttpForget /\ Save
        /\ ending' = "budget" /\ ending = "running" /\ mode = "http"
    BY DEF HttpBudget, HttpStep, Budget, Save
  <1>2. Breaker!TypeOK' /\ table' = table
    BY <1>1, BreakerKeepsType, NothingSaved DEF IInv, TypeOK
  <1> QED
    BY <1>1, <1>2, CutShort

LEMMA InterruptStep ==
    ASSUME IInv, Interrupt
    PROVE  IInv' /\ PassStep /\ Silent
  <1>1. /\ UNCHANGED <<given, reported, mode, table>> /\ HttpForget /\ PostgresForget
        /\ ending' = "failed" /\ ending = "running"
    BY DEF Interrupt
  <1>2. Breaker!TypeOK'
    BY NewBreakerType DEF Interrupt
  <1> QED
    BY <1>1, <1>2, CutShort

LEMMA BeginStep ==
    ASSUME IInv, Begin
    PROVE  IInv' /\ (Pass!Begin \/ UNCHANGED Pass!passVars) /\ Silent
  <1>1. /\ ending # "running" /\ ending' = "running" /\ Pending # {} /\ queue' \in Selections
        /\ reported' = Unreported
        /\ server' = server /\ refused' = refused /\ calm' = calm /\ mode' = mode /\ table' = table
    BY DEF Begin
  <1>2. queue' \in Seq(Records) /\ Len(queue') \in 1..Limit /\ IsInjective(queue')
    BY <1>1, SelectionsAreQueues
  <1>3. Breaker!TypeOK' /\ isOpen' = FALSE
    BY NewBreakerType DEF Begin
  <1>4. reported' \in [Records -> Outcomes] /\ \A r \in Records : reported'[r] = "none"
    BY <1>1 DEF Unreported, Outcomes
  <1>5. 0 \in 0..MaxAttempts - 1 /\ 0 \in 0..Limit - 1 /\ 1 \in 1..Limit + 1
    BY CrtShConstants, SupplementConstants
  <1>6. /\ next' \in 1..Limit + 1 /\ work' \in [Workers -> WorkStates]
        /\ mode = "postgres" => \A w \in Workers : work'[w] = Idle
        /\ mode = "http" => next' = 1 /\ \A w \in Workers : work'[w].pc = "new"
    <2>1. CASE mode = "http"
      <3>1. HttpStart
        BY <2>1 DEF Begin
      <3> DEFINE fresh == [Idle EXCEPT !.pc = "new"]
      <3>2. fresh \in WorkStates /\ fresh.pc = "new"
        BY IdleIsTyped DEF WorkStates
      <3>3. next' = 1 /\ work' = [w \in Workers |-> fresh]
        BY <3>1 DEF HttpStart
      <3> HIDE DEF fresh
      <3> QED
        BY <1>5, <2>1, <3>2, <3>3
    <2>2. CASE mode = "postgres"
      <3>1. next' = next /\ work' = work
        BY <2>2 DEF Begin, httpVars
      <3> QED
        BY <1>1, <2>2, <3>1 DEF IInv, TypeOK, AtRest, WorkStates
    <2> QED
      BY <2>1, <2>2 DEF IInv, TypeOK
  <1>7. /\ pc' \in {"connect", "query", "reconnect", "stopped"}
        /\ tries' \in 0..MaxAttempts - 1 /\ attempt' \in 0..MaxAttempts - 1
        /\ offset' \in 0..Limit - 1 /\ alive' \in BOOLEAN
        /\ mode = "http" => pc' = "stopped"
        /\ mode = "postgres" => pc' = "connect" /\ offset' = 0
    <2>1. CASE mode = "http"
      <3>1. UNCHANGED postgresVars
        BY <2>1 DEF Begin
      <3> QED
        BY <2>1, <3>1 DEF IInv, TypeOK, AtRest, postgresVars
    <2>2. CASE mode = "postgres"
      <3>1. PostgresStart
        BY <2>2 DEF Begin
      <3> QED
        BY <1>5, <2>2, <3>1 DEF PostgresStart
    <2> QED
      BY <2>1, <2>2 DEF IInv, TypeOK
  <1>8. TypeOK'
    <2>1. Len(queue') <= Limit
      BY <1>2, SupplementConstants
    <2> QED
      BY <1>1, <1>2, <1>3, <1>4, <1>6, <1>7, <2>1 DEF IInv, TypeOK, WorkStates, Outcomes
  <1>9. OutcomesOK' /\ AtRest'
    BY <1>1, <1>3, <1>4, <1>6, <1>7 DEF OutcomesOK, AtRest
  <1>10. DOMAIN queue' = 1..Len(queue') /\ \A i \in DOMAIN queue' : queue'[i] \in Records
    BY <1>2
  <1>11. HttpOK'
    <2> SUFFICES ASSUME mode' = "http" PROVE HoldingsOK' /\ IteratorOK'
      BY DEF HttpOK
    <2>1. next' = 1 /\ \A w \in Workers : work'[w].pc = "new"
      BY <1>1, <1>6
    <2>2. HoldingsOK'
      BY <2>1 DEF HoldingsOK, Holds
    <2>3. 1 \in 1..Len(queue') + 1 /\ \A i \in DOMAIN queue' : ~(i < 1)
      BY <1>2
    <2>4. IteratorOK'
      BY <1>4, <1>10, <2>1, <2>3 DEF IteratorOK
    <2> QED
      BY <2>2, <2>4
  <1>12. PostgresOK'
    <2> SUFFICES ASSUME mode' = "postgres" PROVE PostgresOK'
      BY DEF PostgresOK
    <2>1. pc' = "connect" /\ offset' = 0
      BY <1>1, <1>7
    <2>2. offset' < Len(queue') /\ \A i \in DOMAIN queue' : i > offset'
      BY <1>2, <1>10, <2>1
    <2> QED
      BY <1>3, <1>4, <1>10, <2>1, <2>2 DEF PostgresOK
  <1>13. Pass!Begin
    <2>1. ToSet(queue)' \subseteq Records
      BY <1>10 DEF ToSet
    <2> QED
      BY <1>1, <2>1 DEF Pass!Begin, Pass!Unreported, Unreported, HasUsable
  <1>14. Silent
    BY <1>1 DEF Silent
  <1> QED
    BY <1>8, <1>9, <1>11, <1>12, <1>13, <1>14 DEF IInv

\* Steps that change nothing but the weather.
LEMMA IdleStep ==
    ASSUME IInv, CalmDown \/ UNCHANGED vars
    PROVE  IInv' /\ PassStep /\ Silent
  <1>1. /\ UNCHANGED <<server, refused, queue, reported, ending, mode, table>>
        /\ UNCHANGED breakerVars /\ UNCHANGED httpVars /\ UNCHANGED postgresVars
        /\ calm' \in BOOLEAN
    BY DEF IInv, TypeOK, CalmDown, vars, given
  <1>2. Breaker!TypeOK' /\ isOpen' = isOpen
    BY <1>1, BreakerKeepsType DEF IInv, TypeOK
  <1>3. /\ next' = next /\ work' = work /\ pc' = pc /\ tries' = tries /\ offset' = offset
        /\ attempt' = attempt /\ alive' = alive
    BY <1>1 DEF httpVars, postgresVars
  <1>4. TypeOK'
    BY <1>1, <1>2, <1>3 DEF IInv, TypeOK
  <1>5. OutcomesOK' /\ AtRest'
    BY <1>1, <1>2, <1>3 DEF IInv, OutcomesOK, IsQueued, AtRest
  <1>6. HoldingsOK' <=> HoldingsOK
    BY <1>1, <1>3 DEF HoldingsOK, Holds, Record
  <1>7. IteratorOK' <=> IteratorOK
    BY <1>1, <1>2, <1>3 DEF IteratorOK, Holds
  <1>8. HttpOK'
    BY <1>1, <1>6, <1>7 DEF IInv, HttpOK
  <1>9. PostgresOK'
    BY <1>1, <1>2, <1>3 DEF IInv, PostgresOK
  <1>10. PassStep
    BY <1>1, GivenToThePass DEF PassStep, Pass!passVars
  <1>11. Silent
    <2>1. isOpen /\ ending = "running" => pc \notin {"query", "reconnect"}
      BY DEF IInv, TypeOK, AtRest, PostgresOK
    <2> QED
      BY <1>1, <1>3, <2>1 DEF Silent, Requests
  <1> QED
    BY <1>4, <1>5, <1>8, <1>9, <1>10, <1>11 DEF IInv

LEMMA HttpWorkStep ==
    ASSUME IInv, NEW w \in Workers, HttpWork(w)
    PROVE  IInv' /\ PassStep /\ Silent
  <1>1. HttpRuns /\ Work(w) /\ Save /\ UNCHANGED postgresVars /\ mode' = mode
    BY DEF HttpWork, HttpStep, HttpRuns, Save
  <1>2. /\ Breaker!TypeOK' /\ isOpen' \in BOOLEAN /\ (isOpen => isOpen')
        /\ UNCHANGED <<given, ending>>
        /\ Keeps(w) \/ Finishes(w) \/ Starts(w)
    BY <1>1, WorkShapes
  <1>3. IInv'
    <2>1. CASE Keeps(w)
      BY <1>1, <1>2, <2>1, KeepsStep
    <2>2. CASE Finishes(w) \/ Starts(w)
      BY <1>1, <1>2, <2>2, TakesStep
    <2> QED
      BY <1>2, <2>1, <2>2
  <1> QED
    BY <1>1, <1>2, <1>3, WorkPasses, WorkIsSilent

----------------------------------------------------------------------------
(* A step of the PostgreSQL provider *)

PostgresRuns == IInv /\ mode = "postgres" /\ ending = "running"

LEMMA BatchFacts ==
    ASSUME PostgresRuns
    PROVE  /\ queue \in Seq(Records) /\ Len(queue) \in Nat /\ DOMAIN queue = 1..Len(queue)
           /\ Len(queue) <= Limit /\ Limit \in Nat /\ BatchSize \in Nat \ {0}
           /\ \A i \in DOMAIN queue : queue[i] \in Records
           /\ offset \in Nat /\ offset < Len(queue) /\ ~isOpen
           /\ \A i \in DOMAIN queue : queue[i] \in Batch <=> i > offset /\ i <= offset + BatchSize
           /\ \A i \in DOMAIN queue : (reported[queue[i]] = "none") <=> (i > offset)
           /\ \A r \in Batch : IsQueued(r) /\ r \in Records /\ reported[r] = "none"
           /\ \E r \in Batch : TRUE
  <1>1. /\ queue \in Seq(Records) /\ Len(queue) \in Nat /\ DOMAIN queue = 1..Len(queue)
        /\ Len(queue) <= Limit /\ Limit \in Nat /\ BatchSize \in Nat \ {0}
        /\ \A i \in DOMAIN queue : queue[i] \in Records
        /\ \A i, j \in DOMAIN queue : queue[i] = queue[j] => i = j
    BY SupplementConstants, PostgresConstants DEF PostgresRuns, IInv, TypeOK, IsInjective
  <1>2. /\ offset \in Nat /\ offset < Len(queue) /\ ~isOpen
        /\ \A i \in DOMAIN queue : (reported[queue[i]] = "none") <=> (i > offset)
    BY DEF PostgresRuns, IInv, TypeOK, PostgresOK
  <1> DEFINE last == IF offset + BatchSize < Len(queue) THEN offset + BatchSize ELSE Len(queue)
  <1>3. /\ last \in Nat /\ last <= Len(queue) /\ offset + 1 <= last
        /\ \A i \in 1..Len(queue) : i <= last <=> i <= offset + BatchSize
    BY <1>1, <1>2
  <1>4. Batch = {queue[i] : i \in offset + 1..last}
    BY DEF Batch
  <1> HIDE DEF last
  <1>5. \A i \in DOMAIN queue : queue[i] \in Batch <=> i \in offset + 1..last
    BY <1>1, <1>2, <1>3, <1>4
  <1>6. \A i \in DOMAIN queue : queue[i] \in Batch <=> i > offset /\ i <= offset + BatchSize
    BY <1>1, <1>2, <1>3, <1>5
  <1>7. ASSUME NEW r \in Batch
        PROVE  IsQueued(r) /\ r \in Records /\ reported[r] = "none"
    <2>1. PICK i \in offset + 1..last : r = queue[i]
      BY <1>4
    <2>2. i \in DOMAIN queue /\ i > offset
      BY <1>1, <1>2, <1>3, <2>1
    <2> QED
      BY <1>1, <1>2, <2>1, <2>2 DEF IsQueued
  <1>8. queue[offset + 1] \in Batch
    BY <1>2, <1>3, <1>4
  <1> QED
    BY <1>1, <1>2, <1>6, <1>7, <1>8

\* The pass ends with these outcomes.
LEMMA PostgresEnds ==
    ASSUME PostgresRuns, UNCHANGED <<given, mode, httpVars>>, Save, PostgresForget,
           Breaker!TypeOK', reported' \in [Records -> Outcomes],
           \A r \in Records : reported'[r] # "none" => IsQueued(r),
           ending' \in {"complete", "circuit", "budget", "failed"}
    PROVE  IInv'
  <1>1. /\ server' = server /\ refused' = refused /\ calm' = calm /\ queue' = queue
        /\ mode' = mode /\ next' = next /\ work' = work
    BY DEF given, httpVars
  <1>2. table' \in [Records -> Outcomes]
    BY SavedTable DEF PostgresRuns, IInv
  <1>3. /\ pc' = "stopped" /\ tries' \in 0..MaxAttempts - 1 /\ attempt' \in 0..MaxAttempts - 1
        /\ offset' \in 0..Limit - 1 /\ alive' \in BOOLEAN
    BY ForgottenTypes
  <1>4. TypeOK'
    BY <1>1, <1>2, <1>3 DEF PostgresRuns, IInv, TypeOK, Outcomes
  <1>5. OutcomesOK'
    BY <1>1 DEF OutcomesOK, IsQueued
  <1>6. AtRest'
    BY <1>1, <1>3 DEF PostgresRuns, IInv, AtRest
  <1>7. HttpOK' /\ PostgresOK'
    BY DEF HttpOK, PostgresOK
  <1> QED
    BY <1>4, <1>5, <1>6, <1>7 DEF IInv

\* The pass goes on, with these outcomes and this batch.
LEMMA PostgresGoesOn ==
    ASSUME PostgresRuns, UNCHANGED <<given, mode, httpVars, ending>>, Save,
           Breaker!TypeOK', ~isOpen', reported' \in [Records -> Outcomes],
           \A r \in Records : reported'[r] # "none" => IsQueued(r),
           pc' \in {"connect", "query", "reconnect"}, tries' \in 0..MaxAttempts - 1,
           attempt' \in 0..MaxAttempts - 1, alive' \in BOOLEAN,
           offset' \in Nat, offset' < Len(queue),
           \A i \in DOMAIN queue : (reported'[queue[i]] = "none") <=> (i > offset'),
           pc' = "connect" => offset' = 0,
           pc' = "reconnect" => attempt' < MaxAttempts - 1
    PROVE  IInv'
  <1>1. /\ server' = server /\ refused' = refused /\ calm' = calm /\ queue' = queue
        /\ mode' = mode /\ next' = next /\ work' = work /\ ending' = ending
    BY DEF given, httpVars
  <1>2. table' \in [Records -> Outcomes]
    BY SavedTable DEF PostgresRuns, IInv
  <1>3. offset' \in 0..Limit - 1
    BY BatchFacts
  <1>4. TypeOK'
    BY <1>1, <1>2, <1>3 DEF PostgresRuns, IInv, TypeOK, Outcomes
  <1>5. OutcomesOK'
    BY <1>1 DEF OutcomesOK, IsQueued
  <1>6. AtRest' /\ HttpOK'
    BY <1>1 DEF PostgresRuns, IInv, AtRest, HttpOK
  <1>7. PostgresOK'
    BY <1>1 DEF PostgresOK
  <1> QED
    BY <1>4, <1>5, <1>6, <1>7 DEF IInv

\* Nothing is reported, and the pass does not claim that all is.
LEMMA NothingReported ==
    ASSUME PostgresRuns, UNCHANGED <<given, reported>>,
           ending' \in {"running", "budget", "failed"}
    PROVE  PassStep
  <1>1. /\ reported' = reported /\ reported \in [Records -> Outcomes]
        /\ server' = server /\ queue' = queue /\ ending = "running"
    BY DEF given, PostgresRuns, IInv, TypeOK, Outcomes
  <1>2. Pass!Proceed
    BY <1>1, GivenToThePass DEF Pass!Proceed, Pass!Outcomes, Pass!Endings, Outcomes
  <1> QED
    BY <1>2 DEF PassStep

\* The outcomes of a batch, and the next batch or the end.
LEMMA ReportStep ==
    ASSUME PostgresRuns, UNCHANGED <<given, mode, httpVars>>, Save, Breaker!TypeOK',
           isOpen' \in BOOLEAN, alive' \in BOOLEAN,
           NEW outcomes \in [Records -> {"found", "not_found", "error"}],
           \A r \in Batch : MayReport(r, outcomes[r]),
           isOpen' => \A r \in Batch : outcomes[r] = "error",
           PostgresReport(outcomes)
    PROVE  IInv' /\ PassStep
  <1>1. reported' = [r \in Records |-> IF r \in Batch THEN outcomes[r] ELSE reported[r]]
        /\ EnterBatch(offset + BatchSize)
    BY DEF PostgresReport
  <1>2. reported \in [Records -> Outcomes] /\ ending = "running"
    BY DEF PostgresRuns, IInv, TypeOK, Outcomes
  <1>3. /\ reported' \in [Records -> Outcomes]
        /\ \A r \in Records : r \in Batch => reported'[r] = outcomes[r] /\ reported'[r] # "none"
        /\ \A r \in Records : r \notin Batch => reported'[r] = reported[r]
    BY <1>1, <1>2 DEF Outcomes
  <1>4. \A r \in Records : reported'[r] # "none" => IsQueued(r)
    BY <1>3, BatchFacts DEF PostgresRuns, IInv, OutcomesOK
  <1>5. \A i \in DOMAIN queue : (reported'[queue[i]] = "none") <=> (i > offset + BatchSize)
    BY <1>3, BatchFacts
  <1>6. \A r \in Records :
           \/ reported'[r] = reported[r]
           \/ r \in ToSet(queue) /\ reported[r] = "none" /\ Pass!Truthful(r, reported'[r])
    BY <1>3, BatchFacts, MayReportIsTruthful, QueuedIsSelected
  <1>7. server' = server /\ queue' = queue
    BY DEF given
  <1>8. CASE offset + BatchSize >= Len(queue)
    <2>1. ending' = "complete" /\ PostgresForget
      BY <1>1, <1>8 DEF EnterBatch, Stop
    <2>2. IInv'
      BY <1>3, <1>4, <2>1, PostgresEnds
    <2>3. \A i \in DOMAIN queue : reported'[queue[i]] # "none"
      BY <1>5, <1>8, BatchFacts
    <2>4. \A r \in ToSet(queue) : reported'[r] # "none"
      BY <2>3 DEF ToSet
    <2>5. Pass!Proceed
      BY <1>2, <1>3, <1>6, <1>7, <2>1, <2>4, GivenToThePass
      DEF Pass!Proceed, Pass!Outcomes, Pass!Endings, Outcomes
    <2> QED
      BY <2>2, <2>5 DEF PassStep
  <1>9. CASE ~(offset + BatchSize >= Len(queue)) /\ isOpen'
    <2>1. ending' = "circuit" /\ PostgresForget
      BY <1>1, <1>9 DEF EnterBatch, Stop
    <2>2. IInv'
      BY <1>3, <1>4, <2>1, PostgresEnds
    <2>3. \E r \in ToSet(queue) : reported'[r] = "error"
      <3>1. PICK r \in Batch : TRUE
        BY BatchFacts
      <3>2. IsQueued(r) /\ reported'[r] = "error"
        BY <1>3, <1>9, <3>1, BatchFacts
      <3> QED
        BY <3>2, QueuedIsSelected
    <2>4. Pass!Proceed
      BY <1>2, <1>3, <1>6, <1>7, <2>1, <2>3, GivenToThePass
      DEF Pass!Proceed, Pass!Outcomes, Pass!Endings, Outcomes
    <2> QED
      BY <2>2, <2>4 DEF PassStep
  <1>10. CASE ~(offset + BatchSize >= Len(queue)) /\ ~isOpen'
    <2>1. /\ pc' = "query" /\ offset' = offset + BatchSize /\ attempt' = 0 /\ tries' = 0
          /\ ending' = ending
      BY <1>1, <1>10 DEF EnterBatch
    <2>2. offset' \in Nat /\ offset' < Len(queue) /\ 0 \in 0..MaxAttempts - 1
      BY <1>10, <2>1, BatchFacts, CrtShConstants
    <2>3. IInv'
      BY <1>3, <1>4, <1>5, <1>10, <2>1, <2>2, PostgresGoesOn
    <2>4. Pass!Proceed
      BY <1>2, <1>3, <1>6, <1>7, <2>1, GivenToThePass
      DEF Pass!Proceed, Pass!Outcomes, Pass!Endings, Outcomes
    <2> QED
      BY <2>3, <2>4 DEF PassStep
  <1> QED
    BY <1>8, <1>9, <1>10

\* What is found of a record of a batch may be reported.
LEMMA OutcomesAreOfTheService ==
    ASSUME PostgresRuns, NEW r \in Batch
    PROVE  /\ MayReport(r, Outcome(r)) /\ MayReport(r, "error")
           /\ Outcome(r) \in {"found", "not_found", "error"}
  <1>1. Verdict(r) = "usable" => HasUsable(r)
    BY DEF Verdict, Decides, HasUsable
  <1>2. Verdict(r) = "not_found" => server[r] = <<>>
    BY DEF Verdict
  <1> QED
    BY <1>1, <1>2 DEF Outcome, MayReport

\* The first connection, or the next query.
LEMMA ConnectStep ==
    ASSUME PostgresRuns, UNCHANGED <<given, mode, httpVars>>, Save, Connects
    PROVE  IInv' /\ PassStep
  <1>1. UNCHANGED <<breakerVars, reported>> /\ alive' = TRUE /\ EnterBatch(0) /\ pc = "connect"
    BY DEF Connects
  <1>2. Breaker!TypeOK' /\ isOpen' = isOpen
    BY <1>1, BreakerKeepsType DEF PostgresRuns, IInv, TypeOK
  <1>3. ~(0 >= Len(queue)) /\ ~isOpen'
    BY <1>2, BatchFacts
  <1>4. pc' = "query" /\ offset' = 0 /\ attempt' = 0 /\ tries' = 0 /\ ending' = ending
    BY <1>1, <1>3 DEF EnterBatch
  <1>5. offset = 0
    BY <1>1 DEF PostgresRuns, IInv, PostgresOK
  <1>6. /\ reported' \in [Records -> Outcomes]
        /\ \A r \in Records : reported'[r] # "none" => IsQueued(r)
    BY <1>1 DEF PostgresRuns, IInv, TypeOK, Outcomes, OutcomesOK
  <1>7. 0 \in 0..MaxAttempts - 1
    BY CrtShConstants
  <1>8. \A i \in DOMAIN queue : (reported'[queue[i]] = "none") <=> (i > offset')
    BY <1>1, <1>4, <1>5, BatchFacts
  <1>9. IInv'
    BY <1>1, <1>2, <1>3, <1>4, <1>6, <1>7, <1>8, BatchFacts, PostgresGoesOn
  <1> QED
    BY <1>1, <1>4, <1>9, NothingReported DEF PostgresRuns

\* An attempt that is repeated: of a connection, of a query.
LEMMA AgainStep ==
    ASSUME PostgresRuns, UNCHANGED <<given, mode, httpVars, reported, ending, offset>>, Save,
           Breaker!TypeOK', ~isOpen', tries' \in 0..MaxAttempts - 1,
           attempt' \in 0..MaxAttempts - 1, alive' \in BOOLEAN,
           \/ pc' \in {"query", "reconnect"}
           \/ pc' = "connect" /\ pc = "connect",
           pc' = "reconnect" => attempt' < MaxAttempts - 1
    PROVE  IInv' /\ PassStep
  <1>1. /\ reported' = reported /\ offset' = offset /\ ending' = ending /\ ending = "running"
        /\ reported' \in [Records -> Outcomes]
        /\ \A r \in Records : reported'[r] # "none" => IsQueued(r)
    BY DEF PostgresRuns, IInv, TypeOK, Outcomes, OutcomesOK
  <1>2. \A i \in DOMAIN queue : (reported'[queue[i]] = "none") <=> (i > offset')
    BY <1>1, BatchFacts
  <1>3. offset' \in Nat /\ offset' < Len(queue)
    BY <1>1, BatchFacts
  <1>4. pc' \in {"connect", "query", "reconnect"} /\ (pc' = "connect" => offset' = 0)
    BY <1>1 DEF PostgresRuns, IInv, PostgresOK
  <1>5. IInv'
    BY <1>1, <1>2, <1>3, <1>4, PostgresGoesOn
  <1> QED
    BY <1>1, <1>5, NothingReported

LEMMA NoConnectionStep ==
    ASSUME PostgresRuns, UNCHANGED <<given, mode, httpVars>>, Save, ConnectionFails
    PROVE  IInv' /\ PassStep
  <1>1. pc = "connect" /\ UNCHANGED breakerVars
    BY DEF ConnectionFails
  <1>2. Breaker!TypeOK' /\ isOpen' = isOpen /\ ~isOpen
    BY <1>1, BreakerKeepsType, BatchFacts DEF PostgresRuns, IInv, TypeOK
  <1>3. CASE tries < MaxAttempts - 1
    <2>1. tries' = tries + 1 /\ UNCHANGED <<pc, offset, attempt, alive, reported, ending>>
      BY <1>3 DEF ConnectionFails
    <2>2. tries' \in 0..MaxAttempts - 1
      BY <1>3, <2>1, CrtShConstants DEF PostgresRuns, IInv, TypeOK
    <2>3. attempt' \in 0..MaxAttempts - 1 /\ alive' \in BOOLEAN
      BY <2>1 DEF PostgresRuns, IInv, TypeOK
    <2> QED
      BY <1>1, <1>2, <2>1, <2>2, <2>3, AgainStep
  <1>4. CASE ~(tries < MaxAttempts - 1)
    <2>1. /\ reported' = [r \in Records |-> IF r \in ToSet(queue) THEN "error" ELSE reported[r]]
          /\ ending' = "complete" /\ PostgresForget
      BY <1>4 DEF ConnectionFails, Stop
    <2>2. /\ reported \in [Records -> Outcomes] /\ ending = "running" /\ offset = 0
          /\ server' = server /\ queue' = queue
      BY <1>1 DEF PostgresRuns, IInv, TypeOK, Outcomes, PostgresOK, given
    <2>3. \A r \in Records : r \in ToSet(queue) => IsQueued(r) /\ reported[r] = "none"
      BY <2>2, BatchFacts DEF ToSet, IsQueued
    <2>4. /\ reported' \in [Records -> Outcomes]
          /\ \A r \in Records : r \in ToSet(queue) => reported'[r] = "error"
          /\ \A r \in Records : r \notin ToSet(queue) => reported'[r] = reported[r]
      BY <2>1, <2>2 DEF Outcomes
    <2>5. \A r \in Records : reported'[r] # "none" => IsQueued(r)
      BY <2>3, <2>4 DEF PostgresRuns, IInv, OutcomesOK
    <2>6. IInv'
      BY <1>2, <2>1, <2>4, <2>5, PostgresEnds
    <2>7. ToSet(queue) \subseteq Records
      BY BatchFacts DEF ToSet
    <2>8. \A r \in Records :
             \/ reported'[r] = reported[r]
             \/ r \in ToSet(queue) /\ reported[r] = "none" /\ Pass!Truthful(r, reported'[r])
      BY <2>3, <2>4, MayReportIsTruthful DEF MayReport
    <2>9. Pass!Proceed
      BY <2>1, <2>2, <2>4, <2>7, <2>8, GivenToThePass
      DEF Pass!Proceed, Pass!Outcomes, Pass!Endings, Outcomes
    <2> QED
      BY <2>6, <2>9 DEF PassStep
  <1> QED
    BY <1>3, <1>4

LEMMA QuerySucceedsStep ==
    ASSUME PostgresRuns, UNCHANGED <<given, mode, httpVars>>, Save, QuerySucceeds
    PROVE  IInv' /\ PassStep
  <1>1. Breaker!TypeOK' /\ isOpen' = isOpen /\ ~isOpen
    BY BreakerKeepsType, BatchFacts DEF PostgresRuns, IInv, TypeOK, QuerySucceeds
  <1>2. CASE Raising
    <2>1. ending' = "failed" /\ PostgresForget /\ reported' = reported
      BY <1>2 DEF QuerySucceeds, Stop
    <2>2. /\ reported' \in [Records -> Outcomes]
          /\ \A r \in Records : reported'[r] # "none" => IsQueued(r)
      BY <2>1 DEF PostgresRuns, IInv, TypeOK, Outcomes, OutcomesOK
    <2>3. IInv'
      BY <1>1, <2>1, <2>2, PostgresEnds
    <2> QED
      BY <2>1, <2>3, NothingReported
  <1>3. CASE ~Raising
    <2> DEFINE outcomes == [r \in Records |->
                               IF r \in Batch THEN Outcome(r) ELSE "error"]
    <2>1. PostgresReport([r \in Records |-> Outcome(r)])
          /\ alive' = (alive /\ ending' = "running")
      BY <1>3 DEF QuerySucceeds
    <2>2. /\ reported' = [r \in Records |-> IF r \in Batch THEN Outcome(r) ELSE reported[r]]
          /\ EnterBatch(offset + BatchSize)
      BY <2>1 DEF PostgresReport
    <2>3. reported' = [r \in Records |-> IF r \in Batch THEN outcomes[r] ELSE reported[r]]
      BY <2>2
    <2>4. /\ outcomes \in [Records -> {"found", "not_found", "error"}]
          /\ \A r \in Batch : MayReport(r, outcomes[r])
      BY OutcomesAreOfTheService, BatchFacts
    <2> HIDE DEF outcomes
    <2>5. PostgresReport(outcomes)
      BY <2>2, <2>3 DEF PostgresReport
    <2>6. alive' \in BOOLEAN /\ isOpen' \in BOOLEAN
      BY <1>1, <2>1 DEF PostgresRuns, IInv, TypeOK, Breaker!TypeOK
    <2> QED
      BY <1>1, <2>4, <2>5, <2>6, ReportStep
  <1> QED
    BY <1>2, <1>3

\* A batch without an answer, whatever was the matter.
LEMMA BatchFailsStep ==
    ASSUME PostgresRuns, UNCHANGED <<given, mode, httpVars>>, Save, Breaker!TypeOK',
           isOpen' \in BOOLEAN, alive' \in BOOLEAN, PostgresReport(Failed)
    PROVE  IInv' /\ PassStep
  <1>1. /\ Failed \in [Records -> {"found", "not_found", "error"}]
        /\ \A r \in Batch : Failed[r] = "error"
    BY BatchFacts DEF Failed
  <1>2. \A r \in Batch : MayReport(r, Failed[r])
    BY <1>1 DEF MayReport
  <1> HIDE DEF Failed
  <1> QED
    BY <1>1, <1>2, ReportStep

LEMMA QueryFailsStep ==
    ASSUME PostgresRuns, UNCHANGED <<given, mode, httpVars>>, Save, QueryFails
    PROVE  IInv' /\ PassStep
  <1>1. Breaker!TypeOK' /\ isOpen' \in BOOLEAN
    BY BreakerKeepsType DEF PostgresRuns, IInv, TypeOK, QueryFails, Failures
  <1>2. CASE isOpen' \/ attempt = MaxAttempts - 1
    <2>1. PostgresReport(Failed) /\ alive' = (alive /\ ending' = "running")
      BY <1>2 DEF QueryFails
    <2>2. alive' \in BOOLEAN
      BY <2>1 DEF PostgresRuns, IInv, TypeOK
    <2> QED
      BY <1>1, <2>1, <2>2, BatchFailsStep
  <1>3. CASE ~(isOpen' \/ attempt = MaxAttempts - 1)
    <2>1. /\ pc' = "reconnect" /\ alive' = FALSE /\ tries' = 0
          /\ UNCHANGED <<offset, attempt, reported, ending>>
      BY <1>3 DEF QueryFails
    <2>2. 0 \in 0..MaxAttempts - 1 /\ attempt' \in 0..MaxAttempts - 1 /\ attempt' < MaxAttempts - 1
      BY <1>3, <2>1, CrtShConstants DEF PostgresRuns, IInv, TypeOK
    <2> QED
      BY <1>1, <1>3, <2>1, <2>2, AgainStep
  <1> QED
    BY <1>2, <1>3

LEMMA ReconnectStep ==
    ASSUME PostgresRuns, UNCHANGED <<given, mode, httpVars>>, Save, Reconnects
    PROVE  IInv' /\ PassStep
  <1>1. /\ pc = "reconnect" /\ pc' = "query" /\ alive' = TRUE /\ attempt' = attempt + 1
        /\ UNCHANGED <<tries, offset, reported, ending>> /\ UNCHANGED breakerVars
    BY DEF Reconnects, breakerVars
  <1>2. Breaker!TypeOK' /\ isOpen' = isOpen /\ ~isOpen
    BY <1>1, BreakerKeepsType, BatchFacts DEF PostgresRuns, IInv, TypeOK
  <1>3. attempt' \in 0..MaxAttempts - 1 /\ tries' \in 0..MaxAttempts - 1
    BY <1>1, CrtShConstants DEF PostgresRuns, IInv, TypeOK, PostgresOK
  <1> QED
    BY <1>1, <1>2, <1>3, AgainStep

LEMMA NoReconnectionStep ==
    ASSUME PostgresRuns, UNCHANGED <<given, mode, httpVars>>, Save, ReconnectionFails
    PROVE  IInv' /\ PassStep
  <1>1. pc = "reconnect" /\ UNCHANGED breakerVars
    BY DEF ReconnectionFails
  <1>2. Breaker!TypeOK' /\ isOpen' = isOpen /\ ~isOpen /\ isOpen' \in BOOLEAN
    BY <1>1, BreakerKeepsType, BatchFacts DEF PostgresRuns, IInv, TypeOK
  <1>3. CASE tries < MaxAttempts - 1
    <2>1. tries' = tries + 1 /\ UNCHANGED <<pc, offset, attempt, alive, reported, ending>>
      BY <1>3 DEF ReconnectionFails
    <2>2. tries' \in 0..MaxAttempts - 1
      BY <1>3, <2>1, CrtShConstants DEF PostgresRuns, IInv, TypeOK
    <2>3. /\ attempt' \in 0..MaxAttempts - 1 /\ alive' \in BOOLEAN
          /\ pc' = "reconnect" /\ attempt' < MaxAttempts - 1
      BY <1>1, <2>1 DEF PostgresRuns, IInv, TypeOK, PostgresOK
    <2> QED
      BY <1>2, <2>1, <2>2, <2>3, AgainStep
  <1>4. CASE ~(tries < MaxAttempts - 1)
    <2>1. PostgresReport(Failed) /\ alive' = FALSE
      BY <1>4 DEF ReconnectionFails
    <2> QED
      BY <1>2, <2>1, BatchFailsStep
  <1> QED
    BY <1>3, <1>4

LEMMA OutOfTimeStep ==
    ASSUME PostgresRuns, UNCHANGED <<given, mode, httpVars>>, Save, OutOfTime
    PROVE  IInv' /\ PassStep
  <1>1. /\ ending' = "budget" /\ PostgresForget /\ reported' = reported /\ UNCHANGED breakerVars
    BY DEF OutOfTime, Stop
  <1>2. Breaker!TypeOK'
    BY <1>1, BreakerKeepsType DEF PostgresRuns, IInv, TypeOK
  <1>3. /\ reported' \in [Records -> Outcomes]
        /\ \A r \in Records : reported'[r] # "none" => IsQueued(r)
    BY <1>1 DEF PostgresRuns, IInv, TypeOK, Outcomes, OutcomesOK
  <1>4. IInv'
    BY <1>1, <1>2, <1>3, PostgresEnds
  <1> QED
    BY <1>1, <1>4, NothingReported

LEMMA PostgresStepKeeps ==
    ASSUME IInv, PostgresStep
    PROVE  IInv' /\ PassStep /\ Silent
  <1>1. PostgresRuns /\ UNCHANGED <<given, mode, httpVars>> /\ Save /\ PostgresNext
    BY DEF PostgresStep, PostgresNext, PostgresRuns, Save
  <1>2. IInv' /\ PassStep
    BY <1>1, ConnectStep, NoConnectionStep, QuerySucceedsStep, QueryFailsStep,
       ReconnectStep, NoReconnectionStep, OutOfTimeStep DEF PostgresNext
  <1>3. Silent
    BY <1>1, BatchFacts DEF Silent
  <1> QED
    BY <1>2, <1>3

----------------------------------------------------------------------------
(* Theorems *)

LEMMA EveryStep ==
    ASSUME IInv, [Next]_vars
    PROVE  IInv' /\ (Pass!Begin \/ PassStep) /\ Silent
  <1>1. CASE Begin
    BY <1>1, BeginStep DEF PassStep
  <1>2. CASE HttpReturn \/ HttpBudget \/ Interrupt
    BY <1>2, HttpReturnStep, HttpBudgetStep, InterruptStep
  <1>3. CASE PostgresStep
    BY <1>3, PostgresStepKeeps
  <1>4. CASE \E w \in Workers : HttpWork(w)
    BY <1>4, HttpWorkStep
  <1>5. CASE CalmDown \/ UNCHANGED vars
    BY <1>5, IdleStep
  <1> QED
    BY <1>1, <1>2, <1>3, <1>4, <1>5 DEF Next

THEOREM InvariantHolds == Spec => []IInv
  <1>1. Init => IInv
    BY InvariantHoldsFirst
  <1>2. IInv /\ [Next]_vars => IInv'
    BY EveryStep
  <1> QED
    BY <1>1, <1>2, PTL DEF Spec

\* Every variable of a pass keeps its type, for any records, scenarios,
\* limits, workers and batches: no attempt, position or batch is outside of
\* its range, and no record is selected twice.
THEOREM TypeCorrect == Spec => []TypeOK
  <1>1. IInv => TypeOK
    BY DEF IInv
  <1> QED
    BY <1>1, InvariantHolds, PTL

\* After the circuit opened neither provider sends anything, whatever its
\* workers were about to do.
THEOREM OpenCircuitIsSilent == Spec => SilentWhenOpen
  <1>1. IInv /\ [Next]_vars => [Silent]_vars
    BY EveryStep
  <1>2. Spec => [][Silent]_vars
    BY <1>1, InvariantHolds, PTL DEF Spec
  <1> QED
    BY <1>2 DEF SilentWhenOpen, Silent

\* Both providers implement the pass that run_once relies on: whatever
\* fails, each record is reported at most once and truthfully, a complete
\* pass reported all, and an error shows an open circuit.
THEOREM PassIsImplemented == Spec => ImplementsPass
  <1>1. Init => Pass!Init
    <2> SUFFICES ASSUME Init PROVE Pass!Init
      OBVIOUS
    <2>1. queue = <<>> /\ reported = Unreported /\ ending = "idle"
      BY DEF Init
    <2>2. ToSet(queue) \subseteq Records
      BY <2>1, EmptySeq DEF ToSet
    <2> QED
      BY <2>1, <2>2 DEF Pass!Init, Pass!Contents, Pass!Unreported, Unreported
  <1>2. IInv /\ [Next]_vars => [Pass!Begin \/ Pass!Proceed]_(Pass!passVars)
    BY EveryStep DEF PassStep
  <1> QED
    BY <1>1, <1>2, InvariantHolds, PTL DEF Spec, ImplementsPass, Pass!Spec
=============================================================================
