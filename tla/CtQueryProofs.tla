---------------------------- MODULE CtQueryProofs ---------------------------
(***************************************************************************)
(* The validity window of a CT query misses no certificate that it is for, *)
(* whatever the dates, the calendar and the day of the query.              *)
(***************************************************************************)
EXTENDS CtQuery, FunctionTheorems, FiniteSetTheorems, WellFoundedInduction, TLAPS

----------------------------------------------------------------------------
(* Extreme dates *)

LEMMA LeastNatural ==
    ASSUME NEW T \in SUBSET Nat, T # {}
    PROVE  \E n \in T : \A k \in T : n <= k
  <1> DEFINE Less == {pair \in Nat \X Nat : pair[1] < pair[2]}
  <1>1. IsWellFoundedOn(Less, Nat)
    BY NatLessThanWellFounded DEF OpToRel
  <1> HIDE DEF Less
  <1>2. PICK n \in T : \A k \in T : ~(<<k, n>> \in Less)
    BY <1>1, WFMin
  <1>3. \A k \in T : ~(k < n)
    BY <1>2 DEF Less
  <1> QED
    BY <1>3

LEMMA MinOfDates ==
    ASSUME NEW a \in Int, NEW b \in Int, NEW S \in SUBSET (a..b), S # {}
    PROVE  Min(S) \in S /\ \A y \in S : Min(S) <= y
  <1> DEFINE T == {n \in Nat : a + n \in S}
  <1>1. PICK x \in S : TRUE
    OBVIOUS
  <1>2. x - a \in T
    BY <1>1
  <1>3. PICK n \in T : \A k \in T : n <= k
    BY <1>2, LeastNatural
  <1>4. \A y \in S : y - a \in T
    OBVIOUS
  <1>5. a + n \in S /\ \A y \in S : a + n <= y
    BY <1>3, <1>4
  <1> QED
    BY <1>5 DEF Min

LEMMA MaxOfDates ==
    ASSUME NEW a \in Int, NEW b \in Int, NEW S \in SUBSET (a..b), S # {}
    PROVE  Max(S) \in S /\ \A y \in S : Max(S) >= y
  <1> DEFINE T == {n \in Nat : b - n \in S}
  <1>1. PICK x \in S : TRUE
    OBVIOUS
  <1>2. b - x \in T
    BY <1>1
  <1>3. PICK n \in T : \A k \in T : n <= k
    BY <1>2, LeastNatural
  <1>4. \A y \in S : b - y \in T
    OBVIOUS
  <1>5. b - n \in S
    OBVIOUS
  <1>6. ASSUME NEW y \in S PROVE b - n >= y
    <2>1. n <= b - y /\ n \in Int /\ y \in Int
      BY <1>3, <1>4
    <2> QED
      BY <2>1
  <1> QED
    BY <1>5, <1>6 DEF Max

----------------------------------------------------------------------------
(* The calendar *)

LEMMA DatesAreInts ==
    /\ Dates \subseteq Int
    /\ \A x, z \in Dates : \A y \in Int : x <= y /\ y <= z => y \in Dates
  <1>1. FirstDay[FirstMonth + LongestShift] \in Int /\ FirstDay[LastMonth - LongestShift] \in Int
    BY Calendar DEF Months, LongestShift
  <1> QED
    BY <1>1 DEF Dates

\* Each date is in a month that can be shifted by the longest shift.
LEMMA MonthOfDate ==
    ASSUME NEW date \in Dates
    PROVE  /\ MonthOf[date] \in FirstMonth + LongestShift..LastMonth - LongestShift - 1
           /\ FirstDay[MonthOf[date]] <= date
           /\ date < FirstDay[MonthOf[date] + 1]
  <1> DEFINE m == MonthOf[date]
             low == FirstMonth + LongestShift
             high == LastMonth - LongestShift
  <1>1. m \in FirstMonth..LastMonth - 1 /\ IsMonthOf(m, date)
    <2>1. \E k \in FirstMonth..LastMonth - 1 : IsMonthOf(k, date)
      BY Calendar
    <2>2. m = CHOOSE k \in FirstMonth..LastMonth - 1 : IsMonthOf(k, date)
      BY DEF MonthOf
    <2> QED
      BY <2>1, <2>2
  <1>2. /\ FirstMonth \in Int /\ LastMonth \in Int /\ low \in Int /\ high \in Int
        /\ low \in Months /\ high \in Months /\ m \in Months /\ m + 1 \in Months
        /\ date \in Int /\ \A k \in Months : FirstDay[k] \in Int
    BY <1>1, Calendar, DatesAreInts DEF Months, LongestShift
  <1>3. FirstDay[low] <= date /\ date < FirstDay[high]
    BY <1>2 DEF Dates
  <1>4. FirstDay[m] <= date /\ date < FirstDay[m + 1]
    BY <1>1 DEF IsMonthOf
  <1>5. ~(m + 1 < low) /\ m + 1 # low
    BY <1>2, <1>3, <1>4, Calendar
  <1>6. ~(high < m) /\ m # high
    BY <1>2, <1>3, <1>4, Calendar
  <1>7. m \in low..high - 1
    <2>1. m \in Int /\ low \in Int /\ high \in Int
      BY <1>1, <1>2
    <2> HIDE DEF m, low, high
    <2> QED
      BY <1>5, <1>6, <2>1
  <1> QED
    BY <1>4, <1>7

\* The first days of a month, its successor and their order.
LEMMA MonthsInOrder ==
    ASSUME NEW m \in FirstMonth..LastMonth - 1
    PROVE  /\ m \in Int /\ m \in Months /\ m + 1 \in Months
           /\ FirstDay[m] \in Int /\ FirstDay[m + 1] \in Int
           /\ FirstDay[m] < FirstDay[m + 1]
           /\ \A n \in Months : m < n => FirstDay[m + 1] <= FirstDay[n]
  <1>1. m \in Int /\ m \in Months /\ m + 1 \in Months
    BY Calendar DEF Months
  <1>2. FirstDay[m] \in Int /\ FirstDay[m + 1] \in Int /\ FirstDay[m] < FirstDay[m + 1]
    BY <1>1, Calendar
  <1>3. ASSUME NEW n \in Months, m < n PROVE FirstDay[m + 1] <= FirstDay[n]
    <2>1. n \in Int /\ (m + 1 = n \/ m + 1 < n)
      BY <1>1, <1>3, Calendar DEF Months
    <2>2. FirstDay[n] \in Int
      BY Calendar
    <2>3. CASE m + 1 = n
      BY <1>2, <2>3
    <2>4. CASE m + 1 < n
      BY <1>1, <1>2, <2>2, <2>4, Calendar
    <2> QED
      BY <2>1, <2>3, <2>4
  <1> QED
    BY <1>1, <1>2, <1>3

\* The parts of a shifted date: within its month, at the day of the date or
\* earlier.
LEMMA ShiftedDate ==
    ASSUME NEW x \in Dates, NEW k \in -LongestShift..LongestShift, NEW d \in Int
    PROVE  /\ MonthOf[x] + k \in FirstMonth..LastMonth - 1
           /\ ShiftValidity(x, k, d) \in Int
           /\ FirstDay[MonthOf[x] + k] + d <= ShiftValidity(x, k, d)
           /\ ShiftValidity(x, k, d) < FirstDay[MonthOf[x] + k + 1] + d
           /\ ShiftValidity(x, k, d) <= FirstDay[MonthOf[x] + k] + (x - FirstDay[MonthOf[x]]) + d
           /\ \/ ShiftValidity(x, k, d) = FirstDay[MonthOf[x] + k] + (x - FirstDay[MonthOf[x]]) + d
              \/ ShiftValidity(x, k, d) = FirstDay[MonthOf[x] + k + 1] - 1 + d
  <1> DEFINE m == MonthOf[x]
             t == MonthOf[x] + k
  <1>1. /\ FirstMonth \in Int /\ LastMonth \in Int /\ k \in Int /\ x \in Int
        /\ -60 <= k /\ k <= 60
    BY Calendar, DatesAreInts DEF LongestShift
  <1>2. /\ m \in FirstMonth + 60..LastMonth - 60 - 1
        /\ FirstDay[m] <= x /\ x < FirstDay[m + 1]
    BY MonthOfDate DEF LongestShift
  <1>3. m \in FirstMonth..LastMonth - 1 /\ t \in FirstMonth..LastMonth - 1
    BY <1>1, <1>2
  <1>4. /\ FirstDay[m] \in Int /\ FirstDay[t] \in Int /\ FirstDay[t + 1] \in Int
        /\ FirstDay[t] < FirstDay[t + 1]
    BY <1>3, MonthsInOrder
  <1> DEFINE day == x - FirstDay[m]
             lastDay == FirstDay[t + 1] - FirstDay[t] - 1
  <1>5. ShiftValidity(x, k, d) = FirstDay[t] + (IF day <= lastDay THEN day ELSE lastDay) + d
    BY DEF ShiftValidity
  <1>6. day \in Int /\ lastDay \in Int /\ 0 <= day /\ 0 <= lastDay
    BY <1>1, <1>2, <1>4
  <1> HIDE DEF day, lastDay
  <1>7. CASE day <= lastDay
    <2>1. ShiftValidity(x, k, d) = FirstDay[t] + day + d
      BY <1>5, <1>7
    <2> QED
      BY <1>1, <1>3, <1>4, <1>6, <1>7, <2>1 DEF day, lastDay
  <1>8. CASE ~(day <= lastDay)
    <2>1. ShiftValidity(x, k, d) = FirstDay[t] + lastDay + d
      BY <1>5, <1>8
    <2> QED
      BY <1>1, <1>3, <1>4, <1>6, <1>8, <2>1 DEF day, lastDay
  <1> QED
    BY <1>7, <1>8

LEMMA ShiftIsMonotone ==
    ASSUME NEW x \in Dates, NEW y \in Dates, x <= y,
           NEW k \in -LongestShift..LongestShift, NEW d \in Int
    PROVE  ShiftValidity(x, k, d) <= ShiftValidity(y, k, d)
  <1> DEFINE m == MonthOf[x]
             n == MonthOf[y]
  <1>1. /\ x \in Int /\ y \in Int /\ k \in Int
        /\ m \in FirstMonth..LastMonth - 1 /\ n \in FirstMonth..LastMonth - 1
        /\ FirstDay[m] <= x /\ x < FirstDay[m + 1]
        /\ FirstDay[n] <= y /\ y < FirstDay[n + 1]
    BY DatesAreInts, MonthOfDate, Calendar DEF LongestShift
  <1>2. /\ m + k \in FirstMonth..LastMonth - 1 /\ n + k \in FirstMonth..LastMonth - 1
        /\ ShiftValidity(x, k, d) \in Int /\ ShiftValidity(y, k, d) \in Int
        /\ ShiftValidity(x, k, d) < FirstDay[m + k + 1] + d
        /\ FirstDay[n + k] + d <= ShiftValidity(y, k, d)
    BY ShiftedDate
  <1>3. m <= n
    <2>1. SUFFICES ASSUME n < m PROVE FALSE
      BY <1>1, MonthsInOrder
    <2>2. FirstDay[n + 1] <= FirstDay[m] /\ FirstDay[n + 1] \in Int /\ FirstDay[m] \in Int
      BY <1>1, <2>1, MonthsInOrder
    <2> QED
      BY <1>1, <2>2
  <1>4. CASE m = n
    <2> DEFINE t == m + k
    <2>1. /\ ShiftValidity(x, k, d) <= FirstDay[t] + (x - FirstDay[m]) + d
          /\ \/ ShiftValidity(y, k, d) = FirstDay[t] + (y - FirstDay[m]) + d
             \/ ShiftValidity(y, k, d) = FirstDay[t + 1] - 1 + d
      BY <1>4, ShiftedDate
    <2>2. FirstDay[t] \in Int /\ FirstDay[t + 1] \in Int /\ FirstDay[m] \in Int
      BY <1>1, <1>2, MonthsInOrder
    <2> QED
      BY <1>1, <1>2, <2>1, <2>2
  <1>5. CASE m < n
    <2>1. /\ m + k < n + k /\ n + k \in Months
          /\ FirstDay[m + k + 1] \in Int /\ FirstDay[n + k] \in Int
      BY <1>1, <1>2, <1>5, MonthsInOrder
    <2>2. FirstDay[m + k + 1] <= FirstDay[n + k]
      BY <1>2, <2>1, MonthsInOrder
    <2> QED
      BY <1>2, <2>1, <2>2
  <1> QED
    BY <1>1, <1>3, <1>4, <1>5

\* Clamping to the end of a month never moves a shift back beyond its start.
LEMMA ShiftBack ==
    ASSUME NEW x \in Dates, NEW y \in Dates,
           NEW k \in 0..LongestShift, NEW d \in Int, k = 0 \/ d = 0,
           y < ShiftValidity(x, k, d)
    PROVE  ShiftValidity(y, -k, -d) <= x
  <1> DEFINE m == MonthOf[x]
             n == MonthOf[y]
  <1>1. /\ x \in Int /\ y \in Int /\ k \in Int /\ -k \in Int /\ -d \in Int
        /\ k \in -LongestShift..LongestShift /\ -k \in -LongestShift..LongestShift
        /\ m \in FirstMonth..LastMonth - 1 /\ n \in FirstMonth..LastMonth - 1
        /\ m \in Int /\ n \in Int
        /\ FirstDay[m] <= x /\ x < FirstDay[m + 1]
        /\ FirstDay[n] <= y /\ y < FirstDay[n + 1]
    BY DatesAreInts, MonthOfDate, Calendar DEF LongestShift
  <1>2. /\ m + k \in FirstMonth..LastMonth - 1
        /\ ShiftValidity(x, k, d) \in Int
        /\ ShiftValidity(x, k, d) < FirstDay[m + k + 1] + d
        /\ ShiftValidity(x, k, d) <= FirstDay[m + k] + (x - FirstDay[m]) + d
    BY <1>1, ShiftedDate
  <1>3. /\ n + (-k) \in FirstMonth..LastMonth - 1
        /\ ShiftValidity(y, -k, -d) \in Int
        /\ ShiftValidity(y, -k, -d) < FirstDay[n + (-k) + 1] + (-d)
        /\ ShiftValidity(y, -k, -d) <= FirstDay[n + (-k)] + (y - FirstDay[n]) + (-d)
    BY <1>1, ShiftedDate
  <1>4. FirstDay[m] \in Int /\ FirstDay[n] \in Int
    BY <1>1, MonthsInOrder
  <1>5. CASE k = 0
    <2>1. m + k = m /\ n + (-k) = n
      BY <1>1, <1>5
    <2>2. ShiftValidity(x, k, d) <= x + d
      BY <1>1, <1>2, <1>4, <2>1
    <2>3. ShiftValidity(y, -k, -d) <= y - d
      BY <1>1, <1>3, <1>4, <2>1
    <2> QED
      BY <1>1, <1>2, <1>3, <2>2, <2>3
  <1>6. CASE d = 0
    <2>1. n <= m + k
      <3>1. SUFFICES ASSUME m + k < n PROVE FALSE
        BY <1>1
      <3>2. FirstDay[m + k + 1] <= FirstDay[n] /\ FirstDay[m + k + 1] \in Int
        BY <1>1, <1>2, <3>1, MonthsInOrder
      <3> QED
        BY <1>1, <1>2, <1>4, <1>6, <3>2
    <2>2. CASE n = m + k
      <3>1. n + (-k) = m
        BY <1>1, <2>2
      <3> QED
        BY <1>1, <1>2, <1>3, <1>4, <1>6, <2>2, <3>1
    <2>3. CASE n < m + k
      <3>1. n + (-k) < m /\ m \in Months
        BY <1>1, <2>3, MonthsInOrder
      <3>2. FirstDay[n + (-k) + 1] <= FirstDay[m] /\ FirstDay[n + (-k) + 1] \in Int
        BY <1>3, <3>1, MonthsInOrder
      <3> QED
        BY <1>1, <1>3, <1>4, <1>6, <3>2
    <2> QED
      BY <1>1, <2>1, <2>2, <2>3
  <1> QED
    BY <1>5, <1>6

----------------------------------------------------------------------------
(* The rules *)

\* Every rule counts months or days, and its shift stays in the calendar.
LEMMA RulesShift ==
    ASSUME NEW p \in Periods
    PROVE  /\ p \in 1..7
           /\ TlsValidityPeriods[p].months \in 0..LongestShift
           /\ TlsValidityPeriods[p].days \in Int
           /\ TlsValidityPeriods[p].months = 0 \/ TlsValidityPeriods[p].days = 0
           /\ 1 \in Periods
  <1>1. Periods = 1..7
    BY DEF Periods, TlsValidityPeriods
  <1>2. p = 1 \/ p = 2 \/ p = 3 \/ p = 4 \/ p = 5 \/ p = 6 \/ p = 7
    BY <1>1
  <1>3. \A q \in {1, 2, 3, 4, 5, 6, 7} :
           /\ TlsValidityPeriods[q].months \in {0, 39, 60}
           /\ TlsValidityPeriods[q].days \in {0, 825, 398, 200, 100, 47}
           /\ TlsValidityPeriods[q].months = 0 \/ TlsValidityPeriods[q].days = 0
    BY DEF TlsValidityPeriods, Rule
  <1> QED
    BY <1>1, <1>2, <1>3 DEF LongestShift

LEMMA UsableAreDates ==
    /\ Start(1) \in Int /\ Today \in Int
    /\ \A x \in Int : Start(1) - 1 <= x /\ x <= Today + 1 => x \in Dates
  <1>1. Start(1) \in Int
    BY RulesShift, Calendar DEF Periods, TlsValidityPeriods
  <1>2. Today \in Int /\ Start(1) - 1 \in Dates /\ Today + 1 \in Dates
    BY Calendar
  <1> QED
    BY <1>1, <1>2, DatesAreInts

(***************************************************************************)
(* _validity_window (ct_client.py): a certificate of the rules at its      *)
(* issuance that was valid on the revocation date of one of the records is *)
(* within the window of their query, for any dates the query may be for:   *)
(* neither the clamping of months nor the union of the windows of several  *)
(* dates nor a rule that has changed since loses it.                       *)
(***************************************************************************)
THEOREM WindowIsComplete ==
    ASSUME NEW S, \A date \in S : IsUsable(date),
           NEW date \in S, NEW certificate,
           certificate.notBefore \in Int, certificate.notAfter \in Int,
           Conforms(certificate), ValidOn(certificate, date)
    PROVE  InValidityWindow(S, certificate)
  <1> DEFINE nb == certificate.notBefore
             na == certificate.notAfter
             earliest == Min(S) - 1
             latest == Max(S) + 1
  <1>1. S \subseteq Start(1)..Today /\ S # {} /\ Start(1) \in Int /\ Today \in Int
    BY UsableAreDates DEF IsUsable
  <1>2. /\ Min(S) \in S /\ Min(S) <= date
        /\ Max(S) \in S /\ Max(S) >= date
    BY <1>1, MinOfDates, MaxOfDates
  <1>3. /\ date \in Int /\ earliest \in Dates /\ latest \in Dates
        /\ earliest \in Int /\ latest \in Int
        /\ earliest < date /\ date < latest /\ date <= Today
    <2>1. /\ Min(S) \in Int /\ Start(1) <= Min(S) /\ Min(S) <= Today
          /\ Max(S) \in Int /\ Start(1) <= Max(S) /\ Max(S) <= Today
          /\ date \in Int /\ date <= Today
      <3>1. ASSUME NEW y \in S PROVE y \in Int /\ Start(1) <= y /\ y <= Today
        <4>1. y \in Start(1)..Today
          BY <1>1
        <4> QED
          BY <1>1, <4>1
      <3> QED
        BY <1>2, <3>1
    <2>2. /\ earliest \in Int /\ Start(1) - 1 <= earliest /\ earliest <= Today + 1
          /\ latest \in Int /\ Start(1) - 1 <= latest /\ latest <= Today + 1
          /\ earliest < date /\ date < latest
      <3>1. \A lo, hi, x, first, today \in Int :
               lo <= x /\ x <= hi /\ first <= lo /\ hi <= today
               => /\ lo - 1 \in Int /\ first - 1 <= lo - 1 /\ lo - 1 <= today + 1
                  /\ hi + 1 \in Int /\ first - 1 <= hi + 1 /\ hi + 1 <= today + 1
                  /\ lo - 1 < x /\ x < hi + 1
        OBVIOUS
      <3>2. Min(S) <= date /\ date <= Max(S)
        BY <1>2, <2>1
      <3> QED
        BY <1>1, <2>1, <3>1, <3>2
    <2>3. earliest \in Dates /\ latest \in Dates
      BY <2>2, UsableAreDates
    <2> QED
      BY <2>1, <2>2, <2>3
  <1>4. nb <= date /\ date <= na /\ nb \in Int /\ na \in Int
    BY DEF ValidOn
  <1>5. PICK p \in Periods : /\ Start(p) <= nb /\ Ends(p, nb)
                             /\ na <= Expiry(p, nb)
    BY DEF Conforms
  <1> DEFINE k == TlsValidityPeriods[p].months
             d == TlsValidityPeriods[p].days
             end == LastIssue(p, latest)
  <1>6. /\ k \in 0..LongestShift /\ d \in Int /\ (k = 0 \/ d = 0)
        /\ k \in -LongestShift..LongestShift /\ -k \in -LongestShift..LongestShift /\ -d \in Int
    BY RulesShift DEF LongestShift
  <1>7. Start(p) \in Int /\ Start(1) <= Start(p)
    BY <1>1, RulesShift, Calendar
  <1>8. nb \in Dates
    BY <1>1, <1>3, <1>4, <1>5, <1>7, UsableAreDates
  <1>9. Expired(p, earliest) <= nb /\ Expired(p, earliest) \in Int
    <2>1. Expiry(p, nb) = ShiftValidity(nb, k, d) /\ Expiry(p, nb) \in Int
      BY <1>6, <1>8, ShiftedDate DEF Expiry
    <2>2. earliest < ShiftValidity(nb, k, d)
      BY <1>3, <1>4, <1>5, <2>1
    <2>3. ShiftValidity(earliest, -k, -d) <= nb
      BY <1>3, <1>6, <1>8, <2>2, ShiftBack
    <2>4. ShiftValidity(earliest, -k, -d) \in Int
      BY <1>3, <1>6, ShiftedDate
    <2> QED
      BY <2>3, <2>4 DEF Expired
  <1>10. FirstIssue(p, earliest) <= nb /\ FirstIssue(p, earliest) \in Int
    BY <1>5, <1>7, <1>9 DEF FirstIssue
  <1>11. nb <= end /\ end <= latest /\ end \in Int
    <2>1. CASE Ends(p, latest)
      BY <1>3, <1>4, <2>1 DEF LastIssue
    <2>2. CASE ~Ends(p, latest)
      <3>1. p + 1 \in Periods /\ ~(latest < Start(p + 1)) /\ end = Start(p + 1) - 1
        BY <2>2 DEF Ends, LastIssue
      <3>2. nb < Start(p + 1) /\ Start(p + 1) \in Int
        BY <1>5, <3>1, Calendar DEF Ends
      <3> QED
        BY <1>3, <1>4, <3>1, <3>2
    <2> QED
      BY <2>1, <2>2
  <1>12. p \in Relevant(earliest, latest)
    BY <1>4, <1>10, <1>11 DEF Relevant
  <1>13. end \in Dates
    BY <1>3, <1>8, <1>11, DatesAreInts
  <1>14. na <= Expiry(p, end)
    <2>1. ShiftValidity(nb, k, d) <= ShiftValidity(end, k, d)
      BY <1>6, <1>8, <1>11, <1>13, ShiftIsMonotone
    <2>2. ShiftValidity(nb, k, d) \in Int /\ ShiftValidity(end, k, d) \in Int
      BY <1>6, <1>8, <1>13, ShiftedDate
    <2> QED
      BY <1>4, <1>5, <2>1, <2>2 DEF Expiry
  <1>15. nb <= latest /\ earliest <= na
    BY <1>3, <1>4
  <1> QED
    BY <1>10, <1>12, <1>14, <1>15 DEF InValidityWindow

----------------------------------------------------------------------------
(* The inductive invariant *)

Holding == {b \in Batches : HoldsSlot(b)}
Asleep == {b \in Batches : pc[b] = "asleep"}

\* Sleepers are what may still be sent after the circuit opened.
SlotsKept ==
    /\ Cardinality(Holding) <= Concurrency
    /\ IF isOpen THEN late + Cardinality(Asleep) < Concurrency ELSE late = 0

\* The records of a stack of chunks.
Covered(stack) == UNION {stack[i] : i \in DOMAIN stack}

Apart(stack) ==
    \A i, j \in DOMAIN stack : i # j => stack[i] \cap stack[j] = {}

Unsettled(b) == Covered(chunks[b])

\* Chunks do not overlap and hold the records that wait for this query.
StackOK(b) ==
    /\ Apart(chunks[b])
    /\ \A r \in b : IF r \in Unsettled(b)
                    THEN result[r] = IF wide[b] THEN "not_found" ELSE "none"
                    ELSE result[r] # "none"
    /\ wide[b] => fullHistory /\ b \subseteq Dated

\* The service has no certificate of r that was valid when r was revoked.
Beyond(r) == server[r] \in Certificates => <<r, server[r]>> \notin ValidWhenRevoked

\* The second query of r is still to come or to be answered.
Requeried(b, r) ==
    /\ pc[b] # "done" /\ fullHistory /\ b \subseteq Dated
    /\ wide[b] => r \in Unsettled(b)

VerdictsOK(b) ==
    \A r \in b :
        /\ result[r] = "found" => server[r] \in Certificates
        /\ result[r] = "not_found" =>
              /\ Beyond(r)
              /\ Promise(r) # "usable" \/ Requeried(b, r)

ErrorsShow ==
    /\ \A r \in Invalid : result[r] = "error"
    /\ isOpen => \E r \in Records : result[r] = "error"

IInv ==
    /\ TypeOK /\ SlotsKept /\ ErrorsShow
    /\ \A b \in Batches : StackOK(b) /\ VerdictsOK(b)
    /\ returned => Finished

----------------------------------------------------------------------------
(* Batches *)

LEMMA RecordsFinite == IsFiniteSet(Records)
  <1>1. Selected \in Seq(Records) /\ Records = {Selected[i] : i \in 1..Len(Selected)}
    BY CtConstants DEF Records, ToSet
  <1>2. Selected \in Surjection(1..Len(Selected), Records)
    BY <1>1 DEF Surjection
  <1>3. IsFiniteSet(1..Len(Selected))
    BY <1>1, FS_Interval
  <1> QED
    BY <1>2, <1>3, FS_Surjection

\* Each record that can be queried is in one batch, of dated records or of
\* records without a date.
LEMMA BatchesPartition ==
    /\ IsFiniteSet(Batches)
    /\ \A b \in Batches : /\ b \subseteq Records /\ b \cap Invalid = {} /\ b # {}
                          /\ IsFiniteSet(b)
                          /\ b \subseteq Dated \/ b \cap Dated = {}
    /\ \A b, c \in Batches : \A r \in b : r \in c => b = c
    /\ \A r \in Records \ Invalid : \E b \in Batches : r \in b
  <1>1. ASSUME NEW r \in Records \ Invalid
        PROVE  /\ r \in Batch(r) /\ Batch(r) \subseteq Group(r)
               /\ Group(r) \subseteq Records \ Invalid
               /\ Group(r) \subseteq Dated \/ Group(r) \cap Dated = {}
    BY DEF Batch, Group
  <1>2. ASSUME NEW q \in Records \ Invalid, NEW r \in Records \ Invalid, q \in Batch(r)
        PROVE  Batch(q) = Batch(r)
    <2>1. Group(q) = Group(r)
      BY <1>2 DEF Batch, Group
    <2> QED
      BY <1>2, <2>1 DEF Batch
  <1>3. ASSUME NEW b \in Batches, NEW c \in Batches, NEW r \in b, r \in c
        PROVE  b = c
    <2>1. b = Batch(r) /\ c = Batch(r)
      BY <1>1, <1>2, <1>3 DEF Batches
    <2> QED
      BY <2>1
  <1>4. ASSUME NEW b \in Batches
        PROVE  /\ b \subseteq Records /\ b \cap Invalid = {} /\ b # {}
               /\ b \subseteq Dated \/ b \cap Dated = {}
    BY <1>1 DEF Batches
  <1>5. IsFiniteSet(Batches)
    <2> DEFINE f == [r \in Records \ Invalid |-> Batch(r)]
    <2>1. f \in Surjection(Records \ Invalid, Batches)
      BY DEF Batches, Surjection
    <2>2. IsFiniteSet(Records \ Invalid)
      BY RecordsFinite, FS_Difference
    <2> QED
      BY <2>1, <2>2, FS_Surjection
  <1>6. \A b \in Batches : IsFiniteSet(b)
    BY <1>4, RecordsFinite, FS_Subset
  <1>7. \A r \in Records \ Invalid : \E b \in Batches : r \in b
    BY <1>1 DEF Batches
  <1> QED
    BY <1>3, <1>4, <1>5, <1>6, <1>7

\* The records of a batch are in a strict total order.
LEMMA BeforeIsOrder ==
    ASSUME NEW b \in Batches, NEW x \in b, NEW y \in b, NEW z \in b
    PROVE  /\ ~Before(x, x)
           /\ Before(x, y) /\ Before(y, z) => Before(x, z)
           /\ x # y => Before(x, y) \/ Before(y, x)
  <1> DEFINE index(r) == CHOOSE i \in DOMAIN Selected : Selected[i] = r
             earlier(q, r) == \E i, j \in DOMAIN Selected :
                                 i < j /\ Selected[i] = q /\ Selected[j] = r
  <1>1. /\ DOMAIN Selected \subseteq Int
        /\ \A i, j \in DOMAIN Selected : Selected[i] = Selected[j] => i = j
    BY CtConstants DEF IsInjective
  <1>2. ASSUME NEW r \in Records
        PROVE  index(r) \in DOMAIN Selected /\ Selected[index(r)] = r
    BY DEF Records, ToSet
  <1>3. x \in Records /\ y \in Records /\ z \in Records
    BY BatchesPartition
  <1>4. ASSUME NEW q \in Records, NEW r \in Records
        PROVE  earlier(q, r) <=> index(q) < index(r)
    BY <1>1, <1>2
  <1>5. /\ index(x) \in Int /\ index(y) \in Int /\ index(z) \in Int
        /\ x # y => index(x) # index(y)
    BY <1>1, <1>2, <1>3
  <1>6. \A q, r : Before(q, r) <=> IF q \in Dated /\ Revoked[q] # Revoked[r]
                                   THEN Revoked[q] > Revoked[r] ELSE earlier(q, r)
    BY DEF Before
  <1> HIDE DEF index, earlier
  <1>7. CASE b \cap Dated = {}
    BY <1>3, <1>4, <1>5, <1>6, <1>7
  <1>8. CASE b \subseteq Dated
    <2>1. Revoked[x] \in Int /\ Revoked[y] \in Int /\ Revoked[z] \in Int
      BY <1>8, UsableAreDates DEF Dated, IsUsable
    <2> QED
      BY <1>3, <1>4, <1>5, <1>6, <1>8, <2>1
  <1> QED
    BY <1>7, <1>8, BatchesPartition

\* Each half of a chunk has records of its own.
LEMMA HalvesSplit ==
    ASSUME NEW b \in Batches, NEW S \in SUBSET b, Cardinality(S) > 1
    PROVE  \E first, second \in (SUBSET b) \ {{}} :
              /\ Halves(S) = <<first, second>>
              /\ first \cup second = S /\ first \cap second = {}
  <1> DEFINE n == Cardinality(S)
             f == [r \in S |-> Position(S, r)]
             first == {r \in S : Position(S, r) < n \div 2}
  <1>1. IsFiniteSet(S) /\ n \in Nat /\ n > 1
    BY BatchesPartition, FS_Subset, FS_CardinalityType
  <1>2. ASSUME NEW q \in S, NEW r \in S
        PROVE  /\ Position(S, r) \in 0..n - 1
               /\ Before(q, r) => Position(S, q) < Position(S, r)
    <2> DEFINE below(x) == {p \in S : Before(p, x)}
    <2>1. /\ IsFiniteSet(below(r)) /\ Cardinality(below(r)) \in Nat
          /\ IsFiniteSet(below(q)) /\ Cardinality(below(q)) \in Nat
      BY <1>1, FS_Subset, FS_CardinalityType
    <2>2. below(r) \subseteq S /\ r \notin below(r)
      BY BeforeIsOrder
    <2>3. Cardinality(below(r)) <= n /\ Cardinality(below(r)) # n
      BY <1>1, <2>2, FS_Subset
    <2>4. ASSUME Before(q, r) PROVE Cardinality(below(q)) < Cardinality(below(r))
      <3>1. below(q) \subseteq below(r) /\ q \in below(r) /\ q \notin below(q)
        BY <2>4, BeforeIsOrder
      <3>2. /\ Cardinality(below(q)) <= Cardinality(below(r))
            /\ Cardinality(below(q)) # Cardinality(below(r))
        BY <2>1, <3>1, FS_Subset
      <3> QED
        BY <2>1, <3>2
    <2> QED
      BY <1>1, <2>1, <2>3, <2>4 DEF Position
  <1>3. f \in Injection(S, 0..n - 1)
    <2>1. ASSUME NEW q \in S, NEW r \in S, q # r PROVE f[q] # f[r]
      <3>1. Before(q, r) \/ Before(r, q)
        BY <2>1, BeforeIsOrder
      <3> QED
        BY <1>1, <1>2, <3>1
    <2>2. f \in [S -> 0..n - 1]
      BY <1>2
    <2> QED
      BY <2>1, <2>2 DEF Injection, IsInjective
  <1>4. f \in Surjection(S, 0..n - 1)
    <2>1. IsFiniteSet(0..n - 1) /\ Cardinality(0..n - 1) = n
      BY <1>1, FS_Interval
    <2> QED
      BY <1>3, <2>1, FS_Injection
  <1>5. n \div 2 \in Nat /\ 0 < n \div 2 /\ n \div 2 <= n - 1
    BY <1>1
  <1>6. \A k \in 0..n - 1 : \E r \in S : Position(S, r) = k
    <2>1. \A k \in 0..n - 1 : \E r \in S : f[r] = k
      BY <1>4 DEF Surjection
    <2> QED
      BY <2>1
  <1>7. PICK r \in S : Position(S, r) = 0
    BY <1>1, <1>6
  <1>8. PICK q \in S : Position(S, q) = n - 1
    BY <1>1, <1>6
  <1>9. r \in first /\ q \in S \ first
    BY <1>1, <1>5, <1>7, <1>8
  <1>10. Halves(S) = <<first, S \ first>>
    BY DEF Halves
  <1>11. first \in (SUBSET b) \ {{}} /\ S \ first \in (SUBSET b) \ {{}}
    BY <1>9
  <1> QED
    BY <1>10, <1>11

----------------------------------------------------------------------------
(* Chunks of a batch *)

LEMMA StackPopped ==
    ASSUME NEW T, NEW stack \in Seq((SUBSET T) \ {{}}), stack # <<>>, Apart(stack)
    PROVE  /\ stack[1] \in (SUBSET T) \ {{}}
           /\ Tail(stack) \in Seq((SUBSET T) \ {{}}) /\ Apart(Tail(stack))
           /\ Covered(Tail(stack)) = Covered(stack) \ stack[1]
           /\ stack[1] \subseteq Covered(stack)
           /\ Tail(stack) = <<>> <=> Len(stack) = 1
  <1> DEFINE rest == Tail(stack)
  <1>1. /\ Len(stack) \in Nat /\ Len(stack) >= 1 /\ DOMAIN stack = 1..Len(stack)
        /\ rest \in Seq((SUBSET T) \ {{}}) /\ Len(rest) = Len(stack) - 1
        /\ DOMAIN rest = 1..Len(rest)
        /\ \A i \in 1..Len(rest) : rest[i] = stack[i + 1]
    OBVIOUS
  <1> HIDE DEF rest
  <1>2. \A i \in DOMAIN rest : i + 1 \in DOMAIN stack /\ rest[i] = stack[i + 1] /\ i \in Int
    BY <1>1
  <1>3. \A j \in DOMAIN stack : j # 1 => j - 1 \in DOMAIN rest /\ stack[j] = rest[j - 1]
    BY <1>1
  <1>4. Apart(rest)
    BY <1>2 DEF Apart
  <1>5. Covered(rest) = Covered(stack) \ stack[1]
    <2>1. ASSUME NEW x \in Covered(rest) PROVE x \in Covered(stack) \ stack[1]
      <3>1. PICK i \in DOMAIN rest : x \in rest[i]
        BY <2>1 DEF Covered
      <3>2. i + 1 \in DOMAIN stack /\ i + 1 # 1 /\ 1 \in DOMAIN stack /\ x \in stack[i + 1]
        BY <1>1, <1>2, <3>1
      <3> QED
        BY <3>2 DEF Covered, Apart
    <2>2. ASSUME NEW x \in Covered(stack), x \notin stack[1] PROVE x \in Covered(rest)
      BY <1>3, <2>2 DEF Covered
    <2> QED
      BY <2>1, <2>2
  <1>6. stack[1] \in (SUBSET T) \ {{}} /\ stack[1] \subseteq Covered(stack)
    BY <1>1 DEF Covered
  <1>7. rest = <<>> <=> Len(stack) = 1
    BY <1>1
  <1> QED
    BY <1>1, <1>4, <1>5, <1>6, <1>7 DEF rest

\* The stack of chunks before and after its first is split.
IsSplitOf(next, stack, first, second) ==
    /\ next = <<first, second>> \o Tail(stack)
    /\ first \cup second = stack[1] /\ first \cap second = {}

GoodStack(T, stack) ==
    stack \in Seq((SUBSET T) \ {{}}) /\ stack # <<>> /\ Apart(stack)

SameRecords(next, stack) == Covered(next) = Covered(stack)

LEMMA StackSplit ==
    ASSUME NEW T, NEW stack, GoodStack(T, stack),
           NEW first \in (SUBSET T) \ {{}}, NEW second \in (SUBSET T) \ {{}},
           NEW next, IsSplitOf(next, stack, first, second)
    PROVE  GoodStack(T, next) /\ SameRecords(next, stack)
  <1> DEFINE rest == Tail(stack)
  <1>1. /\ stack[1] \in (SUBSET T) \ {{}}
        /\ rest \in Seq((SUBSET T) \ {{}}) /\ Apart(rest)
        /\ Covered(rest) = Covered(stack) \ stack[1]
        /\ stack[1] \subseteq Covered(stack)
    BY StackPopped DEF GoodStack
  <1>2. /\ next = <<first, second>> \o rest
        /\ first \cup second = stack[1] /\ first \cap second = {}
    BY DEF IsSplitOf
  <1> HIDE DEF rest
  <1>3. /\ next \in Seq((SUBSET T) \ {{}}) /\ Len(next) = Len(rest) + 2 /\ Len(rest) \in Nat
        /\ next[1] = first /\ next[2] = second
        /\ \A i \in 1..Len(rest) : next[i + 2] = rest[i]
        /\ DOMAIN next = 1..Len(next) /\ DOMAIN rest = 1..Len(rest)
    BY <1>1, <1>2
  <1>4. \A i \in DOMAIN next : \/ i = 1 /\ next[i] = first
                               \/ i = 2 /\ next[i] = second
                               \/ i - 2 \in DOMAIN rest /\ next[i] = rest[i - 2] /\ i \in Int
    BY <1>3
  <1>5. 1 \in DOMAIN next /\ 2 \in DOMAIN next /\ \A i \in DOMAIN rest : i + 2 \in DOMAIN next
    BY <1>3
  <1>6. Covered(next) = Covered(rest) \cup first \cup second
    <2>1. ASSUME NEW x \in Covered(next) PROVE x \in Covered(rest) \cup first \cup second
      BY <1>4 DEF Covered
    <2>2. first \subseteq Covered(next) /\ second \subseteq Covered(next)
      BY <1>3, <1>5 DEF Covered
    <2>3. ASSUME NEW x \in Covered(rest) PROVE x \in Covered(next)
      BY <1>3, <1>5 DEF Covered
    <2> QED
      BY <2>1, <2>2, <2>3
  <1>7. /\ \A i \in DOMAIN rest : rest[i] \subseteq Covered(rest)
        /\ Covered(rest) \cap (first \cup second) = {}
    BY <1>1, <1>2 DEF Covered
  <1>8. Apart(next)
    <2> SUFFICES ASSUME NEW i \in DOMAIN next, NEW j \in DOMAIN next, i # j
                 PROVE  next[i] \cap next[j] = {}
      BY DEF Apart
    <2>1. CASE i - 2 \in DOMAIN rest /\ j - 2 \in DOMAIN rest
      <3>1. i - 2 # j - 2
        BY <1>3
      <3>2. next[i] = rest[i - 2] /\ next[j] = rest[j - 2]
        BY <1>3, <2>1
      <3> QED
        BY <1>1, <2>1, <3>1, <3>2 DEF Apart
    <2>2. CASE ~(i - 2 \in DOMAIN rest /\ j - 2 \in DOMAIN rest)
      BY <1>2, <1>4, <1>7, <2>2
    <2> QED
      BY <2>1, <2>2
  <1>9. next # <<>>
    BY <1>3
  <1>10. Covered(next) = Covered(stack)
    BY <1>1, <1>2, <1>6
  <1> QED
    BY <1>3, <1>8, <1>9, <1>10 DEF GoodStack, SameRecords

LEMMA StackOfOne ==
    ASSUME NEW T, NEW S \in (SUBSET T) \ {{}}
    PROVE  /\ <<S>> \in Seq((SUBSET T) \ {{}}) /\ <<S>> # <<>>
           /\ Apart(<<S>>) /\ Covered(<<S>>) = S
  BY DEF Apart, Covered

LEMMA StackOfNone == Apart(<<>>) /\ Covered(<<>>) = {}
  BY DEF Apart, Covered

----------------------------------------------------------------------------
(* The breaker *)

LEMMA WindowPushed ==
    ASSUME NEW w \in Seq({0, 1}), Len(w) <= WindowSize, NEW sample \in {0, 1}
    PROVE  Breaker!Push(w, sample) \in Seq({0, 1}) /\ Len(Breaker!Push(w, sample)) <= WindowSize
  <1> USE BreakerLimits DEF Breaker!Push
  <1>1. CASE Len(w) < WindowSize
    BY <1>1
  <1>2. CASE Len(w) = WindowSize
    <2> DEFINE t == Tail(w)
    <2>1. t \in Seq({0, 1}) /\ Len(t) = WindowSize - 1 /\ Breaker!Push(w, sample) = Append(t, sample)
      BY <1>2
    <2> HIDE DEF t
    <2>2. Append(t, sample) \in Seq({0, 1}) /\ Len(Append(t, sample)) = WindowSize
      BY <2>1
    <2> QED
      BY <2>1, <2>2
  <1> QED
    BY <1>1, <1>2

LEMMA BreakerKeepsType ==
    ASSUME Breaker!TypeOK
    PROVE  /\ isOpen \in BOOLEAN
           /\ Breaker!RecordSuccess => Breaker!TypeOK' /\ isOpen' = isOpen
           /\ \A f \in Failures : Breaker!RecordFailure(f) =>
                 Breaker!TypeOK' /\ isOpen' \in BOOLEAN /\ (isOpen => isOpen')
           /\ UNCHANGED breakerVars => Breaker!TypeOK' /\ isOpen' = isOpen
  <1> USE DEF Breaker!TypeOK
  <1>1. Breaker!RecordSuccess => Breaker!TypeOK' /\ isOpen' = isOpen
    BY WindowPushed DEF Breaker!RecordSuccess
  <1>2. ASSUME NEW f \in Failures, Breaker!RecordFailure(f)
        PROVE  Breaker!TypeOK' /\ isOpen' \in BOOLEAN /\ (isOpen => isOpen')
    <2> DEFINE found == Breaker!OpeningReason(f, recent', consecutiveFailures',
                                              consecutiveRateLimits')
    <2>1. recent' \in Seq({0, 1}) /\ Len(recent') <= WindowSize
      BY <1>2, WindowPushed DEF Breaker!RecordFailure
    <2>2. consecutiveFailures' \in Nat /\ consecutiveRateLimits' \in Nat
      BY <1>2 DEF Breaker!RecordFailure
    <2>3. found \in Breaker!Reasons \cup {Breaker!NotOpen}
      BY DEF Breaker!OpeningReason, Breaker!Reasons, Breaker!NotOpen
    <2>4. /\ isOpen' = (isOpen \/ found # Breaker!NotOpen)
          /\ reason' = IF isOpen THEN reason ELSE found
      BY <1>2 DEF Breaker!RecordFailure
    <2>5. isOpen' \in BOOLEAN /\ reason' \in Breaker!Reasons \cup {Breaker!NotOpen}
      BY <2>3, <2>4
    <2>6. (isOpen' <=> reason' # Breaker!NotOpen) /\ (isOpen => isOpen')
      BY <2>4
    <2> QED
      BY <2>1, <2>2, <2>5, <2>6
  <1>3. UNCHANGED breakerVars => Breaker!TypeOK' /\ isOpen' = isOpen
    BY DEF breakerVars
  <1>4. isOpen \in BOOLEAN
    OBVIOUS
  <1> QED
    BY <1>1, <1>2, <1>3, <1>4

----------------------------------------------------------------------------
(* What an answer says *)

LEMMA PromiseIsGiven ==
    UNCHANGED given => \A r : Promise(r)' = Promise(r) /\ Beyond(r)' = Beyond(r)
  BY DEF given, Promise, Beyond

LEMMA WindowMeaning ==
    \A S, c : <<S, c>> \in InWindow <=>
        S \in DatedQueries /\ c \in Certificates /\ InValidityWindow({Revoked[r] : r \in S}, c)
  <1> DEFINE asked(S) == {c \in Certificates : InValidityWindow({Revoked[r] : r \in S}, c)}
             pairs(S) == {<<S, c>> : c \in asked(S)}
  <1>1. InWindow = UNION {pairs(S) : S \in DatedQueries}
    BY DEF InWindow
  <1>2. \A S, c : c \in asked(S) <=>
           c \in Certificates /\ InValidityWindow({Revoked[r] : r \in S}, c)
    OBVIOUS
  <1> HIDE DEF asked
  <1>3. \A S, T, c : <<S, c>> \in pairs(T) <=> S = T /\ c \in asked(T)
    OBVIOUS
  <1> HIDE DEF pairs
  <1>4. \A S, c : <<S, c>> \in InWindow <=> S \in DatedQueries /\ c \in asked(S)
    BY <1>1, <1>3
  <1> QED
    BY <1>2, <1>4

LEMMA ValidMeaning ==
    \A r, c : <<r, c>> \in ValidWhenRevoked <=>
        r \in Dated /\ c \in Certificates /\ Conforms(c) /\ ValidOn(c, Revoked[r])
  BY DEF ValidWhenRevoked

LEMMA CertificateDates ==
    ASSUME NEW c \in Certificates
    PROVE  c.notBefore \in Int /\ c.notAfter \in Int
  BY CtConstants DEF Certificates, Range

\* A certificate that was valid on the revocation date of its record is asked
\* for by each dated query with the record.
LEMMA ValidIsAskedFor ==
    ASSUME NEW b \in Batches, b \subseteq Dated, NEW S \in SUBSET b, NEW r \in S,
           NEW c, <<r, c>> \in ValidWhenRevoked
    PROVE  <<S, c>> \in InWindow
  <1> DEFINE dates == {Revoked[q] : q \in S}
  <1>1. c \in Certificates /\ Conforms(c) /\ ValidOn(c, Revoked[r])
    BY ValidMeaning
  <1>2. c.notBefore \in Int /\ c.notAfter \in Int
    BY <1>1, CertificateDates
  <1>3. (\A date \in dates : IsUsable(date)) /\ Revoked[r] \in dates
    BY DEF Dated
  <1>4. InValidityWindow(dates, c)
    BY <1>1, <1>2, <1>3, WindowIsComplete
  <1>5. S \in DatedQueries
    BY DEF DatedQueries
  <1> QED
    BY <1>1, <1>4, <1>5, WindowMeaning

\* A record without a certificate in an answer: what may be concluded.
LEMMA MissesAreTrue ==
    ASSUME NEW b \in Batches, Current(b) \in (SUBSET b) \ {{}}, NEW r \in Current(b),
           wide[b] => fullHistory /\ b \subseteq Dated /\ Beyond(r),
           ~InScope(b, r), fullHistory \in BOOLEAN, wide[b] \in BOOLEAN
    PROVE  /\ Beyond(r)
           /\ Promise(r) # "usable" \/ (~wide[b] /\ fullHistory /\ b \subseteq Dated)
  <1>1. CASE server[r] \notin Certificates
    BY <1>1 DEF Beyond, Promise
  <1>2. CASE server[r] \in Certificates /\ wide[b]
    <2>1. server[r] \notin Historical
      BY <1>2 DEF InScope
    <2> QED
      BY <1>2, <2>1 DEF Beyond, Promise
  <1>3. CASE server[r] \in Certificates /\ ~wide[b] /\ b \subseteq Dated
    <2>1. <<Current(b), server[r]>> \notin InWindow
      BY <1>3 DEF InScope
    <2>2. <<r, server[r]>> \notin ValidWhenRevoked
      BY <1>3, <2>1, ValidIsAskedFor
    <2>3. r \in Dated
      BY <1>3
    <2> QED
      BY <1>3, <2>2, <2>3 DEF Beyond, Promise
  <1>4. CASE server[r] \in Certificates /\ ~wide[b] /\ b \cap Dated = {}
    <2>1. r \notin Dated
      BY <1>4
    <2>2. ~(fullHistory => server[r] \in Historical)
      BY <1>4, <2>1 DEF InScope
    <2>3. <<r, server[r]>> \notin ValidWhenRevoked
      BY <2>1, ValidMeaning
    <2> QED
      BY <1>4, <2>2, <2>3 DEF Beyond, Promise
  <1> QED
    BY <1>1, <1>2, <1>3, <1>4, BatchesPartition

----------------------------------------------------------------------------
(* The end of a query *)

Verdicts == {"found", "not_found", "error"}

\* What the outcomes of a query have to be.
Believable(b, outcome) ==
    \A r \in Current(b) :
        /\ outcome[r] \in Verdicts
        /\ outcome[r] = "found" => server[r] \in Certificates
        /\ outcome[r] = "not_found" =>
              /\ Beyond(r)
              /\ Promise(r) # "usable" \/ (~wide[b] /\ fullHistory /\ b \subseteq Dated)

LEMMA CurrentChunk ==
    ASSUME IInv, NEW b \in Batches, pc[b] # "done"
    PROVE  /\ chunks[b] \in Seq((SUBSET b) \ {{}}) /\ chunks[b] # <<>> /\ Apart(chunks[b])
           /\ Current(b) \in (SUBSET b) \ {{}} /\ Current(b) \subseteq Unsettled(b)
           /\ \A r \in Current(b) : result[r] = IF wide[b] THEN "not_found" ELSE "none"
           /\ wide[b] => fullHistory /\ b \subseteq Dated
           /\ wide[b] \in BOOLEAN /\ fullHistory \in BOOLEAN
  <1>1. /\ chunks[b] \in Seq((SUBSET b) \ {{}}) /\ chunks[b] # <<>> /\ StackOK(b)
        /\ wide[b] \in BOOLEAN /\ fullHistory \in BOOLEAN
    BY DEF IInv, TypeOK
  <1>2. /\ Apart(chunks[b]) /\ Current(b) \in (SUBSET b) \ {{}}
        /\ Current(b) \subseteq Unsettled(b)
    BY <1>1, StackPopped DEF StackOK, Current, Unsettled
  <1> QED
    BY <1>1, <1>2 DEF StackOK

\* Of the batches, a query that ends concerns its own only.
LEMMA FinishTypes ==
    ASSUME IInv, NEW b \in Batches, pc[b] # "done", NEW outcome, Finish(b, outcome),
           \A r \in Current(b) : outcome[r] \in Verdicts
    PROVE  /\ pc' \in [Batches -> {"queued", "split", "sent", "asleep", "done"}]
           /\ pc'[b] \in {"split", "queued", "done"}
           /\ \A c \in Batches : c # b => /\ pc'[c] = pc[c] /\ wide'[c] = wide[c]
                                          /\ chunks'[c] = chunks[c]
           /\ wide' \in [Batches -> BOOLEAN]
           /\ attempt' \in [Batches -> 0..MaxRetries - 1]
           /\ result' \in [Records -> {"none", "found", "not_found", "error"}]
           /\ \A r \in Records : r \notin Current(b) => result'[r] = result[r]
           /\ \A r \in Current(b) : result'[r] = outcome[r]
           /\ DOMAIN chunks' = DOMAIN chunks
  <1>1. Current(b) \subseteq b /\ b \subseteq Records
    BY CurrentChunk, BatchesPartition
  <1>2. 0 \in 0..MaxRetries - 1
    BY CtConstants
  <1>3. /\ result' = [r \in Records |-> IF r \in Current(b) THEN outcome[r] ELSE result[r]]
        /\ \E how \in {"split", "queued", "done"} : pc' = [pc EXCEPT ![b] = how]
        /\ \E w \in BOOLEAN : wide' = [wide EXCEPT ![b] = w]
        /\ \E s : chunks' = [chunks EXCEPT ![b] = s]
        /\ attempt' = [attempt EXCEPT ![b] = 0]
    <2>1. wide[b] \in BOOLEAN
      BY CurrentChunk
    <2> QED
      BY <2>1 DEF Finish
  <1>4. /\ pc \in [Batches -> {"queued", "split", "sent", "asleep", "done"}]
        /\ wide \in [Batches -> BOOLEAN] /\ attempt \in [Batches -> 0..MaxRetries - 1]
        /\ result \in [Records -> {"none", "found", "not_found", "error"}]
    BY DEF IInv, TypeOK
  <1> QED
    BY <1>1, <1>2, <1>3, <1>4 DEF Verdicts

LEMMA FinishOwn ==
    ASSUME IInv, NEW b \in Batches, pc[b] # "done", NEW outcome, Finish(b, outcome),
           Believable(b, outcome), UNCHANGED given
    PROVE  /\ chunks'[b] = <<>> <=> pc'[b] = "done"
           /\ chunks'[b] \in Seq((SUBSET b) \ {{}})
           /\ StackOK(b)' /\ VerdictsOK(b)'
  <1> DEFINE rest == Tail(chunks[b])
             results == [r \in Records |-> IF r \in Current(b) THEN outcome[r] ELSE result[r]]
             missing == Unmatched(b, results)
             last == Len(chunks[b]) = 1
             fallback == last /\ ~wide[b] /\ fullHistory /\ b \subseteq Dated /\ missing # {}
  <1>1. /\ result' = results
        /\ chunks' = [chunks EXCEPT ![b] = IF fallback THEN <<missing>> ELSE rest]
        /\ wide' = [wide EXCEPT ![b] = @ \/ fallback]
        /\ pc' = [pc EXCEPT ![b] =
                    IF ~last THEN "split" ELSE IF fallback THEN "queued" ELSE "done"]
    BY DEF Finish
  <1>2. b \in DOMAIN chunks /\ b \in DOMAIN wide /\ b \in DOMAIN pc
    BY DEF IInv, TypeOK
  <1>3. /\ chunks'[b] = IF fallback THEN <<missing>> ELSE rest
        /\ wide'[b] = (wide[b] \/ fallback)
        /\ pc'[b] = IF ~last THEN "split" ELSE IF fallback THEN "queued" ELSE "done"
    BY <1>1, <1>2
  <1>4. /\ Current(b) \in (SUBSET b) \ {{}} /\ b \subseteq Records
        /\ \A r \in Current(b) : result[r] = IF wide[b] THEN "not_found" ELSE "none"
        /\ wide[b] => fullHistory /\ b \subseteq Dated
        /\ wide[b] \in BOOLEAN /\ fullHistory \in BOOLEAN
    BY CurrentChunk, BatchesPartition
  <1>5. /\ rest \in Seq((SUBSET b) \ {{}}) /\ Apart(rest)
        /\ Covered(rest) = Unsettled(b) \ Current(b)
        /\ rest = <<>> <=> last
    BY CurrentChunk, StackPopped DEF Current, Unsettled
  <1>6. StackOK(b) /\ VerdictsOK(b)
    BY DEF IInv
  <1>7. \A r \in b : result'[r] = IF r \in Current(b) THEN outcome[r] ELSE result[r]
    BY <1>1, <1>4
  <1>8. \A r \in b : r \in missing <=> result'[r] = "not_found"
    BY <1>1 DEF Unmatched
  <1>9. missing \subseteq b
    BY DEF Unmatched
  <1>10. fullHistory' = fullHistory /\ \A r : Promise(r)' = Promise(r) /\ Beyond(r)' = Beyond(r)
               /\ server' = server
    BY PromiseIsGiven DEF given
  <1> HIDE DEF rest, results, missing, last, fallback
  <1>11. CASE fallback
    <2>1. /\ missing \in (SUBSET b) \ {{}} /\ last /\ ~wide[b] /\ fullHistory /\ b \subseteq Dated
      BY <1>9, <1>11 DEF fallback
    <2>2. /\ chunks'[b] = <<missing>> /\ wide'[b] = TRUE /\ pc'[b] = "queued"
      BY <1>3, <1>11, <2>1
    <2>3. /\ chunks'[b] \in Seq((SUBSET b) \ {{}}) /\ chunks'[b] # <<>>
          /\ Apart(chunks'[b]) /\ Covered(chunks'[b]) = missing
      BY <2>1, <2>2, StackOfOne
    <2>4. Covered(rest) = {}
      BY <1>5, <2>1, StackOfNone
    <2>5. \A r \in b : result'[r] # "none"
      BY <1>4, <1>5, <1>6, <1>7, <2>4 DEF StackOK, Believable, Verdicts
    <2>6. StackOK(b)'
      BY <1>8, <1>10, <2>1, <2>2, <2>3, <2>5 DEF StackOK, Unsettled
    <2>7. \A r \in b : result'[r] = "not_found" => Requeried(b, r)'
      BY <1>8, <1>10, <2>1, <2>2, <2>3 DEF Requeried, Unsettled
    <2>8. VerdictsOK(b)'
      BY <1>6, <1>7, <1>10, <2>7 DEF VerdictsOK, Believable
    <2> QED
      BY <2>2, <2>3, <2>6, <2>8
  <1>12. CASE ~fallback
    <2>1. /\ chunks'[b] = rest /\ wide'[b] = wide[b]
          /\ pc'[b] = IF ~last THEN "split" ELSE "done"
      BY <1>3, <1>4, <1>12
    <2>2. Unsettled(b)' = Unsettled(b) \ Current(b)
      BY <1>5, <2>1 DEF Unsettled
    <2>3. StackOK(b)'
      BY <1>4, <1>5, <1>6, <1>7, <1>10, <2>1, <2>2 DEF StackOK, Believable, Verdicts
    <2>4. ASSUME NEW r \in b, result'[r] = "not_found"
          PROVE  Beyond(r)' /\ (Promise(r)' # "usable" \/ Requeried(b, r)')
      <3>1. Beyond(r)
        BY <1>6, <1>7, <2>4 DEF VerdictsOK, Believable
      <3>2. CASE Promise(r) # "usable"
        BY <1>10, <3>1, <3>2
      <3>3. CASE Promise(r) = "usable" /\ r \in Current(b)
        <4>1. ~wide[b] /\ fullHistory /\ b \subseteq Dated
          BY <1>7, <2>4, <3>3 DEF Believable
        <4>2. missing # {}
          BY <1>8, <2>4
        <4>3. ~last
          BY <1>12, <4>1, <4>2 DEF fallback
        <4>4. Requeried(b, r)'
          BY <1>10, <2>1, <4>1, <4>3 DEF Requeried
        <4> QED
          BY <1>10, <3>1, <4>4
      <3>4. CASE Promise(r) = "usable" /\ r \notin Current(b)
        <4>1. Requeried(b, r)
          BY <1>6, <1>7, <2>4, <3>4 DEF VerdictsOK
        <4>2. fullHistory /\ b \subseteq Dated /\ (wide[b] => r \in Unsettled(b))
          BY <4>1 DEF Requeried
        <4>3. ~last
          <5>1. CASE wide[b]
            <6>1. Covered(rest) # {}
              BY <1>5, <3>4, <4>2, <5>1
            <6> QED
              BY <1>5, <6>1, StackOfNone
          <5>2. CASE ~wide[b]
            <6>1. missing # {}
              BY <1>8, <2>4
            <6> QED
              BY <1>12, <4>2, <5>2, <6>1 DEF fallback
          <5> QED
            BY <5>1, <5>2
        <4>4. Requeried(b, r)'
          BY <1>10, <2>1, <2>2, <3>4, <4>2, <4>3 DEF Requeried
        <4> QED
          BY <1>10, <3>1, <4>4
      <3> QED
        BY <3>2, <3>3, <3>4
    <2>5. \A r \in b : result'[r] = "found" => server'[r] \in Certificates
      BY <1>6, <1>7, <1>10 DEF VerdictsOK, Believable
    <2>6. VerdictsOK(b)'
      BY <2>4, <2>5 DEF VerdictsOK
    <2> QED
      BY <1>5, <2>1, <2>3, <2>6
  <1> QED
    BY <1>11, <1>12

LEMMA OtherBatch ==
    ASSUME NEW c \in Batches, StackOK(c), VerdictsOK(c),
           pc'[c] = pc[c], wide'[c] = wide[c], chunks'[c] = chunks[c],
           \A r \in c : result'[r] = result[r], UNCHANGED given
    PROVE  StackOK(c)' /\ VerdictsOK(c)'
  <1>1. /\ fullHistory' = fullHistory /\ server' = server
        /\ \A r : Promise(r)' = Promise(r) /\ Beyond(r)' = Beyond(r)
    BY PromiseIsGiven DEF given
  <1>2. Unsettled(c)' = Unsettled(c)
    BY DEF Unsettled
  <1>3. StackOK(c)'
    BY <1>1, <1>2 DEF StackOK
  <1>4. \A r : Requeried(c, r)' = Requeried(c, r)
    BY <1>1, <1>2 DEF Requeried
  <1>5. VerdictsOK(c)'
    BY <1>1, <1>4 DEF VerdictsOK
  <1> QED
    BY <1>3, <1>5

\* All that a query leaves behind when it ends.
LEMMA FinishKeeps ==
    ASSUME IInv, NEW b \in Batches, pc[b] # "done", NEW outcome, Finish(b, outcome),
           Believable(b, outcome), UNCHANGED given
    PROVE  /\ \A c \in Batches : /\ StackOK(c)' /\ VerdictsOK(c)'
                                 /\ chunks'[c] = <<>> <=> pc'[c] = "done"
                                 /\ chunks'[c] \in Seq((SUBSET c) \ {{}})
           /\ \A r \in Records : result[r] = "error" => result'[r] = "error"
           /\ \A r \in Invalid : result'[r] = "error"
  <1>1. /\ \A c \in Batches : c # b => /\ pc'[c] = pc[c] /\ wide'[c] = wide[c]
                                       /\ chunks'[c] = chunks[c]
        /\ \A r \in Records : r \notin Current(b) => result'[r] = result[r]
    BY FinishTypes DEF Believable
  <1>2. /\ Current(b) \subseteq b
        /\ \A r \in Current(b) : result[r] = IF wide[b] THEN "not_found" ELSE "none"
    BY CurrentChunk
  <1>3. ASSUME NEW c \in Batches, c # b
        PROVE  /\ StackOK(c)' /\ VerdictsOK(c)'
               /\ chunks'[c] = <<>> <=> pc'[c] = "done"
               /\ chunks'[c] \in Seq((SUBSET c) \ {{}})
    <2>1. \A r \in c : result'[r] = result[r]
      BY <1>1, <1>2, <1>3, BatchesPartition
    <2>2. StackOK(c) /\ VerdictsOK(c)
      BY DEF IInv
    <2>3. /\ chunks[c] = <<>> <=> pc[c] = "done"
          /\ chunks[c] \in Seq((SUBSET c) \ {{}})
      BY DEF IInv, TypeOK
    <2> QED
      BY <1>1, <1>3, <2>1, <2>2, <2>3, OtherBatch
  <1>4. \A r \in Records : result[r] = "error" => result'[r] = "error"
    BY <1>1, <1>2
  <1>5. \A r \in Invalid : r \in Records /\ result[r] = "error"
    BY DEF IInv, ErrorsShow, Invalid
  <1> QED
    BY <1>3, <1>4, <1>5, FinishOwn

----------------------------------------------------------------------------
(* Slots *)

LEMMA SlotsCounted ==
    ASSUME NEW b \in Batches, \A c \in Batches : c # b => pc'[c] = pc[c]
    PROVE  /\ Cardinality(Holding) \in Nat /\ Cardinality(Asleep) \in Nat
           /\ Cardinality(Holding)' \in Nat /\ Cardinality(Asleep)' \in Nat
           /\ HoldsSlot(b) => Cardinality(Holding)' <= Cardinality(Holding)
           /\ Cardinality(Holding)' <= Cardinality(Holding) + 1
           /\ pc[b] = "sent" => Cardinality(Asleep) < Cardinality(Holding)
           /\ pc'[b] # "asleep" => Cardinality(Asleep)' <= Cardinality(Asleep)
           /\ pc[b] = "asleep" /\ pc'[b] # "asleep" =>
                 Cardinality(Asleep)' = Cardinality(Asleep) - 1
  <1> DEFINE holdingNext == Holding'
             asleepNext == Asleep'
  <1>0. holdingNext = Holding' /\ asleepNext = Asleep'
    OBVIOUS
  <1>1. /\ Holding \subseteq Batches /\ Asleep \subseteq Holding
        /\ holdingNext \subseteq Holding \cup {b} /\ holdingNext \subseteq Batches
        /\ asleepNext \subseteq Asleep \cup {b} /\ asleepNext \subseteq Batches
        /\ HoldsSlot(b) => b \in Holding
        /\ pc[b] = "sent" => b \in Holding /\ b \notin Asleep
        /\ pc'[b] # "asleep" => asleepNext \subseteq Asleep
        /\ pc[b] = "asleep" /\ pc'[b] # "asleep" => b \in Asleep /\ asleepNext = Asleep \ {b}
    BY DEF Holding, Asleep, HoldsSlot
  <1> HIDE DEF holdingNext, asleepNext
  <1>2. IsFiniteSet(Holding) /\ IsFiniteSet(Asleep) /\ IsFiniteSet(holdingNext)
        /\ IsFiniteSet(asleepNext)
    BY <1>1, BatchesPartition, FS_Subset
  <1>3. /\ Cardinality(Holding) \in Nat /\ Cardinality(Asleep) \in Nat
        /\ Cardinality(holdingNext) \in Nat /\ Cardinality(asleepNext) \in Nat
    BY <1>2, FS_CardinalityType
  <1>4. HoldsSlot(b) => Cardinality(holdingNext) <= Cardinality(Holding)
    <2>1. HoldsSlot(b) => holdingNext \subseteq Holding
      BY <1>1
    <2> QED
      BY <1>2, <2>1, FS_Subset
  <1>5. Cardinality(holdingNext) <= Cardinality(Holding) + 1
    <2>1. /\ IsFiniteSet(Holding \cup {b})
          /\ Cardinality(Holding \cup {b}) <= Cardinality(Holding) + 1
      <3>1. /\ IsFiniteSet(Holding \cup {b})
            /\ \/ Cardinality(Holding \cup {b}) = Cardinality(Holding)
               \/ Cardinality(Holding \cup {b}) = Cardinality(Holding) + 1
        BY <1>2, FS_AddElement
      <3> QED
        BY <1>3, <3>1
    <2>2. /\ Cardinality(holdingNext) <= Cardinality(Holding \cup {b})
          /\ Cardinality(Holding \cup {b}) \in Nat
      BY <1>1, <2>1, FS_Subset, FS_CardinalityType
    <2> QED
      BY <1>3, <2>1, <2>2
  <1>6. pc[b] = "sent" => Cardinality(Asleep) < Cardinality(Holding)
    <2>1. Cardinality(Asleep) <= Cardinality(Holding)
          /\ (Cardinality(Holding) = Cardinality(Asleep) => Asleep = Holding)
      BY <1>1, <1>2, FS_Subset
    <2> QED
      BY <1>1, <1>3, <2>1
  <1>7. pc'[b] # "asleep" => Cardinality(asleepNext) <= Cardinality(Asleep)
    BY <1>1, <1>2, FS_Subset
  <1>8. pc[b] = "asleep" /\ pc'[b] # "asleep" =>
           Cardinality(asleepNext) = Cardinality(Asleep) - 1
    BY <1>1, <1>2, FS_RemoveElement
  <1>9. Cardinality(Holding)' = Cardinality(holdingNext) /\ Cardinality(Asleep)' = Cardinality(asleepNext)
    BY <1>0
  <1> QED
    BY <1>3, <1>4, <1>5, <1>6, <1>7, <1>8, <1>9

\* Four ways in which the slots of a coroutine and the breaker go on.
LEMMA SlotsStep ==
    ASSUME IInv, NEW b \in Batches, \A c \in Batches : c # b => pc'[c] = pc[c],
           isOpen' \in BOOLEAN, isOpen => isOpen',
           \/ MayEnter(b) /\ pc'[b] # "asleep" /\ late' = late /\ isOpen' = isOpen
           \/ pc[b] = "sent" /\ pc'[b] # "asleep" /\ late' = late
           \/ pc[b] = "sent" /\ ~isOpen' /\ late' = late
           \/ /\ pc[b] = "asleep" /\ pc'[b] # "asleep" /\ isOpen' = isOpen
              /\ late' = late + (IF isOpen THEN 1 ELSE 0)
    PROVE  SlotsKept' /\ late' \in Nat
  <1>1. /\ Cardinality(Holding) <= Concurrency
        /\ IF isOpen THEN late + Cardinality(Asleep) < Concurrency ELSE late = 0
        /\ late \in Nat /\ Concurrency \in Nat /\ isOpen \in BOOLEAN
    BY CtConstants, BreakerKeepsType DEF IInv, SlotsKept, TypeOK
  <1>2. late' \in Nat
    BY <1>1
  <1>3. CASE MayEnter(b) /\ pc'[b] # "asleep" /\ late' = late /\ isOpen' = isOpen
    <2>1. HoldsSlot(b) \/ Cardinality(Holding) < Concurrency
      BY <1>3 DEF MayEnter, HoldsSlot, Holding
    <2> QED
      BY <1>1, <1>2, <1>3, <2>1, SlotsCounted DEF SlotsKept
  <1>4. CASE pc[b] = "sent" /\ pc'[b] # "asleep" /\ late' = late
    <2>1. HoldsSlot(b)
      BY <1>4 DEF HoldsSlot
    <2> QED
      BY <1>1, <1>2, <1>4, <2>1, SlotsCounted DEF SlotsKept
  <1>5. CASE pc[b] = "sent" /\ ~isOpen' /\ late' = late
    <2>1. HoldsSlot(b)
      BY <1>5 DEF HoldsSlot
    <2> QED
      BY <1>1, <1>2, <1>5, <2>1, SlotsCounted DEF SlotsKept
  <1>6. CASE /\ pc[b] = "asleep" /\ pc'[b] # "asleep" /\ isOpen' = isOpen
             /\ late' = late + (IF isOpen THEN 1 ELSE 0)
    <2>1. HoldsSlot(b)
      BY <1>6 DEF HoldsSlot
    <2> QED
      BY <1>1, <1>2, <1>6, <2>1, SlotsCounted DEF SlotsKept
  <1> QED
    BY <1>3, <1>4, <1>5, <1>6

----------------------------------------------------------------------------
(* Steps *)

\* The parts of the invariant from the parts that a step of b may disturb.
LEMMA StepOfBatch ==
    ASSUME IInv, UNCHANGED <<given, returned>>, NEW b \in Batches, pc[b] # "done",
           pc' \in [Batches -> {"queued", "split", "sent", "asleep", "done"}],
           wide' \in [Batches -> BOOLEAN], DOMAIN chunks' = Batches,
           attempt' \in [Batches -> 0..MaxRetries - 1],
           result' \in [Records -> {"none", "found", "not_found", "error"}],
           Breaker!TypeOK', SlotsKept', late' \in Nat, ErrorsShow',
           \A c \in Batches : /\ StackOK(c)' /\ VerdictsOK(c)'
                              /\ chunks'[c] = <<>> <=> pc'[c] = "done"
                              /\ chunks'[c] \in Seq((SUBSET c) \ {{}})
    PROVE  IInv'
  <1>1. TypeOK'
    BY DEF IInv, TypeOK, given
  <1>2. ~returned
    BY DEF IInv, Finished
  <1>3. returned' => Finished'
    BY <1>2
  <1> QED
    BY <1>1, <1>3 DEF IInv

\* A step after which the coroutine waits for something else with the same
\* chunks.
LEMMA WaitingStep ==
    ASSUME IInv, NEW b \in Batches, pc[b] # "done", NEW where,
           where \in {"queued", "split", "sent", "asleep"},
           pc' = [pc EXCEPT ![b] = where], UNCHANGED <<given, returned, wide, chunks, result>>,
           attempt' \in [Batches -> 0..MaxRetries - 1],
           Breaker!TypeOK', isOpen' = isOpen, SlotsKept', late' \in Nat
    PROVE  IInv'
  <1>1. /\ pc \in [Batches -> {"queued", "split", "sent", "asleep", "done"}]
        /\ wide \in [Batches -> BOOLEAN] /\ DOMAIN chunks = Batches
        /\ result \in [Records -> {"none", "found", "not_found", "error"}]
    BY DEF IInv, TypeOK
  <1>2. /\ wide' = wide /\ chunks' = chunks /\ result' = result /\ UNCHANGED given
    OBVIOUS
  <1>3. pc' \in [Batches -> {"queued", "split", "sent", "asleep", "done"}] /\ pc'[b] = where
    BY <1>1
  <1>4. \A c \in Batches : pc'[c] = "done" <=> pc[c] = "done"
    BY <1>1, <1>3
  <1>5. ErrorsShow'
    BY <1>2 DEF IInv, ErrorsShow, Invalid
  <1>6. \A c \in Batches : c # b => pc'[c] = pc[c]
    BY <1>1
  <1>7. ASSUME NEW c \in Batches
        PROVE  /\ StackOK(c)' /\ VerdictsOK(c)'
               /\ chunks'[c] = <<>> <=> pc'[c] = "done"
               /\ chunks'[c] \in Seq((SUBSET c) \ {{}})
    <2>1. StackOK(c) /\ VerdictsOK(c)
      BY DEF IInv
    <2>2. /\ fullHistory' = fullHistory /\ server' = server
          /\ \A r : Promise(r)' = Promise(r) /\ Beyond(r)' = Beyond(r)
      BY <1>2, PromiseIsGiven DEF given
    <2>3. Unsettled(c)' = Unsettled(c)
      BY <1>2 DEF Unsettled
    <2>4. StackOK(c)'
      BY <1>2, <2>1, <2>2, <2>3 DEF StackOK
    <2>5. \A r : Requeried(c, r)' = Requeried(c, r)
      BY <1>2, <1>4, <2>2, <2>3 DEF Requeried
    <2>6. VerdictsOK(c)'
      BY <1>2, <2>1, <2>2, <2>5 DEF VerdictsOK
    <2>7. /\ chunks[c] = <<>> <=> pc[c] = "done"
          /\ chunks[c] \in Seq((SUBSET c) \ {{}})
      BY DEF IInv, TypeOK
    <2> QED
      BY <1>2, <1>4, <2>4, <2>6, <2>7
  <1> QED
    BY <1>1, <1>2, <1>3, <1>5, <1>7, StepOfBatch

\* A step that ends a query, whatever the breaker learns.
LEMMA EndingStep ==
    ASSUME IInv, NEW b \in Batches, pc[b] # "done", NEW outcome, Finish(b, outcome),
           Believable(b, outcome), UNCHANGED <<given, returned>>,
           Breaker!TypeOK', SlotsKept', late' \in Nat,
           isOpen' => isOpen \/ \A r \in Current(b) : outcome[r] = "error"
    PROVE  IInv'
  <1>1. UNCHANGED given /\ returned' = returned
    OBVIOUS
  <1>2. \A r \in Current(b) : outcome[r] \in Verdicts
    BY DEF Believable
  <1>3. ErrorsShow'
    <2>1. /\ \A r \in Records : result[r] = "error" => result'[r] = "error"
          /\ \A r \in Invalid : result'[r] = "error"
      BY <1>1, FinishKeeps
    <2>2. isOpen' => \E r \in Records : result'[r] = "error"
      <3>1. CASE isOpen
        BY <2>1, <3>1 DEF IInv, ErrorsShow
      <3>2. CASE \A r \in Current(b) : outcome[r] = "error"
        <4>1. Current(b) \in (SUBSET b) \ {{}} /\ b \subseteq Records
          BY CurrentChunk, BatchesPartition
        <4>2. PICK r \in Current(b) : r \in Records
          BY <4>1
        <4>3. result'[r] = "error"
          BY <1>2, <3>2, FinishTypes
        <4> QED
          BY <4>2, <4>3
      <3> QED
        BY <3>1, <3>2
    <2> QED
      BY <2>1, <2>2 DEF ErrorsShow, Invalid
  <1>4. DOMAIN chunks' = Batches
    BY <1>2, FinishTypes DEF IInv, TypeOK
  <1>5. /\ pc' \in [Batches -> {"queued", "split", "sent", "asleep", "done"}]
        /\ wide' \in [Batches -> BOOLEAN]
        /\ attempt' \in [Batches -> 0..MaxRetries - 1]
        /\ result' \in [Records -> {"none", "found", "not_found", "error"}]
    BY <1>2, FinishTypes
  <1>6. \A c \in Batches : /\ StackOK(c)' /\ VerdictsOK(c)'
                           /\ chunks'[c] = <<>> <=> pc'[c] = "done"
                           /\ chunks'[c] \in Seq((SUBSET c) \ {{}})
    BY <1>1, FinishKeeps
  <1> QED
    BY <1>1, <1>3, <1>4, <1>5, <1>6, StepOfBatch

LEMMA InitIsSafe == Init => IInv
  <1> SUFFICES ASSUME Init PROVE IInv
    OBVIOUS
  <1> USE DEF Init
  <1>1. TypeOK
    <2>1. Breaker!TypeOK
      <3>1. /\ recent = <<>> /\ consecutiveFailures = 0 /\ consecutiveRateLimits = 0
            /\ isOpen = FALSE /\ reason = Breaker!NotOpen
        BY DEF Breaker!Init
      <3>2. recent \in Seq({0, 1}) /\ Len(recent) = 0 /\ 0 <= WindowSize
        BY <3>1, BreakerLimits
      <3> QED
        BY <3>1, <3>2 DEF Breaker!TypeOK
    <2>2. \A b \in Batches : /\ chunks[b] = <<b>> /\ pc[b] = "queued"
                             /\ <<b>> \in Seq((SUBSET b) \ {{}}) /\ <<b>> # <<>>
      BY BatchesPartition, StackOfOne
    <2>3. 0 \in 0..MaxRetries - 1
      BY CtConstants
    <2> QED
      BY <2>1, <2>2, <2>3 DEF TypeOK
  <1>2. ~isOpen
    BY DEF Breaker!Init
  <1>3. SlotsKept
    <2>1. Holding = {}
      BY DEF Holding, HoldsSlot
    <2>2. Cardinality(Holding) = 0 /\ Concurrency \in Nat
      BY <2>1, FS_EmptySet, CtConstants
    <2> QED
      BY <1>2, <2>2 DEF SlotsKept
  <1>4. ErrorsShow
    BY <1>2 DEF ErrorsShow, Invalid
  <1>5. ASSUME NEW b \in Batches
        PROVE  StackOK(b) /\ VerdictsOK(b)
    <2>1. Apart(chunks[b]) /\ Unsettled(b) = b
      BY BatchesPartition, StackOfOne DEF Unsettled
    <2>2. \A r \in b : result[r] = "none"
      BY BatchesPartition
    <2> QED
      BY <2>1, <2>2 DEF StackOK, VerdictsOK
  <1> QED
    BY <1>1, <1>3, <1>4, <1>5 DEF IInv

\* A failure ends the query of a coroutine with errors.
LEMMA FailIsBelievable ==
    ASSUME IInv, NEW b \in Batches, pc[b] # "done"
    PROVE  /\ Believable(b, [r \in Records |-> "error"])
           /\ \A r \in Current(b) : [q \in Records |-> "error"][r] = "error"
  <1>1. Current(b) \subseteq Records
    BY CurrentChunk, BatchesPartition
  <1> QED
    BY <1>1 DEF Believable, Verdicts

LEMMA EnterStep ==
    ASSUME IInv, NEW b \in Batches, Enter(b), UNCHANGED returned
    PROVE  IInv'
  <1>1. /\ MayEnter(b) /\ pc[b] # "done" /\ UNCHANGED given /\ UNCHANGED breakerVars
        /\ late' = late
    BY DEF Enter, MayEnter
  <1>2. Breaker!TypeOK' /\ isOpen' = isOpen /\ isOpen \in BOOLEAN
    BY <1>1, BreakerKeepsType DEF IInv, TypeOK
  <1>3. CASE Breaker!AllowRequest
    <2>1. pc' = [pc EXCEPT ![b] = "sent"] /\ UNCHANGED <<wide, chunks, attempt, result>>
      BY <1>3 DEF Enter
    <2>2. /\ pc \in [Batches -> {"queued", "split", "sent", "asleep", "done"}]
          /\ attempt \in [Batches -> 0..MaxRetries - 1]
      BY DEF IInv, TypeOK
    <2>3. SlotsKept' /\ late' \in Nat
      BY <1>1, <1>2, <2>1, <2>2, SlotsStep
    <2> QED
      BY <1>1, <1>2, <2>1, <2>2, <2>3, WaitingStep
  <1>4. CASE ~Breaker!AllowRequest
    <2> DEFINE outcome == [r \in Records |-> "error"]
    <2>1. Finish(b, outcome)
      BY <1>4 DEF Enter, Fail
    <2>2. Believable(b, outcome)
      BY <1>1, FailIsBelievable
    <2> HIDE DEF outcome
    <2>3. pc'[b] # "asleep" /\ \A c \in Batches : c # b => pc'[c] = pc[c]
      BY <1>1, <2>1, <2>2, FinishTypes DEF Believable
    <2>4. SlotsKept' /\ late' \in Nat
      BY <1>1, <1>2, <2>3, SlotsStep
    <2> QED
      BY <1>1, <1>2, <2>1, <2>2, <2>4, EndingStep
  <1> QED
    BY <1>3, <1>4

LEMMA WakeStep ==
    ASSUME IInv, NEW b \in Batches, Wake(b), UNCHANGED returned
    PROVE  IInv'
  <1>1. /\ pc[b] = "asleep" /\ pc' = [pc EXCEPT ![b] = "sent"]
        /\ late' = late + (IF isOpen THEN 1 ELSE 0)
        /\ UNCHANGED <<given, wide, chunks, attempt, result>> /\ UNCHANGED breakerVars
    BY DEF Wake
  <1>2. Breaker!TypeOK' /\ isOpen' = isOpen /\ isOpen \in BOOLEAN
    BY <1>1, BreakerKeepsType DEF IInv, TypeOK
  <1>3. /\ pc \in [Batches -> {"queued", "split", "sent", "asleep", "done"}]
        /\ attempt \in [Batches -> 0..MaxRetries - 1]
    BY DEF IInv, TypeOK
  <1>4. SlotsKept' /\ late' \in Nat
    BY <1>1, <1>2, <1>3, SlotsStep
  <1> QED
    BY <1>1, <1>2, <1>3, <1>4, WaitingStep

LEMMA AnswerStep ==
    ASSUME IInv, NEW b \in Batches, Answer(b), UNCHANGED returned
    PROVE  IInv'
  <1> DEFINE certificates == {r \in Current(b) : InScope(b, r)}
             outcome(usable) == [r \in Records |->
                                    IF r \notin certificates THEN "not_found"
                                    ELSE IF r \in usable THEN "found" ELSE "error"]
  <1>1. /\ pc[b] = "sent" /\ Breaker!RecordSuccess /\ UNCHANGED given /\ late' = late
    BY DEF Answer
  <1>2. PICK usable \in SUBSET certificates : Finish(b, outcome(usable))
    BY DEF Answer
  <1>3. Breaker!TypeOK' /\ isOpen' = isOpen /\ isOpen \in BOOLEAN
    BY <1>1, BreakerKeepsType DEF IInv, TypeOK
  <1>4. /\ Current(b) \in (SUBSET b) \ {{}} /\ b \subseteq Records
        /\ \A r \in Current(b) : result[r] = IF wide[b] THEN "not_found" ELSE "none"
        /\ wide[b] => fullHistory /\ b \subseteq Dated
        /\ wide[b] \in BOOLEAN /\ fullHistory \in BOOLEAN
    BY <1>1, CurrentChunk, BatchesPartition
  <1>5. \A r \in Current(b) : wide[b] => Beyond(r)
    BY <1>4 DEF IInv, VerdictsOK
  <1>6. Believable(b, outcome(usable))
    <2> SUFFICES ASSUME NEW r \in Current(b)
                 PROVE  LET o == outcome(usable)[r] IN
                        /\ o \in Verdicts
                        /\ o = "found" => server[r] \in Certificates
                        /\ o = "not_found" =>
                              /\ Beyond(r)
                              /\ \/ Promise(r) # "usable"
                                 \/ ~wide[b] /\ fullHistory /\ b \subseteq Dated
      BY DEF Believable
    <2>1. r \in Records
      BY <1>4
    <2>2. CASE r \in certificates
      <3>1. server[r] \in Certificates
        BY <2>2 DEF InScope
      <3> QED
        BY <2>1, <2>2, <3>1 DEF Verdicts
    <2>3. CASE r \notin certificates
      <3>1. ~InScope(b, r)
        BY <2>3
      <3>2. /\ Beyond(r)
            /\ Promise(r) # "usable" \/ (~wide[b] /\ fullHistory /\ b \subseteq Dated)
        BY <1>4, <1>5, <3>1, MissesAreTrue
      <3>3. outcome(usable)[r] = "not_found"
        BY <2>1, <2>3
      <3> QED
        BY <3>2, <3>3 DEF Verdicts
    <2> QED
      BY <2>2, <2>3
  <1> HIDE DEF outcome
  <1>7. pc'[b] # "asleep" /\ \A c \in Batches : c # b => pc'[c] = pc[c]
    BY <1>1, <1>2, <1>6, FinishTypes DEF Believable
  <1>8. SlotsKept' /\ late' \in Nat
    BY <1>1, <1>3, <1>7, SlotsStep
  <1> QED
    BY <1>1, <1>2, <1>3, <1>6, <1>8, EndingStep

\* A failed request ends the query with errors, whatever the circuit does.
LEMMA FailStep ==
    ASSUME IInv, NEW b \in Batches, pc[b] = "sent", Fail(b),
           NEW failure \in Failures, Breaker!RecordFailure(failure),
           UNCHANGED <<given, returned, late>>
    PROVE  IInv'
  <1> DEFINE outcome == [r \in Records |-> "error"]
  <1>1. Finish(b, outcome)
    BY DEF Fail
  <1>2. Believable(b, outcome) /\ \A r \in Current(b) : outcome[r] = "error"
    BY FailIsBelievable
  <1> HIDE DEF outcome
  <1>3. Breaker!TypeOK' /\ isOpen' \in BOOLEAN /\ (isOpen => isOpen')
    BY BreakerKeepsType DEF IInv, TypeOK
  <1>4. pc'[b] # "asleep" /\ \A c \in Batches : c # b => pc'[c] = pc[c]
    BY <1>1, <1>2, FinishTypes DEF Believable
  <1>5. SlotsKept' /\ late' \in Nat
    BY <1>3, <1>4, SlotsStep
  <1> QED
    BY <1>1, <1>2, <1>3, <1>5, EndingStep

LEMMA RequestFailsStep ==
    ASSUME IInv, NEW b \in Batches, NEW failure \in Failures, RequestFails(b, failure),
           UNCHANGED returned
    PROVE  IInv'
  <1>1. pc[b] = "sent" /\ Breaker!RecordFailure(failure) /\ UNCHANGED <<given, late>>
    BY DEF RequestFails
  <1>2. Breaker!TypeOK' /\ isOpen' \in BOOLEAN /\ (isOpen => isOpen') /\ isOpen \in BOOLEAN
    BY <1>1, BreakerKeepsType DEF IInv, TypeOK
  <1>3. CASE RetriesLeft(b) /\ failure # HttpClientError /\ ~isOpen'
    <2>1. /\ pc' = [pc EXCEPT ![b] = "asleep"] /\ attempt' = [attempt EXCEPT ![b] = @ + 1]
          /\ UNCHANGED <<wide, chunks, result>>
      BY <1>3 DEF RequestFails
    <2>2. /\ pc \in [Batches -> {"queued", "split", "sent", "asleep", "done"}]
          /\ attempt \in [Batches -> 0..MaxRetries - 1] /\ attempt[b] < MaxRetries - 1
      BY <1>3 DEF IInv, TypeOK, RetriesLeft
    <2>3. attempt[b] + 1 \in 0..MaxRetries - 1
      BY <2>2, CtConstants
    <2>4. attempt' \in [Batches -> 0..MaxRetries - 1]
      BY <2>1, <2>2, <2>3
    <2>5. \A c \in Batches : c # b => pc'[c] = pc[c]
      BY <2>1, <2>2
    <2>6. SlotsKept' /\ late' \in Nat
      BY <1>1, <1>2, <1>3, <2>5, SlotsStep
    <2>7. isOpen' = isOpen
      BY <1>2, <1>3
    <2> QED
      BY <1>1, <1>2, <2>1, <2>4, <2>6, <2>7, WaitingStep
  <1>4. CASE ~(RetriesLeft(b) /\ failure # HttpClientError /\ ~isOpen')
    <2>1. Fail(b)
      BY <1>4 DEF RequestFails
    <2> QED
      BY <1>1, <2>1, FailStep
  <1> QED
    BY <1>3, <1>4

LEMMA AmbiguousAnswerStep ==
    ASSUME IInv, NEW b \in Batches, AmbiguousAnswer(b), UNCHANGED returned
    PROVE  IInv'
  <1>1. /\ pc[b] = "sent" /\ Breaker!RecordFailure(OtherFailure) /\ UNCHANGED given
        /\ late' = late /\ OtherFailure \in Failures /\ returned' = returned
    BY DEF AmbiguousAnswer, Failures
  <1>2. Breaker!TypeOK' /\ isOpen' \in BOOLEAN /\ (isOpen => isOpen') /\ isOpen \in BOOLEAN
    BY <1>1, BreakerKeepsType DEF IInv, TypeOK
  <1>3. CASE Cardinality(Current(b)) > 1 /\ ~isOpen'
    <2>1. /\ chunks' = [chunks EXCEPT ![b] = Halves(@[1]) \o Tail(@)]
          /\ pc' = [pc EXCEPT ![b] = "split"] /\ attempt' = [attempt EXCEPT ![b] = 0]
          /\ wide' = wide /\ result' = result
      BY <1>3 DEF AmbiguousAnswer
    <2>2. /\ pc \in [Batches -> {"queued", "split", "sent", "asleep", "done"}]
          /\ attempt \in [Batches -> 0..MaxRetries - 1] /\ DOMAIN chunks = Batches
          /\ wide \in [Batches -> BOOLEAN]
          /\ result \in [Records -> {"none", "found", "not_found", "error"}]
          /\ StackOK(b) /\ VerdictsOK(b)
      BY DEF IInv, TypeOK
    <2>3. 0 \in 0..MaxRetries - 1
      BY CtConstants
    <2>4. /\ pc' \in [Batches -> {"queued", "split", "sent", "asleep", "done"}]
          /\ pc'[b] = "split" /\ DOMAIN chunks' = Batches
          /\ attempt' \in [Batches -> 0..MaxRetries - 1]
          /\ chunks'[b] = Halves(Current(b)) \o Tail(chunks[b])
          /\ \A c \in Batches : c # b => pc'[c] = pc[c] /\ chunks'[c] = chunks[c]
      BY <2>1, <2>2, <2>3 DEF Current
    <2>5. SlotsKept' /\ late' \in Nat
      BY <1>1, <1>2, <2>4, SlotsStep
    <2>6. /\ chunks[b] \in Seq((SUBSET b) \ {{}}) /\ chunks[b] # <<>> /\ Apart(chunks[b])
          /\ Current(b) \in (SUBSET b) \ {{}} /\ Current(b) \subseteq Unsettled(b)
      BY <1>1, CurrentChunk
    <2>7. PICK first, second \in (SUBSET b) \ {{}} :
             /\ Halves(Current(b)) = <<first, second>>
             /\ first \cup second = Current(b) /\ first \cap second = {}
      BY <1>3, <2>6, HalvesSplit
    <2>8. IsSplitOf(chunks'[b], chunks[b], first, second)
      BY <2>4, <2>7 DEF IsSplitOf, Current
    <2>9. GoodStack(b, chunks[b])
      BY <2>6 DEF GoodStack
    <2>10. GoodStack(b, chunks'[b]) /\ SameRecords(chunks'[b], chunks[b])
      BY <2>8, <2>9, StackSplit
    <2>11. Unsettled(b)' = Unsettled(b)
      BY <2>10 DEF Unsettled, SameRecords
    <2>12. /\ fullHistory' = fullHistory /\ server' = server
           /\ \A r : Promise(r)' = Promise(r) /\ Beyond(r)' = Beyond(r)
      BY <1>1, PromiseIsGiven DEF given
    <2>13. StackOK(b)'
      BY <2>1, <2>2, <2>10, <2>11, <2>12 DEF StackOK, GoodStack
    <2>14. \A r : Requeried(b, r) => Requeried(b, r)'
      BY <2>1, <2>4, <2>11, <2>12 DEF Requeried
    <2>15. VerdictsOK(b)'
      BY <2>1, <2>2, <2>12, <2>14 DEF VerdictsOK
    <2>16. ASSUME NEW c \in Batches
           PROVE  /\ StackOK(c)' /\ VerdictsOK(c)'
                  /\ chunks'[c] = <<>> <=> pc'[c] = "done"
                  /\ chunks'[c] \in Seq((SUBSET c) \ {{}})
      <3>1. CASE c = b
        BY <2>4, <2>10, <2>13, <2>15, <3>1 DEF GoodStack
      <3>2. CASE c # b
        <4>1. /\ StackOK(c) /\ VerdictsOK(c)
              /\ chunks[c] = <<>> <=> pc[c] = "done"
              /\ chunks[c] \in Seq((SUBSET c) \ {{}})
          BY DEF IInv, TypeOK
        <4>2. StackOK(c)' /\ VerdictsOK(c)'
          BY <1>1, <2>1, <2>4, <3>2, <4>1, OtherBatch
        <4> QED
          BY <2>4, <3>2, <4>1, <4>2
      <3> QED
        BY <3>1, <3>2
    <2>17. ErrorsShow'
      BY <1>3, <2>1 DEF IInv, ErrorsShow, Invalid
    <2> QED
      BY <1>1, <1>2, <2>1, <2>2, <2>4, <2>5, <2>16, <2>17, StepOfBatch
  <1>4. CASE ~(Cardinality(Current(b)) > 1 /\ ~isOpen')
    <2>1. Fail(b)
      BY <1>4 DEF AmbiguousAnswer
    <2> QED
      BY <1>1, <2>1, FailStep
  <1> QED
    BY <1>3, <1>4

\* When the pass is abandoned, every record has an error and no slot is held.
LEMMA AbandonStep ==
    ASSUME IInv, Abandon, UNCHANGED returned, ~returned, Records # {}
    PROVE  IInv'
  <1>1. /\ pc' = [b \in Batches |-> "done"] /\ chunks' = [b \in Batches |-> <<>>]
        /\ result' = [r \in Records |-> "error"]
        /\ UNCHANGED given /\ UNCHANGED breakerVars /\ wide' = wide /\ attempt' = attempt
        /\ late' = late /\ returned' = returned
    BY DEF Abandon
  <1>2. Breaker!TypeOK' /\ isOpen' = isOpen /\ isOpen \in BOOLEAN
    BY <1>1, BreakerKeepsType DEF IInv, TypeOK
  <1>3. \A b \in Batches : pc'[b] = "done" /\ chunks'[b] = <<>>
    BY <1>1
  <1>4. TypeOK'
    <2>1. \A b \in Batches : <<>> \in Seq((SUBSET b) \ {{}})
      OBVIOUS
    <2> QED
      BY <1>1, <1>2, <1>3, <2>1 DEF IInv, TypeOK, given
  <1>5. SlotsKept'
    <2> DEFINE holdingNext == Holding'
               asleepNext == Asleep'
    <2>1. holdingNext = {} /\ asleepNext = {}
      BY <1>3 DEF Holding, Asleep, HoldsSlot
    <2> HIDE DEF holdingNext, asleepNext
    <2>2. Cardinality(holdingNext) = 0 /\ Cardinality(asleepNext) = 0
      BY <2>1, FS_EmptySet
    <2>3. /\ Cardinality(Asleep) \in Nat /\ late \in Nat /\ Concurrency \in Nat \ {0}
          /\ IF isOpen THEN late + Cardinality(Asleep) < Concurrency ELSE late = 0
      <3>1. Asleep \subseteq Batches
        BY DEF Asleep
      <3>2. Cardinality(Asleep) \in Nat
        BY <3>1, BatchesPartition, FS_Subset, FS_CardinalityType
      <3> QED
        BY <3>2, CtConstants DEF IInv, TypeOK, SlotsKept
    <2>4. Cardinality(Holding)' = 0 /\ Cardinality(Asleep)' = 0
      BY <2>2 DEF holdingNext, asleepNext
    <2> QED
      BY <1>1, <1>2, <2>3, <2>4 DEF SlotsKept
  <1>6. ErrorsShow'
    BY <1>1 DEF ErrorsShow, Invalid
  <1>7. ASSUME NEW b \in Batches
        PROVE  StackOK(b)' /\ VerdictsOK(b)'
    <2>1. StackOK(b) /\ b \subseteq Records
      BY BatchesPartition DEF IInv
    <2>2. Apart(chunks'[b]) /\ Covered(chunks'[b]) = {}
      BY <1>3, StackOfNone
    <2>3. \A r \in b : result'[r] = "error"
      BY <1>1, <2>1
    <2>4. fullHistory' = fullHistory
      BY <1>1 DEF given
    <2> QED
      BY <1>1, <2>1, <2>2, <2>3, <2>4 DEF StackOK, VerdictsOK, Unsettled
  <1> QED
    BY <1>1, <1>4, <1>5, <1>6, <1>7 DEF IInv

LEMMA StepIsSafe == IInv /\ [Next]_vars => IInv'
  <1> SUFFICES ASSUME IInv, [Next]_vars PROVE IInv'
    OBVIOUS
  <1>1. ASSUME NEW b \in Batches, Work(b) PROVE IInv'
    <2>1. returned' = returned
      BY <1>1 DEF Work
    <2>2. CASE Enter(b)
      BY <2>1, <2>2, EnterStep
    <2>3. CASE Wake(b)
      BY <2>1, <2>3, WakeStep
    <2>4. CASE Answer(b)
      BY <2>1, <2>4, AnswerStep
    <2>5. CASE AmbiguousAnswer(b)
      BY <2>1, <2>5, AmbiguousAnswerStep
    <2>6. CASE AnswerRaises(b)
      <3>1. pc[b] = "sent" /\ Abandon
        BY <2>6 DEF AnswerRaises
      <3>2. ~returned
        BY <3>1 DEF IInv, Finished
      <3>3. Records # {}
        BY BatchesPartition
      <3> QED
        BY <2>1, <3>1, <3>2, <3>3, AbandonStep
    <2>7. ASSUME NEW failure \in Failures, RequestFails(b, failure) PROVE IInv'
      BY <2>1, <2>7, RequestFailsStep
    <2> QED
      BY <1>1, <2>2, <2>3, <2>4, <2>5, <2>6, <2>7 DEF Work, Reply
  <1>2. CASE SessionFails
    <2>1. /\ Abandon /\ returned' = returned /\ ~Finished
      BY <1>2 DEF SessionFails
    <2>2. ~returned
      BY <2>1 DEF IInv
    <2>3. Records # {}
      BY <2>1, BatchesPartition DEF Finished
    <2> QED
      BY <2>1, <2>2, <2>3, AbandonStep
  <1>3. CASE Return
    <2>1. UNCHANGED <<given, breakerVars, pc, wide, chunks, attempt, result, late>>
          /\ returned' = TRUE /\ Finished
      BY <1>3 DEF Return
    <2>2. /\ Breaker!TypeOK' /\ isOpen' = isOpen
      BY <2>1, BreakerKeepsType DEF IInv, TypeOK
    <2>3. TypeOK'
      BY <2>1, <2>2 DEF IInv, TypeOK, given
    <2>4. SlotsKept'
      BY <2>1, <2>2 DEF IInv, SlotsKept, Holding, Asleep, HoldsSlot
    <2>5. ErrorsShow'
      BY <2>1, <2>2 DEF IInv, ErrorsShow
    <2>6. ASSUME NEW b \in Batches PROVE StackOK(b)' /\ VerdictsOK(b)'
      <3>1. StackOK(b) /\ VerdictsOK(b)
        BY DEF IInv
      <3> QED
        BY <2>1, <3>1, OtherBatch
    <2>7. Finished'
      BY <2>1 DEF Finished
    <2> QED
      BY <2>3, <2>4, <2>5, <2>6, <2>7 DEF IInv
  <1>4. CASE UNCHANGED vars
    <2>1. UNCHANGED <<given, breakerVars, pc, wide, chunks, attempt, result, late, returned>>
      BY <1>4 DEF vars
    <2>2. /\ Breaker!TypeOK' /\ isOpen' = isOpen
      BY <2>1, BreakerKeepsType DEF IInv, TypeOK
    <2>3. TypeOK'
      BY <2>1, <2>2 DEF IInv, TypeOK, given
    <2>4. SlotsKept'
      BY <2>1, <2>2 DEF IInv, SlotsKept, Holding, Asleep, HoldsSlot
    <2>5. ErrorsShow'
      BY <2>1, <2>2 DEF IInv, ErrorsShow
    <2>6. ASSUME NEW b \in Batches PROVE StackOK(b)' /\ VerdictsOK(b)'
      <3>1. StackOK(b) /\ VerdictsOK(b)
        BY DEF IInv
      <3> QED
        BY <2>1, <3>1, OtherBatch
    <2>7. returned' => Finished'
      BY <2>1 DEF IInv, Finished
    <2> QED
      BY <2>3, <2>4, <2>5, <2>6, <2>7 DEF IInv
  <1> QED
    BY <1>1, <1>2, <1>3, <1>4 DEF Next

LEMMA IInvHolds == Spec => []IInv
  <1> QED
    BY InitIsSafe, StepIsSafe, PTL DEF Spec

----------------------------------------------------------------------------
(* The theorems *)

(***************************************************************************)
(* query_records (ct_client.py): the state of the coroutines is what it is *)
(* declared to be: a batch is a stack of non-empty chunks of its own       *)
(* records until it is done, with no more attempts than CT_MAX_RETRIES.    *)
(***************************************************************************)
THEOREM TypeCorrect == Spec => []TypeOK
  <1>1. IInv => TypeOK
    BY DEF IInv
  <1> QED
    BY <1>1, IInvHolds, PTL

(***************************************************************************)
(* The second query of a batch (ct_client.py) asks for misses only, for    *)
(* any batches, any splits of them and any interleaving of coroutines.     *)
(***************************************************************************)
THEOREM MissesAreWhatIsQueriedAgain == Spec => []OnlyMissesQueriedAgain
  <1>1. IInv => OnlyMissesQueriedAgain
    <2> SUFFICES ASSUME IInv, NEW b \in Batches, wide[b],
                        NEW i \in DOMAIN chunks[b], NEW r \in chunks[b][i]
                 PROVE  result[r] = "not_found"
      BY DEF OnlyMissesQueriedAgain
    <2>1. chunks[b] \in Seq((SUBSET b) \ {{}}) /\ StackOK(b)
      BY DEF IInv, TypeOK
    <2>2. chunks[b][i] \in (SUBSET b) \ {{}}
      BY <2>1
    <2>3. r \in b /\ r \in Unsettled(b)
      BY <2>2 DEF Unsettled, Covered
    <2> QED
      BY <2>1, <2>3 DEF StackOK
  <1> QED
    BY <1>1, IInvHolds, PTL

(***************************************************************************)
(* An open circuit (ct_client.py): fewer requests follow than there are    *)
(* slots, for any CT_CONCURRENCY and any number of retries.                *)
(***************************************************************************)
THEOREM FewRequestsAfterOpening == Spec => []OvershootBounded
  <1>1. IInv => OvershootBounded
    <2> SUFFICES ASSUME IInv PROVE late < Concurrency
      BY DEF OvershootBounded
    <2>1. Asleep \subseteq Batches
      BY DEF Asleep
    <2>2. Cardinality(Asleep) \in Nat
      BY <2>1, BatchesPartition, FS_Subset, FS_CardinalityType
    <2> QED
      BY <2>2, CtConstants DEF IInv, TypeOK, SlotsKept
  <1> QED
    BY <1>1, IInvHolds, PTL

\* What is reported when the pass returns.
LEMMA ReportIsTrue ==
    ASSUME IInv, Finished, NEW r \in Records
    PROVE  /\ result[r] \in Verdicts
           /\ result[r] = "found" => Promise(r) \in {"usable", "outside"}
           /\ result[r] = "not_found" => Promise(r) \in {"absent", "outside"}
  <1>1. Promise(r) \in {"usable", "absent", "outside"}
    BY DEF Promise
  <1>2. CASE r \in Invalid
    BY <1>2 DEF IInv, ErrorsShow, Verdicts
  <1>3. CASE r \notin Invalid
    <2>1. PICK b \in Batches : r \in b
      BY <1>3, BatchesPartition
    <2>2. pc[b] = "done" /\ chunks[b] = <<>> /\ StackOK(b) /\ VerdictsOK(b)
      BY DEF IInv, TypeOK, Finished
    <2>3. Unsettled(b) = {}
      BY <2>2, StackOfNone DEF Unsettled
    <2>4. result[r] \in Verdicts
      BY <2>1, <2>2, <2>3 DEF StackOK, IInv, TypeOK, Verdicts
    <2>5. ~Requeried(b, r)
      BY <2>2 DEF Requeried
    <2>6. result[r] = "found" => Promise(r) \in {"usable", "outside"}
      <3>1. result[r] = "found" => server[r] \in Certificates
        BY <2>1, <2>2 DEF VerdictsOK
      <3> QED
        BY <3>1 DEF Promise
    <2>7. result[r] = "not_found" => Promise(r) # "usable"
      BY <2>1, <2>2, <2>5 DEF VerdictsOK
    <2> QED
      BY <1>1, <2>4, <2>6, <2>7
  <1> QED
    BY <1>2, <1>3

(***************************************************************************)
(* query_records (ct_client.py) implements what run_once and               *)
(* record_lookup_results rely on (SourcePass): each record has one         *)
(* outcome, a miss is of a certificate that the service does not have or   *)
(* that the run does not promise to find, and an open circuit shows in an  *)
(* error.                                                                  *)
(***************************************************************************)
THEOREM PassIsImplemented == Spec => ImplementsPass
  <1> DEFINE outcomes == IF returned THEN result ELSE [r \in Records |-> "none"]
             end == IF ~returned THEN "running" ELSE IF isOpen THEN "circuit" ELSE "complete"
             has == [r \in Records |-> Promise(r)]
  <1>1. Init => Pass!Init
    <2> SUFFICES ASSUME Init PROVE Pass!Init
      OBVIOUS
    <2>1. \A r \in Records : Promise(r) \in Pass!Contents
      BY DEF Promise, Pass!Contents
    <2>2. ~returned
      BY DEF Init
    <2> QED
      BY <2>1, <2>2 DEF Pass!Init, Pass!Unreported
  <1>2. IInv /\ [Next]_vars => [Pass!Begin \/ Pass!Proceed]_(Pass!passVars)
    <2> SUFFICES ASSUME IInv, [Next]_vars
                 PROVE  [Pass!Begin \/ Pass!Proceed]_(Pass!passVars)
      OBVIOUS
    <2>1. UNCHANGED given
      BY DEF Next, Work, Enter, Wake, Reply, Answer, AmbiguousAnswer, AnswerRaises,
             RequestFails, SessionFails, Abandon, Return, vars
    <2>2. has' = has
      BY <2>1, PromiseIsGiven
    <2>3. CASE Return
      <3>1. /\ ~returned /\ returned' = TRUE /\ Finished /\ isOpen' = isOpen /\ result' = result
        BY <2>3 DEF Return, breakerVars
      <3>2. outcomes' = result /\ outcomes = [r \in Records |-> "none"]
        BY <3>1
      <3>3. end = "running" /\ end' = IF isOpen THEN "circuit" ELSE "complete"
        BY <3>1
      <3>4. result \in [Records -> Verdicts]
        BY <3>1, ReportIsTrue DEF IInv, TypeOK
      <3>5. \A r \in Records : Pass!Truthful(r, result[r])
        BY <3>1, ReportIsTrue DEF Pass!Truthful, Verdicts
      <3>6. isOpen => \E r \in Records : result[r] = "error"
        BY DEF IInv, ErrorsShow
      <3>7. \A r \in Records : outcomes[r] = "none" /\ outcomes'[r] = result[r]
        BY <3>2
      <3> HIDE DEF outcomes, end, has
      <3>8. Pass!Proceed
        BY <2>2, <3>2, <3>3, <3>4, <3>5, <3>6, <3>7
           DEF Pass!Proceed, Pass!Outcomes, Pass!Endings, Verdicts, outcomes, end, has
      <3> QED
        BY <3>8
    <2>4. CASE returned' = returned /\ returned
      <3>1. UNCHANGED vars
        <4>1. Finished
          BY <2>4 DEF IInv
        <4> QED
          BY <2>4, <4>1 DEF Next, Finished, Work, Enter, MayEnter, Wake, Reply, Answer, AmbiguousAnswer,
                AnswerRaises, RequestFails, SessionFails, Return
      <3> QED
        BY <2>2, <3>1 DEF vars, breakerVars, Pass!passVars
    <2>5. CASE returned' = returned /\ ~returned
      BY <2>2, <2>5 DEF Pass!passVars
    <2>6. \/ Return \/ returned' = returned
      BY DEF Next, Work, SessionFails, vars
    <2> QED
      BY <2>3, <2>4, <2>5, <2>6
  <1> QED
    BY <1>1, <1>2, IInvHolds, PTL DEF Spec, ImplementsPass, Pass!Spec
=============================================================================
