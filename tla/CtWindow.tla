------------------------------ MODULE CtWindow ------------------------------
(***************************************************************************)
(* The validity window of a CT query (ct_client.py): from the revocation   *)
(* dates of its records it bounds the validity of every certificate that   *)
(* conforms to the TLS rules of its time and was valid when revoked.       *)
(*                                                                         *)
(* A date is the number of a day.  Months are counted as year * 12 + month *)
(* - 1; DaysBefore is the calendar.                                        *)
(***************************************************************************)
EXTENDS Integers, FiniteSetsExt

CONSTANTS
    FirstMonth, LastMonth,  \* of the calendar
    DaysBefore(_),          \* days before the first of a month
    Today

Months == FirstMonth..LastMonth
LongestShift == 60

FirstDay == [m \in Months |-> DaysBefore(m)]

\* The longest shift keeps these dates within the calendar.
Dates == FirstDay[FirstMonth + LongestShift]..FirstDay[LastMonth - LongestShift] - 1

IsMonthOf(m, date) == FirstDay[m] <= date /\ date < FirstDay[m + 1]

Date(year, month, day) == FirstDay[year * 12 + month - 1] + day - 1

MonthOf ==
    [date \in Dates |-> CHOOSE m \in FirstMonth..LastMonth - 1 : IsMonthOf(m, date)]

\* The same day of another month, or its last day; then some days more.
ShiftValidity(date, months, days) ==
    LET target == MonthOf[date] + months
        day == date - FirstDay[MonthOf[date]]
        lastDay == FirstDay[target + 1] - FirstDay[target] - 1
    IN  FirstDay[target] + (IF day <= lastDay THEN day ELSE lastDay) + days

Rule(start, months, days) == [start |-> start, months |-> months, days |-> days]

TlsValidityPeriods ==
    << Rule(Date(2012, 7, 1), 60, 0), Rule(Date(2016, 7, 1), 39, 0),
       Rule(Date(2018, 3, 1), 0, 825), Rule(Date(2020, 9, 1), 0, 398),
       Rule(Date(2026, 3, 15), 0, 200), Rule(Date(2027, 3, 15), 0, 100),
       Rule(Date(2029, 3, 15), 0, 47) >>

Periods == DOMAIN TlsValidityPeriods

Start(p) == TlsValidityPeriods[p].start

Ends(p, date) == p + 1 \in Periods => date < Start(p + 1)

ASSUME Calendar ==
    /\ FirstMonth \in Int /\ LastMonth \in Int
    /\ FirstMonth + LongestShift < LastMonth - LongestShift
    /\ FirstDay \in [Months -> Int]
    /\ \A m, n \in Months : m < n => FirstDay[m] < FirstDay[n]
    /\ \A date \in Dates :
          \E m \in FirstMonth..LastMonth - 1 : IsMonthOf(m, date)
    /\ MonthOf \in [Dates -> Months]
    /\ Today \in Int /\ Start(1) - 1 \in Dates /\ Today + 1 \in Dates
    /\ \A p \in Periods : Start(p) \in Int
    /\ \A p, q \in Periods : p < q => Start(p) < Start(q)

\* _revocation_date: other dates count as missing.
IsUsable(date) == date \in Start(1)..Today

\* The last expiry that the rule of the period allows.
Expiry(p, issue) == ShiftValidity(issue, TlsValidityPeriods[p].months, TlsValidityPeriods[p].days)

Expired(p, date) == ShiftValidity(date, -TlsValidityPeriods[p].months, -TlsValidityPeriods[p].days)

FirstIssue(p, earliest) ==
    IF Start(p) <= Expired(p, earliest) THEN Expired(p, earliest) ELSE Start(p)

LastIssue(p, latest) == IF Ends(p, latest) THEN latest ELSE Start(p + 1) - 1

\* Mutant: the rules at the time of the revocation.
RelevantNow(earliest, latest) ==
    {p \in Periods : Start(p) <= latest /\ Ends(p, earliest)}

\* A period that is over matters until its certificates expire.
Relevant(earliest, latest) ==
    {p \in Periods : FirstIssue(p, earliest) <= LastIssue(p, latest)}

(***************************************************************************)
(* _validity_window: what a query for records revoked on the dates S asks  *)
(* for.  A bound that is the least of some dates is met if one is met.     *)
(***************************************************************************)
InValidityWindow(S, certificate) ==
    LET earliest == Min(S) - 1
        latest == Max(S) + 1
    IN  /\ \E p \in Relevant(earliest, latest) :
              FirstIssue(p, earliest) <= certificate.notBefore
        /\ certificate.notBefore <= latest
        /\ earliest <= certificate.notAfter
        /\ \E p \in Relevant(earliest, latest) :
              certificate.notAfter <= Expiry(p, LastIssue(p, latest))

\* The wide range of a full-history query.
InHistory(certificate) ==
    /\ Date(2010, 1, 1) <= certificate.notBefore /\ certificate.notBefore <= Today
    /\ Date(2010, 1, 1) <= certificate.notAfter
    /\ certificate.notAfter <= ShiftValidity(Today, 12, 0)

(***************************************************************************)
(* What the window is for: certificates of the rules at their issuance     *)
(* that were valid on the day of their revocation.                         *)
(***************************************************************************)
Conforms(certificate) ==
    \E p \in Periods :
        /\ Start(p) <= certificate.notBefore /\ Ends(p, certificate.notBefore)
        /\ certificate.notBefore <= certificate.notAfter
        /\ certificate.notAfter <= Expiry(p, certificate.notBefore)

ValidOn(certificate, date) == certificate.notBefore <= date /\ date <= certificate.notAfter
=============================================================================
