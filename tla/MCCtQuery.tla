----------------------------- MODULE MCCtQuery ------------------------------
\* Two dated batches of two records and an undated record compete for two slots.
EXTENDS CtQuery

CONSTANTS r1, r2, r3, r4, r5, r6, a1, a2

\* The Gregorian calendar.
LeapYears(y) == y \div 4 - y \div 100 + y \div 400
DaysBeforeMonth == <<0, 31, 59, 90, 120, 151, 181, 212, 243, 273, 304, 334>>

MCFirstMonth == 2007 * 12
MCLastMonth == 2032 * 12
MCDaysBefore(m) ==
    LET y == IF m % 12 < 2 THEN m \div 12 - 1 ELSE m \div 12
    IN  365 * (m \div 12) + LeapYears(y) + DaysBeforeMonth[(m % 12) + 1]

Day(y, m, d) == MCDaysBefore(y * 12 + m - 1) + d - 1
MCToday == Day(2026, 11, 1)

Cert(notBefore, notAfter) == [notBefore |-> notBefore, notAfter |-> notAfter]

MCSelected == <<r1, r2, r3, r4, r5, r6>>
MCAki == [r \in {r1, r2} |-> a1] @@ [r \in {r3, r4, r5} |-> a2] @@ r6 :> BadAki

\* Rules of three periods, month ends, a leap day, a date too early to be used.
MCRevoked ==
    r1 :> Day(2017, 7, 1) @@ r2 :> Day(2022, 12, 3) @@ r3 :> Day(2019, 4, 30)
    @@ r4 :> Day(2020, 2, 29) @@ r5 :> Day(2010, 1, 5) @@ r6 :> Day(2020, 1, 1)

\* Each certificate expires on the last day that its rule allows, or is beyond.
Longest ==
    r1 :> Cert(Day(2012, 7, 1), Day(2017, 7, 1))
    @@ r2 :> Cert(Day(2020, 8, 31), Day(2022, 12, 4))
    @@ r3 :> Cert(Day(2016, 7, 1), Day(2019, 10, 1))
    @@ r4 :> Cert(Day(2016, 11, 30), Day(2020, 2, 29))
    @@ r5 :> Cert(Day(2009, 1, 1), Day(2011, 1, 1))
    @@ r6 :> NoCertificate

Nonconforming == Cert(Day(2011, 6, 1), Day(2021, 6, 1))

MCServers ==
    {Longest, [Longest EXCEPT ![r1] = Nonconforming, ![r5] = Nonconforming, ![r4] = NoCertificate],
     [Longest EXCEPT ![r2] = NoCertificate, ![r3] = Cert(Day(2016, 1, 31), Day(2019, 4, 30))]}
=============================================================================
