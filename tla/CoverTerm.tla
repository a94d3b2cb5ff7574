------------------------------ MODULE CoverTerm ------------------------------
(***************************************************************************)
(* The arithmetic a quote is priced with: the period of cover a request    *)
(* carries, and the least premium an insurer may ask for it.  An instant   *)
(* is a UTC calendar date with its time of day; amounts are ngwee.         *)
(***************************************************************************)
EXTENDS Integers

Terms == {"Q1", "Q2", "Q3", "Q4"}

QUARTERS == [t \in Terms |->
  CASE t = "Q1" -> 1 [] t = "Q2" -> 2 [] t = "Q3" -> 3 [] t = "Q4" -> 4]

MS_PER_DAY == 86400000

MAX_RATE_BPS == 10000

-----------------------------------------------------------------------------
(* The calendar as Date.UTC and the getUTC accessors have it: months from  *)
(* 0, and the day before the first of a month is the last of the previous. *)

leap(y) == y % 4 = 0 /\ (y % 100 # 0 \/ y % 400 = 0)

leapDay(y) == IF leap(y) THEN 1 ELSE 0

lastDayOf(m, extra) ==
  IF m = 1 THEN 28 + extra ELSE IF m \in {3, 5, 8, 10} THEN 30 ELSE 31

lastDay(y, m) == lastDayOf(m, leapDay(y))

TimesOfDay == 0..MS_PER_DAY - 1

Fields == [year : Nat, month : 0..11, day : 1..31, time : TimesOfDay]

Instant == {t \in Fields : t.day <= lastDay(t.year, t.month)}

months(t) == 12 * t.year + t.month

Before(s, t) ==
  \/ months(s) < months(t)
  \/ months(s) = months(t) /\ s.day < t.day
  \/ months(s) = months(t) /\ s.day = t.day /\ s.time < t.time

NotAfter(s, t) == Before(s, t) \/ s = t

(* Days before the first of January of a year, and before a month in it.   *)
daysBeforeYear(y) == 365 * y + (y + 3) \div 4 - (y + 99) \div 100 + (y + 399) \div 400

daysBeforeMonth(m, extra) ==
  LET common == <<0, 31, 59, 90, 120, 151, 181, 212, 243, 273, 304, 334>> IN
  common[m + 1] + IF m > 1 THEN extra ELSE 0

dayNumber(t) == daysBeforeYear(t.year) + daysBeforeMonth(t.month, leapDay(t.year)) + t.day

-----------------------------------------------------------------------------
(* COVER PERIOD                                                            *)

clamped(y, m, day, time) ==
  [year |-> y, month |-> m, time |-> time,
   day |-> IF day <= lastDay(y, m) THEN day ELSE lastDay(y, m)]

addQuarters(from, quarters) ==
  LET targetMonth == from.month + quarters * 3 IN
  clamped(from.year + (targetMonth \div 12), targetMonth % 12, from.day, from.time)

rtsaAnniversaryStart(registered, now) ==
  clamped(now.year, registered.month, registered.day, 0)

(* The two ends have the same time of day, so the number of days needs no  *)
(* rounding.                                                               *)
coverPeriod(startDate, duration) ==
  LET endDate == addQuarters(startDate, QUARTERS[duration])
      days == dayNumber(endDate) - dayNumber(startDate)
  IN [startDate |-> startDate, endDate |-> endDate, days |-> IF days < 1 THEN 1 ELSE days]

-----------------------------------------------------------------------------
(* MONEY                                                                   *)

magnitude(n) == IF n < 0 THEN -n ELSE n

divideRoundHalfUp(numerator, denominator) ==
  LET quotient == (magnitude(numerator) * 2 + denominator) \div (denominator * 2) IN
  IF numerator < 0 THEN -quotient ELSE quotient

premiumFloorMinor(declaredVehicleValueMinor, piaRateBps, coverageDuration) ==
  divideRoundHalfUp(declaredVehicleValueMinor * piaRateBps * QUARTERS[coverageDuration],
                    10000 * 4)

=============================================================================
