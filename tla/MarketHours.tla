---------------------------- MODULE MarketHours ------------------------------
(***************************************************************************)
(* When the market for tokenized stocks is open (protocols/src/             *)
(* market_hours.rs).  Time counts half hours since midnight, UTC, of some   *)
(* first day; days count from that day.                                     *)
(***************************************************************************)
EXTENDS Integers, FiniteSets, FiniteSetsExt

CONSTANTS
  FirstWeekday, \* of day 0; Sunday is 0
  Years,        \* of each year, the first days of its March and November
  Holidays,     \* HOLIDAYS
  EarlyCloses   \* EARLY_CLOSES

PerDay == 48
Weekday(day) == (day + FirstWeekday) % 7
IsTradingDay(day) == Weekday(day) \notin {0, 6} /\ day \notin Holidays

\* The tables of the code: after a holiday the market opens within four days.
ASSUME CalendarAssumption ==
  /\ FirstWeekday \in 0..6
  /\ \A y \in Years : y.march \in Int /\ y.november \in Int
  /\ Holidays \subseteq Int /\ EarlyCloses \subseteq Int
  /\ \A h \in Holidays : \E d \in h + 1 .. h + 4 : IsTradingDay(d)

RegularClose(day) == IF day \in EarlyCloses THEN 26 ELSE 32
PostEnd(day) == IF day \in EarlyCloses THEN 34 ELSE 40

-----------------------------------------------------------------------------
\* Summer time, from the second Sunday of March to the first one of November.
NthSunday(first, n) == first + ((7 - Weekday(first)) % 7) + 7 * (n - 1)
IsDst(t) ==
  \E y \in Years : /\ t >= NthSunday(y.march, 2) * PerDay + 14
                   /\ t < NthSunday(y.november, 1) * PerDay + 12

ToEastern(t) == t - (IF IsDst(t) THEN 8 ELSE 10)

\* Mutant: New York is always five hours behind.
MutantAlwaysWinter(local) == local + 10
FromEastern(local) == IF IsDst(local + 8) THEN local + 8 ELSE local + 10

-----------------------------------------------------------------------------
SessionAt(t) ==
  LET day == ToEastern(t) \div PerDay
      time == ToEastern(t) % PerDay
  IN IF time >= 40 THEN IF IsTradingDay(day + 1) THEN "overnight" ELSE "closed"
     ELSE IF ~IsTradingDay(day) THEN "closed"
     ELSE CASE time < 8 -> "overnight"
            [] time >= 8 /\ time < 19 -> "pre_market"
            [] time >= 19 /\ time < RegularClose(day) -> "regular"
            [] time >= RegularClose(day) /\ time < PostEnd(day) -> "post_market"
            [] time >= PostEnd(day) -> "closed"

IsOpen(t) == SessionAt(t) # "closed"

\* The end of the last session, among those of two weeks; none if there was none.
LastOpen(t) ==
  LET today == ToEastern(t) \div PerDay
      ends == {FromEastern(d * PerDay + PostEnd(d)) : d \in {e \in today - 13 .. today : IsTradingDay(e)}}
      past == {e \in ends : e <= t}
  IN IF IsOpen(t) THEN {t} ELSE IF past = {} THEN {} ELSE {Max(past)}

IsStale(updated, now, maxAge) ==
  \E reference \in IF LastOpen(now) = {} THEN {now} ELSE LastOpen(now) : reference - updated > maxAge
=============================================================================
