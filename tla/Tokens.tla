------------------------------- MODULE Tokens -------------------------------
(***************************************************************************)
(* Day and month tokens, resolved against the day they are read on.        *)
(*                                                                         *)
(* Sources: internal/daytok/daytok.go, internal/monthtok/monthtok.go; the  *)
(* dates of package time as they use it.                                   *)
(***************************************************************************)
EXTENDS Integers

Leap(y) == y % 4 = 0 /\ (y % 100 # 0 \/ y % 400 = 0)
DaysIn(y, m) == CASE m = 2 -> IF Leap(y) THEN 29 ELSE 28
                  [] m \in {4, 6, 9, 11} -> 30
                  [] OTHER -> 31

Date(y, m, d) == [y |-> y, m |-> m, d |-> d]
IsDate(y, m, d) == m \in 1..12 /\ d \in 1..DaysIn(y, m)
Before(a, b) == \/ a.y < b.y
                \/ a.y = b.y /\ a.m < b.m
                \/ a.y = b.y /\ a.m = b.m /\ a.d < b.d

NoDate == [error |-> TRUE]

\* time.Date and AddDate normalise a day that the month does not have.
Normal(y, m, d) ==
  IF d < 1 THEN IF m = 1 THEN Date(y - 1, 12, 31 + d) ELSE Date(y, m - 1, DaysIn(y, m - 1) + d)
  ELSE IF d > DaysIn(y, m) THEN IF m = 12 THEN Date(y + 1, 1, d - 31) ELSE Date(y, m + 1, d - DaysIn(y, m))
  ELSE Date(y, m, d)

\* daytok.Parse of a relative day (0: hoy, or no token; 1: ayer; 2: antier), and
\* of DD/MM. A day with its year is that day.
Relative(back, today) == Normal(today.y, today.m, today.d - back)

\* Mutant: a day that is still ahead keeps this year.
DayThisYear(m, d, today) == IF IsDate(today.y, m, d) THEN Date(today.y, m, d) ELSE NoDate

DayMonth(m, d, today) ==
  IF ~IsDate(today.y, m, d) THEN NoDate
  ELSE IF Before(today, Date(today.y, m, d)) THEN Normal(today.y - 1, m, d)
  ELSE Date(today.y, m, d)

\* monthtok.Parse of a month by its name.
MonthName(m, today) == [y |-> IF m > today.m THEN today.y - 1 ELSE today.y, m |-> m]

-----------------------------------------------------------------------------
(* The reference: the number of a day, and the last day that has a name.     *)

DayNumber(date) ==
  LET y == date.y - 1 IN
    365 * y + (y \div 4) - (y \div 100) + (y \div 400)
    + ((367 * date.m - 362) \div 12)
    + (IF date.m <= 2 THEN 0 ELSE IF Leap(date.y) THEN -1 ELSE -2)
    + date.d

LastDay(m, d, today, date) ==
  /\ date.m = m /\ date.d = d /\ IsDate(date.y, m, d)
  /\ ~Before(today, date)
  /\ \A y \in date.y + 1..today.y : ~IsDate(y, m, d) \/ Before(today, Date(y, m, d))

\* "DD/MM (most recent)": the last such day up to today, unless this year has
\* no such day, which is an error. Not said of 29/02.
DayIsMostRecent(m, d, today) ==
  LET date == DayMonth(m, d, today) IN
    IF IsDate(today.y, m, d) THEN LastDay(m, d, today, date) ELSE date = NoDate

RelativeIsExact(back, today) ==
  LET date == Relative(back, today) IN
    IsDate(date.y, date.m, date.d) /\ DayNumber(date) = DayNumber(today) - back

\* A month is the last one of its name that has begun.
MonthIsMostRecent(m, today) ==
  LET month == MonthName(m, today)
      first == Date(month.y, month.m, 1)
  IN  LastDay(m, 1, today, first)
=============================================================================
