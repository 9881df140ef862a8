------------------------------ MODULE Calendar ------------------------------
(***************************************************************************)
(* The calendar of Go's time package, as far as periods and schedules use   *)
(* it.  A date is the number of its day, 1 for the first of January of the  *)
(* year 1, a Monday.                                                        *)
(***************************************************************************)
EXTENDS Integers, FiniteSetsExt

IsLeap(y) == y % 4 = 0 /\ (y % 100 # 0 \/ y % 400 = 0)

DaysIn(y, m) ==
    CASE m = 2 -> IF IsLeap(y) THEN 29 ELSE 28
      [] m \in {4, 6, 9, 11} -> 30
      [] OTHER -> 31

NewYear(y) == 365 * (y - 1) + ((y - 1) \div 4) - ((y - 1) \div 100) + ((y - 1) \div 400) + 1

\* time.Date: a month beyond the year counts on into the next one or back.
Date(y, m, d) ==
    LET year == y + ((m - 1) \div 12)
        month == ((m - 1) % 12) + 1
    IN NewYear(year) + MapThenSumSet(LAMBDA k : DaysIn(year, k), 1..(month - 1)) + d - 1

Year(day) == CHOOSE y \in (day \div 366)..(1 + (day \div 365)) : NewYear(y) <= day /\ day < NewYear(y + 1)
Month(day) == CHOOSE m \in 1..12 : Date(Year(day), m, 1) <= day /\ day < Date(Year(day), m + 1, 1)
DayOfMonth(day) == 1 + day - Date(Year(day), Month(day), 1)

\* Sunday is 0.
Weekday(day) == day % 7

\* A week belongs to the year of its Thursday.
ISOWeek(day) ==
    LET thursday == day + 4 - (IF Weekday(day) = 0 THEN 7 ELSE Weekday(day))
    IN <<Year(thursday), 1 + ((thursday - NewYear(Year(thursday))) \div 7)>>

=============================================================================
