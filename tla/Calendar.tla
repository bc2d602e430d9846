------------------------------ MODULE Calendar ------------------------------
(***************************************************************************)
(* The civil and the ISO week calendar, as the chrono crate computes them.  *)
(* An instant is a number of ticks since 2018-01-01, a Monday.  A tick      *)
(* stands for everything finer than what it divides: a bound written by a   *)
(* user falls on a multiple of Second, a picture may fall between two.      *)
(***************************************************************************)
EXTENDS Integers, FiniteSets, FiniteSetsExt

Second == 2
Hour == 4
Day == 24 * Hour

DayOf(t) == t \div Day
TimeOf(t) == t % Day
HourOf(t) == TimeOf(t) \div Hour

Leap(y) == y % 4 = 0
(* days before the first of January: the model's years are between 2001 and 2099 *)
YearStart(y) == 365 * (y - 2018) + ((y - 1) \div 4) - (2017 \div 4)
DaysBefore == <<0, 31, 59, 90, 120, 151, 181, 212, 243, 273, 304, 334>>
MonthStart(y, m) == YearStart(y) + DaysBefore[m] + (IF m > 2 /\ Leap(y) THEN 1 ELSE 0)
MonthLength(y, m) == (IF m = 12 THEN YearStart(y + 1) ELSE MonthStart(y, m + 1)) - MonthStart(y, m)

YearOf(d) ==
    LET guess == 2018 + (d \div 365) IN IF d < YearStart(guess) THEN guess - 1 ELSE guess
MonthOf(d) == Max({m \in 1..12 : MonthStart(YearOf(d), m) <= d})
DayOfMonth(d) == d - MonthStart(YearOf(d), MonthOf(d)) + 1

(* Monday is 1 *)
Weekday(d) == (d % 7) + 1

(* the ISO week is that of its Thursday *)
Thursday(d) == d - Weekday(d) + 4
IsoYear(d) == YearOf(Thursday(d))
IsoWeek(d) == (Thursday(d) - YearStart(IsoYear(d))) \div 7 + 1
LastIsoWeek(y) == IsoWeek(MonthStart(y, 12) + 27)

(* a date of another month: the day is cut to that month's length *)
SubMonths(d, n) ==
    LET months == YearOf(d) * 12 + MonthOf(d) - 1 - n
        y == months \div 12
        m == (months % 12) + 1
    IN  MonthStart(y, m) + Min({DayOfMonth(d), MonthLength(y, m)}) - 1
=============================================================================
