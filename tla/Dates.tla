------------------------------- MODULE Dates -------------------------------
(***************************************************************************)
(* Civil dates as the application counts them.  A date is a record of a    *)
(* year, a month and a day, which is what parse_iso makes of ten           *)
(* characters (a day up to 31 in any month passes); no time zone and no    *)
(* clock enter the arithmetic.                                             *)
(***************************************************************************)
EXTENDS Integers

Date(y, m, d) == [year |-> y, month |-> m, day |-> d]

IsLeapYear(y) == (y % 4 = 0 /\ y % 100 # 0) \/ y % 400 = 0

DaysInMonth(y, m) ==
    CASE m \in {1, 3, 5, 7, 8, 10, 12} -> 31
      [] m \in {4, 6, 9, 11} -> 30
      [] m = 2 -> IF IsLeapYear(y) THEN 29 ELSE 28
      [] OTHER -> 0

(* The dates of the calendar, the ones a clock can show.                   *)
CivilDate(d) ==
    /\ d \in [year : Nat, month : 1 .. 12, day : 1 .. 31]
    /\ d.day <= DaysInMonth(d.year, d.month)

(* ISO strings of four-digit years compare as their parts do.              *)
Earlier(a, b) ==
    \/ a.year < b.year
    \/ (a.year = b.year /\ a.month < b.month)
    \/ (a.year = b.year /\ a.month = b.month /\ a.day < b.day)

(* Years, and months within them, counted from March, so that the leap day *)
(* is the last of a year.                                                  *)
MarchYear(d) == IF d.month <= 2 THEN d.year - 1 ELSE d.year

DayOfMarchYear(d) == (153 * ((d.month + 9) % 12) + 2) \div 5 + d.day - 1

DaysFromCivil(d) ==
    LET y == MarchYear(d)
        yearOfEra == y % 400
    IN  (y \div 400) * 146097
        + yearOfEra * 365 + yearOfEra \div 4 - yearOfEra \div 100
        + DayOfMarchYear(d) - 719468

(* A mutant's form: the last day of an era taken for one of a year more.   *)
YearOfEraOverrun(dayOfEra) ==
    (dayOfEra - dayOfEra \div 1460 + dayOfEra \div 36524) \div 365

YearOfEra(dayOfEra) ==
    (dayOfEra - dayOfEra \div 1460 + dayOfEra \div 36524 - dayOfEra \div 146096) \div 365

CivilFromDays(n) ==
    LET shift == n + 719468
        dayOfEra == shift % 146097
        yearOfEra == YearOfEra(dayOfEra)
        dayOfYear == dayOfEra - (365 * yearOfEra + yearOfEra \div 4
                                                 - yearOfEra \div 100)
        fromMarch == (5 * dayOfYear + 2) \div 153
        month == IF fromMarch < 10 THEN fromMarch + 3 ELSE fromMarch - 9
        year == yearOfEra + (shift \div 146097) * 400
    IN  Date(IF month <= 2 THEN year + 1 ELSE year, month,
             dayOfYear - (153 * fromMarch + 2) \div 5 + 1)

AddDays(d, n) == CivilFromDays(DaysFromCivil(d) + n)

(* A mutant's form: the two ends the wrong way round.                      *)
DaysBetweenBackwards(from, to) == DaysFromCivil(from) - DaysFromCivil(to)

DaysBetween(from, to) == DaysFromCivil(to) - DaysFromCivil(from)

SmallerOf(a, b) == IF a <= b THEN a ELSE b

(* A mutant's form: the months past December are not carried into the      *)
(* year.                                                                   *)
AddMonthsUncarried(d, n) ==
    Date(d.year, d.month + n, SmallerOf(d.day, DaysInMonth(d.year, d.month + n)))

(* A mutant's form: nothing falls due after December.                      *)
AddMonthsWithinYear(d, n) ==
    LET month == SmallerOf(d.month + n, 12)
    IN  Date(d.year, month, SmallerOf(d.day, DaysInMonth(d.year, month)))

(* The day is cut to the length of the month arrived at.                   *)
AddMonths(d, n) ==
    LET zeroBased == d.month - 1 + n
        year == d.year + zeroBased \div 12
        month == (zeroBased % 12) + 1
    IN  Date(year, month, SmallerOf(d.day, DaysInMonth(year, month)))

(* 0 is Sunday.                                                            *)
DayOfWeek(d) == (DaysFromCivil(d) + 4) % 7

IsWeekend(d) == DayOfWeek(d) \in {0, 6}

OpenDay(d, holidays) == ~IsWeekend(d) /\ d \notin holidays

(* The loop looks at the date itself and the nine after it, and gives up   *)
(* on the tenth.                                                           *)
NextBusinessDay(d, holidays) ==
    LET Candidate(k) == IF k = 0 THEN d ELSE AddDays(d, k)
        Open(k) == OpenDay(Candidate(k), holidays)
        First(k) == Open(k) /\ \A j \in 0 .. k - 1 : ~Open(j)
    IN  IF \E k \in 0 .. 9 : First(k) THEN Candidate(CHOOSE k \in 0 .. 9 : First(k))
        ELSE Candidate(10)

MonthStart(y, m) == Date(y, m, 1)
MonthEnd(y, m) == Date(y, m, DaysInMonth(y, m))
QuarterStart(y, q) == MonthStart(y, (q - 1) * 3 + 1)
QuarterEnd(y, q) == MonthEnd(y, (q - 1) * 3 + 3)

(* The day after, as a wall calendar turns it: the clock's, not the code's *)
(* arithmetic.                                                             *)
NextDay(d) ==
    IF d.day < DaysInMonth(d.year, d.month) THEN [d EXCEPT !.day = @ + 1]
    ELSE IF d.month < 12 THEN Date(d.year, d.month + 1, 1)
    ELSE Date(d.year + 1, 1, 1)
=============================================================================
