--------------------------- MODULE CalendarProofs ---------------------------
(***************************************************************************)
(* The agenda of calendar.rs, for every pack, profile, day and course of   *)
(* events: the arithmetic of dates.rs counts the days of the calendar and  *)
(* finds its way back from a number to the date; from this, that no status *)
(* is taken back, and that a date is never said to be what it is not.  The *)
(* hardest is that no two periods of a rule fall on one date, so that the  *)
(* id of a line is its own: it needs to be known where weekends, the ends  *)
(* of months and what the authority publishes can put a date.              *)
(***************************************************************************)
EXTENDS Calendar, TLAPS, WellFoundedInduction

(***************************************************************************)
(* The arithmetic.                                                         *)
(***************************************************************************)

(* A month has between 28 and 31 days, by its name.                        *)
LEMMA MonthLengths ==
    ASSUME NEW y \in Nat, NEW m \in 1 .. 12
    PROVE  /\ DaysInMonth(y, m) \in 28 .. 31
           /\ m \in {1, 3, 5, 7, 8, 10, 12} => DaysInMonth(y, m) = 31
           /\ m \in {4, 6, 9, 11} => DaysInMonth(y, m) = 30
           /\ m = 2 => DaysInMonth(y, m) = IF IsLeapYear(y) THEN 29 ELSE 28
BY DEF DaysInMonth

(* Days before March of a year, as days_from_civil counts them.            *)
YearDays(y) ==
    (y \div 400) * 146097 + (y % 400) * 365 + (y % 400) \div 4 - (y % 400) \div 100

(* From one March to the next there are 365 days, or 366 over a leap day.  *)
LEMMA YearStep ==
    ASSUME NEW y \in Nat, y > 0
    PROVE  /\ YearDays(y - 1) \in Int
           /\ YearDays(y) = YearDays(y - 1) + IF IsLeapYear(y) THEN 366 ELSE 365
<1> DEFINE Days(q, r) == q * 146097 + r * 365 + r \div 4 - r \div 100
<1>1. /\ y \div 400 \in Nat /\ y % 400 \in 0 .. 399
      /\ (y - 1) \div 400 \in Int /\ (y - 1) % 400 \in 0 .. 399
    BY SMT
<1>2. YearDays(y) = Days(y \div 400, y % 400) /\ YearDays(y - 1) = Days((y - 1) \div 400, (y - 1) % 400)
    BY DEF YearDays
<1>3. ASSUME NEW q \in Int, NEW r \in 0 .. 399 PROVE Days(q, r) \in Int
    BY <1>3
<1>4. IsLeapYear(y) <=> (y % 400) % 4 = 0 /\ ((y % 400) % 100 # 0 \/ y % 400 = 0)
    BY SMT DEF IsLeapYear
<1>5. CASE y % 400 = 0
    <2>1. (y - 1) \div 400 = y \div 400 - 1 /\ (y - 1) % 400 = 399
        BY <1>5, SMT
    <2> QED
        BY <1>1, <1>2, <1>3, <1>4, <1>5, <2>1
<1>6. CASE y % 400 # 0
    <2>1. (y - 1) \div 400 = y \div 400 /\ (y - 1) % 400 = (y % 400) - 1
        BY <1>6, SMT
    <2>2. ASSUME NEW q \in Int, NEW r \in 1 .. 399
          PROVE  Days(q, r) = Days(q, r - 1)
                              + IF r % 4 = 0 /\ r % 100 # 0 THEN 366 ELSE 365
        BY <2>2, SMT
    <2> QED
        BY <1>1, <1>2, <1>3, <1>4, <1>6, <2>1, <2>2
<1> QED
    BY <1>5, <1>6

LEMMA DayNumber ==
    ASSUME NEW d, CivilDate(d)
    PROVE  /\ DaysFromCivil(d) = YearDays(MarchYear(d)) + DayOfMarchYear(d) - 719468
           /\ d.year \in Nat /\ d.month \in 1 .. 12 /\ d.day \in 1 .. 31
           /\ d = Date(d.year, d.month, d.day)
BY DEF DaysFromCivil, YearDays, CivilDate, Date

(* The day after has the number after.                                     *)
LEMMA NextDayCounts ==
    ASSUME NEW d, CivilDate(d), d.year > 0
    PROVE  /\ CivilDate(NextDay(d)) /\ NextDay(d).year > 0
           /\ DaysFromCivil(d) \in Int
           /\ DaysFromCivil(NextDay(d)) = DaysFromCivil(d) + 1
<1> DEFINE e == NextDay(d)
<1>1. /\ d.year \in Nat /\ d.month \in 1 .. 12 /\ d.day \in 1 .. 31
      /\ d = Date(d.year, d.month, d.day)
      /\ d.day <= DaysInMonth(d.year, d.month)
    BY DayNumber DEF CivilDate
<1>2. DaysFromCivil(d) = YearDays(MarchYear(d)) + DayOfMarchYear(d) - 719468
    BY DayNumber
<1>3. /\ DaysInMonth(d.year, d.month) \in 28 .. 31
      /\ d.month \in {1, 3, 5, 7, 8, 10, 12} => DaysInMonth(d.year, d.month) = 31
      /\ d.month \in {4, 6, 9, 11} => DaysInMonth(d.year, d.month) = 30
      /\ d.month = 2 => DaysInMonth(d.year, d.month) = IF IsLeapYear(d.year) THEN 29 ELSE 28
    BY <1>1, MonthLengths
<1>4. /\ YearDays(d.year - 1) \in Int
      /\ YearDays(d.year) = YearDays(d.year - 1) + IF IsLeapYear(d.year) THEN 366 ELSE 365
    BY <1>1, YearStep
<1>5. CASE d.day < DaysInMonth(d.year, d.month)
    <2>1. e = Date(d.year, d.month, d.day + 1)
        BY <1>1, <1>5 DEF NextDay, Date
    <2>2. CivilDate(e)
        BY <1>1, <1>3, <1>5, <2>1 DEF CivilDate, Date
    <2>3. MarchYear(e) = MarchYear(d) /\ DayOfMarchYear(e) = DayOfMarchYear(d) + 1
        BY <1>1, <2>1 DEF MarchYear, DayOfMarchYear, Date
    <2>4. YearDays(MarchYear(d)) \in Int /\ DayOfMarchYear(d) \in Int
        BY <1>1, <1>4 DEF MarchYear, DayOfMarchYear
    <2> QED
        BY <1>1, <1>2, <2>1, <2>2, <2>3, <2>4, DayNumber DEF Date
<1>6. CASE d.day = DaysInMonth(d.year, d.month) /\ d.month < 12
    <2>1. e = Date(d.year, d.month + 1, 1)
        BY <1>1, <1>6 DEF NextDay
    <2>2. CivilDate(e)
        BY <1>1, <1>6, <2>1, MonthLengths DEF CivilDate, Date
    <2>3. e.year = d.year /\ e.month = d.month + 1 /\ e.day = 1
        BY <2>1 DEF Date
    <2>4. DaysFromCivil(e) = YearDays(MarchYear(e)) + DayOfMarchYear(e) - 719468
        BY <2>2, DayNumber
    <2>5. CASE d.month = 2
        BY <1>1, <1>2, <1>3, <1>4, <1>6, <2>2, <2>3, <2>4, <2>5 DEF MarchYear, DayOfMarchYear
    <2>6. CASE d.month # 2
        <3>1. MarchYear(e) = MarchYear(d) /\ YearDays(MarchYear(d)) \in Int
            BY <1>1, <1>4, <1>6, <2>3, <2>6 DEF MarchYear
        <3>2. DayOfMarchYear(d) \in Int /\ DayOfMarchYear(e) = DayOfMarchYear(d) + 1
            BY <1>1, <1>3, <1>6, <2>3, <2>6 DEF DayOfMarchYear
        <3> QED
            BY <1>1, <1>2, <2>2, <2>3, <2>4, <3>1, <3>2
    <2> QED
        BY <2>5, <2>6
<1>7. CASE d.day = DaysInMonth(d.year, d.month) /\ d.month = 12
    <2>1. e = Date(d.year + 1, 1, 1)
        BY <1>1, <1>7 DEF NextDay
    <2>2. CivilDate(e)
        BY <1>1, <2>1, MonthLengths DEF CivilDate, Date
    <2>3. e.year = d.year + 1 /\ e.month = 1 /\ e.day = 1
        BY <2>1 DEF Date
    <2>4. DaysFromCivil(e) = YearDays(MarchYear(e)) + DayOfMarchYear(e) - 719468
        BY <2>2, DayNumber
    <2>5. MarchYear(e) = d.year /\ MarchYear(d) = d.year
        BY <1>1, <1>7, <2>3 DEF MarchYear
    <2>6. DayOfMarchYear(d) = 305 /\ DayOfMarchYear(e) = 306
        BY <1>3, <1>7, <2>3 DEF DayOfMarchYear
    <2> QED
        BY <1>1, <1>2, <1>4, <2>2, <2>3, <2>4, <2>5, <2>6
<1> QED
    BY <1>1, <1>3, <1>5, <1>6, <1>7

(***************************************************************************)
(* Back from the number to the date.                                       *)
(***************************************************************************)

(* The parts of an era of four centuries: a century, four years of it, a   *)
(* year of the four and a day of that year.                                *)
EraDay(c, q, t, doy) == 36524 * c + 1461 * q + 365 * t + doy

InEra(c, q, t, doy) ==
    /\ c \in 0 .. 3 /\ q \in 0 .. 24 /\ t \in 0 .. 3 /\ doy \in 0 .. 365
    /\ doy = 365 => t = 3 /\ (q = 24 => c = 3)

LEMMA YearFound ==
    ASSUME NEW c, NEW q, NEW t, NEW doy, InEra(c, q, t, doy)
    PROVE  /\ EraDay(c, q, t, doy) \in Nat /\ EraDay(c, q, t, doy) < 146097
           /\ YearOfEra(EraDay(c, q, t, doy)) = 100 * c + 4 * q + t
<1> DEFINE n == EraDay(c, q, t, doy)
           x == (24 * c + q + 365 * t + doy) \div 1460
           last == IF c = 3 /\ q = 24 /\ t = 3 /\ doy = 365 THEN 1 ELSE 0
           rest == doy - x
<1>1. n \in Nat /\ n < 146097
    BY SMT DEF EraDay, InEra
<1>2. n \div 1460 = 25 * c + q + x
    BY SMT DEF EraDay, InEra
<1>3. n \div 36524 = c + last
    BY SMT DEF EraDay, InEra
<1>4. n \div 146096 = last
    BY SMT DEF EraDay, InEra
<1>5. x \in 0 .. 1 /\ rest \in 0 .. 364
    BY SMT DEF InEra
<1>6. n - (25 * c + q + x) + (c + last) - last = 365 * (100 * c + 4 * q + t) + rest
    BY <1>5, SMT DEF EraDay, InEra
<1> HIDE DEF x, last, n, rest
<1>7. (365 * (100 * c + 4 * q + t) + rest) \div 365 = 100 * c + 4 * q + t
    BY <1>5, SMT DEF InEra
<1> QED
    BY <1>1, <1>2, <1>3, <1>4, <1>6, <1>7, SMT DEF YearOfEra, n, InEra

LEMMA Division ==
    ASSUME NEW n \in Nat, NEW k \in Nat, k > 0
    PROVE  n \div k \in Nat /\ n % k \in Nat /\ n % k < k /\ n = k * (n \div k) + (n % k)
BY SMT

LEMMA EraParts ==
    ASSUME NEW n \in Nat, n < 146097
    PROVE  \E c, q, t, doy : InEra(c, q, t, doy) /\ n = EraDay(c, q, t, doy)
<1> DEFINE c == IF n = 146096 THEN 3 ELSE n \div 36524
           r == n - 36524 * c
           q == r \div 1461
           s == r - 1461 * q
           t == IF s = 1460 THEN 3 ELSE s \div 365
           doy == s - 365 * t
<1>1. c \in 0 .. 3 /\ r \in Nat /\ r <= 36524 /\ (r = 36524 => c = 3)
    BY SMT
<1>2. n = 36524 * c + r
    BY <1>1, SMT
<1> HIDE DEF r, c
<1>3. q \in 0 .. 24 /\ s \in Nat /\ s <= 1460 /\ (q = 24 /\ s = 1460 => c = 3) /\ r = 1461 * q + s
    BY <1>1, SMT
<1> HIDE DEF s, q
<1>4. t \in 0 .. 3 /\ doy \in 0 .. 365 /\ (doy = 365 => t = 3 /\ s = 1460) /\ s = 365 * t + doy
    BY <1>3, SMT
<1> HIDE DEF t, doy
<1>5. n = EraDay(c, q, t, doy) /\ InEra(c, q, t, doy)
    BY <1>1, <1>2, <1>3, <1>4, SMT DEF EraDay, InEra
<1> QED
    BY <1>5

(* The day of a year from March says its month and the day in it.          *)
MarchLength(mp) == IF mp = 11 THEN 29 ELSE IF mp \in {1, 3, 6, 8} THEN 30 ELSE 31

LEMMA MonthFound ==
    ASSUME NEW mp, NEW k, mp \in 0 .. 11, k \in 1 .. MarchLength(mp)
    PROVE  /\ (153 * mp + 2) \div 5 + k - 1 \in 0 .. 365
           /\ (5 * ((153 * mp + 2) \div 5 + k - 1) + 2) \div 153 = mp
           /\ (153 * mp + 2) \div 5 + k - 1 = 365 => mp = 11 /\ k = 29
<1>1. \/ mp = 0 \/ mp = 1 \/ mp = 2 \/ mp = 3 \/ mp = 4 \/ mp = 5
      \/ mp = 6 \/ mp = 7 \/ mp = 8 \/ mp = 9 \/ mp = 10 \/ mp = 11
    OBVIOUS
<1> QED
    BY <1>1 DEF MarchLength

LEMMA MonthParts ==
    ASSUME NEW doy \in 0 .. 365
    PROVE  LET mp == (5 * doy + 2) \div 153
           IN  /\ mp \in 0 .. 11
               /\ doy - (153 * mp + 2) \div 5 + 1 \in 1 .. MarchLength(mp)
<1> DEFINE mp == (5 * doy + 2) \div 153
<1>0. mp \in 0 .. 11 /\ 153 * mp <= 5 * doy + 2 /\ 5 * doy + 2 < 153 * mp + 153
    OBVIOUS
<1> HIDE DEF mp
<1>1. \/ mp = 0 \/ mp = 1 \/ mp = 2 \/ mp = 3 \/ mp = 4 \/ mp = 5
      \/ mp = 6 \/ mp = 7 \/ mp = 8 \/ mp = 9 \/ mp = 10 \/ mp = 11
    BY <1>0
<1>2. doy - (153 * mp + 2) \div 5 + 1 \in 1 .. MarchLength(mp)
    BY <1>0, <1>1 DEF MarchLength
<1> QED
    BY <1>0, <1>2 DEF mp

(* A date there is: a month of a year and a day of that month.             *)
RealDate(d) ==
    /\ d = Date(d.year, d.month, d.day)
    /\ d.year \in Int /\ d.month \in 1 .. 12 /\ d.day \in 1 .. DaysInMonth(d.year, d.month)

LEMMA FebruaryLast ==
    ASSUME NEW y \in Int, NEW m \in 1 .. 12
    PROVE  LET mp == (m + 9) % 12
           IN  /\ mp \in 0 .. 11
               /\ m = IF mp < 10 THEN mp + 3 ELSE mp - 9
               /\ DaysInMonth(y, m) \in 28 .. 31
               /\ DaysInMonth(y, m) = IF m = 2 /\ ~IsLeapYear(y) THEN 28 ELSE MarchLength(mp)
<1>1. \/ m = 1 \/ m = 2 \/ m = 3 \/ m = 4 \/ m = 5 \/ m = 6
      \/ m = 7 \/ m = 8 \/ m = 9 \/ m = 10 \/ m = 11 \/ m = 12
    OBVIOUS
<1> QED
    BY <1>1 DEF DaysInMonth, MarchLength

(* What civil_from_days makes of a day of a year of an era.                *)
LEMMA Assembled ==
    ASSUME NEW era \in Int, NEW c, NEW q, NEW t, NEW doy, InEra(c, q, t, doy)
    PROVE  LET y == 400 * era + 100 * c + 4 * q + t
               mp == (5 * doy + 2) \div 153
               m == IF mp < 10 THEN mp + 3 ELSE mp - 9
           IN  CivilFromDays(146097 * era + EraDay(c, q, t, doy) - 719468)
                = Date(IF m <= 2 THEN y + 1 ELSE y, m, doy - (153 * mp + 2) \div 5 + 1)
<1> DEFINE e == EraDay(c, q, t, doy)
           n == 146097 * era + e - 719468
           shift == n + 719468
           z == 100 * c + 4 * q + t
           y == 400 * era + 100 * c + 4 * q + t
           mp == (5 * doy + 2) \div 153
           m == IF mp < 10 THEN mp + 3 ELSE mp - 9
<1>1. e \in Nat /\ e < 146097 /\ YearOfEra(e) = z
    BY YearFound
<1>2. shift % 146097 = e /\ shift \div 146097 = era
    <2> HIDE DEF e
    <2>1. shift = 146097 * era + e
        BY <1>1, SMT
    <2> HIDE DEF shift
    <2> QED
        BY <1>1, <2>1, SMT
<1>3. e - (365 * z + z \div 4 - z \div 100) = doy
    BY SMT DEF EraDay, InEra
<1>4. y = z + era * 400
    BY SMT DEF InEra
<1>5. CivilFromDays(n) =
          LET doe == shift % 146097
              yoe == YearOfEra(doe)
              dy == doe - (365 * yoe + yoe \div 4 - yoe \div 100)
              fm == (5 * dy + 2) \div 153
              mo == IF fm < 10 THEN fm + 3 ELSE fm - 9
              yr == yoe + (shift \div 146097) * 400
          IN  Date(IF mo <= 2 THEN yr + 1 ELSE yr, mo, dy - (153 * fm + 2) \div 5 + 1)
    BY DEF CivilFromDays
<1> HIDE DEF e, shift, z
<1>6. CivilFromDays(n) = Date(IF m <= 2 THEN y + 1 ELSE y, m, doy - (153 * mp + 2) \div 5 + 1)
    BY <1>1, <1>2, <1>3, <1>4, <1>5
<1> QED
    BY <1>6 DEF e, z

(* The number of a date leads back to the date, for every date there is.   *)
THEOREM DayThereAndBack ==
    ASSUME NEW d, RealDate(d)
    PROVE  CivilFromDays(DaysFromCivil(d)) = d
<1> DEFINE y == MarchYear(d)
           e == y % 400
           era == y \div 400
           c == e \div 100
           q == (e % 100) \div 4
           t == e % 4
           mp == (d.month + 9) % 12
           doy == (153 * mp + 2) \div 5 + d.day - 1
<1>0. d.year \in Int /\ d.month \in 1 .. 12 /\ d.day \in 1 .. DaysInMonth(d.year, d.month)
    BY DEF RealDate
<1>1. /\ mp \in 0 .. 11
      /\ d.month = IF mp < 10 THEN mp + 3 ELSE mp - 9
      /\ d.day \in 1 .. MarchLength(mp)
      /\ d.month = 2 /\ ~IsLeapYear(d.year) => d.day < 29
    BY <1>0, FebruaryLast DEF MarchLength
<1>2. /\ doy \in 0 .. 365 /\ (5 * doy + 2) \div 153 = mp
      /\ doy = 365 => mp = 11 /\ d.day = 29
    <2> HIDE DEF mp
    <2> QED
        BY <1>1, MonthFound
<1>3. y \in Int /\ e \in 0 .. 399 /\ y = 400 * era + e /\ era \in Int
    BY <1>0, SMT DEF MarchYear
<1>4. /\ c \in 0 .. 3 /\ q \in 0 .. 24 /\ t \in 0 .. 3 /\ e = 100 * c + 4 * q + t
      /\ e \div 4 = 25 * c + q /\ e \div 100 = c
    BY <1>3, SMT
<1>5. doy = 365 => t = 3 /\ (q = 24 => c = 3)
    <2> SUFFICES ASSUME doy = 365 PROVE t = 3 /\ (q = 24 => c = 3)
        OBVIOUS
    <2>1. IsLeapYear(d.year) /\ d.year = y + 1
        BY <1>1, <1>2, <1>0 DEF MarchYear
    <2>2. IsLeapYear(400 * era + 100 * c + 4 * q + t + 1)
        BY <2>1, <1>3, <1>4
    <2> HIDE DEF c, q, t, era, e, y
    <2> QED
        BY <2>2, <1>3, <1>4, SMT DEF IsLeapYear
<1>6. InEra(c, q, t, doy)
    BY <1>2, <1>4, <1>5 DEF InEra
<1>7. DaysFromCivil(d) = 146097 * era + EraDay(c, q, t, doy) - 719468
    <2>1. DaysFromCivil(d) = era * 146097 + e * 365 + e \div 4 - e \div 100 + doy - 719468
        BY DEF DaysFromCivil, DayOfMarchYear
    <2>2. doy \in Int
        BY <1>2
    <2> HIDE DEF c, q, t, era, e, y, doy
    <2> QED
        BY <2>1, <2>2, <1>3, <1>4, SMT DEF EraDay
<1>8. CivilFromDays(146097 * era + EraDay(c, q, t, doy) - 719468)
        = LET f == (5 * doy + 2) \div 153
              m == IF f < 10 THEN f + 3 ELSE f - 9
              z == 400 * era + 100 * c + 4 * q + t
          IN  Date(IF m <= 2 THEN z + 1 ELSE z, m, doy - (153 * f + 2) \div 5 + 1)
    <2> HIDE DEF c, q, t, era, doy
    <2> QED
        BY <1>3, <1>6, Assembled
<1>9. /\ 400 * era + 100 * c + 4 * q + t = y
      /\ doy - (153 * mp + 2) \div 5 + 1 = d.day
      /\ d.year = IF d.month <= 2 THEN y + 1 ELSE y
    <2>1. doy - (153 * mp + 2) \div 5 + 1 = d.day
        BY <1>0, <1>1, <1>2
    <2>2. d.year = IF d.month <= 2 THEN y + 1 ELSE y
        BY <1>0 DEF MarchYear
    <2> HIDE DEF c, q, t, era, e, y
    <2> QED
        BY <1>3, <1>4, <2>1, <2>2, SMT
<1>10. d = Date(d.year, d.month, d.day)
    BY DEF RealDate
<1> HIDE DEF c, q, t, era, e, y, doy, mp
<1> QED
    BY <1>1, <1>2, <1>7, <1>8, <1>9, <1>10

(* Every number is the number of a date there is.                          *)
THEOREM NumberThereAndBack ==
    ASSUME NEW n \in Int
    PROVE  /\ RealDate(CivilFromDays(n))
           /\ DaysFromCivil(CivilFromDays(n)) = n
<1> DEFINE era == (n + 719468) \div 146097
           doe == (n + 719468) % 146097
<1>1. era \in Int /\ doe \in Nat /\ doe < 146097 /\ n = 146097 * era + doe - 719468
    BY SMT
<1> HIDE DEF era, doe
<1>2. PICK c, q, t, doy : InEra(c, q, t, doy) /\ doe = EraDay(c, q, t, doy)
    BY <1>1, EraParts
<1> DEFINE y == 400 * era + 100 * c + 4 * q + t
           mp == (5 * doy + 2) \div 153
           m == IF mp < 10 THEN mp + 3 ELSE mp - 9
           k == doy - (153 * mp + 2) \div 5 + 1
           year == IF m <= 2 THEN y + 1 ELSE y
           d == Date(year, m, k)
<1>3. CivilFromDays(n) = d
    BY <1>1, <1>2, Assembled
<1>4. /\ c \in 0 .. 3 /\ q \in 0 .. 24 /\ t \in 0 .. 3 /\ doy \in 0 .. 365
      /\ doy = 365 => t = 3 /\ (q = 24 => c = 3)
    BY <1>2 DEF InEra
<1>5. mp \in 0 .. 11 /\ k \in 1 .. MarchLength(mp) /\ y \in Int
    BY <1>1, <1>4, MonthParts
<1>6. m \in 1 .. 12 /\ mp = (m + 9) % 12 /\ year \in Int
    BY <1>5, SMT
<1>7. k \in 1 .. DaysInMonth(year, m)
    <2>1. CASE m = 2 /\ k = 29
        <3>1. mp = 11 /\ doy = 365
            BY <1>4, <1>5, <2>1
        <3>2. IsLeapYear(400 * era + 100 * c + 4 * q + t + 1)
            BY <1>1, <1>4, <3>1, SMT DEF IsLeapYear
        <3>3. IsLeapYear(year)
            BY <2>1, <3>2
        <3> HIDE DEF year, m, k, mp
        <3> QED
            BY <1>5, <1>6, <2>1, <3>3, FebruaryLast
    <2>2. CASE ~(m = 2 /\ k = 29)
        <3>1. m = 2 => mp = 11
            <4> HIDE DEF mp
            <4> QED
                BY <1>5, SMT
        <3>2. DaysInMonth(year, m) = IF m = 2 /\ ~IsLeapYear(year) THEN 28 ELSE MarchLength(mp)
            BY <1>6, FebruaryLast
        <3> HIDE DEF year, m, k, mp
        <3> QED
            BY <1>5, <1>6, <2>2, <3>1, <3>2 DEF MarchLength
    <2> QED
        BY <2>1, <2>2
<1>8. d.year = year /\ d.month = m /\ d.day = k
    BY DEF Date
<1>9. RealDate(d)
    <2> HIDE DEF year, m, k
    <2> QED
        BY <1>6, <1>7, <1>8 DEF RealDate
<1>10. MarchYear(d) = y /\ DayOfMarchYear(d) = doy
    <2>1. MarchYear(d) = y
        BY <1>5, <1>8 DEF MarchYear
    <2>2. DayOfMarchYear(d) = (153 * mp + 2) \div 5 + k - 1
        <3> HIDE DEF m, mp, k, year
        <3> QED
            BY <1>6, <1>8 DEF DayOfMarchYear
    <2>3. (153 * mp + 2) \div 5 + k - 1 = doy
        BY <1>4, <1>5
    <2> HIDE DEF m, mp, k, year, y
    <2> QED
        BY <2>1, <2>2, <2>3
<1>11. DaysFromCivil(d) = n
    <2> HIDE DEF d
    <2>1. DaysFromCivil(d) = (y \div 400) * 146097 + (y % 400) * 365 + (y % 400) \div 4
                               - (y % 400) \div 100 + doy - 719468
        BY <1>10 DEF DaysFromCivil
    <2>2. y \div 400 = era /\ y % 400 = 100 * c + 4 * q + t
        BY <1>1, <1>4, SMT
    <2>3. (100 * c + 4 * q + t) \div 4 = 25 * c + q /\ (100 * c + 4 * q + t) \div 100 = c
        BY <1>4, SMT
    <2> HIDE DEF y
    <2> QED
        BY <1>1, <1>2, <1>4, <2>1, <2>2, <2>3, SMT DEF EraDay
<1> HIDE DEF d, year
<1> QED
    BY <1>3, <1>9, <1>11
(***************************************************************************)
(* The dates of an agenda have numbers.                                    *)
(***************************************************************************)
IntDate(d) == d.year \in Int /\ d.month \in Int /\ d.day \in Int

LEMMA IntDateOfParts ==
    ASSUME NEW y \in Int, NEW m \in Int, NEW k \in Int
    PROVE  IntDate(Date(y, m, k))
BY DEF IntDate, Date

LEMMA CivilDateIsInt == ASSUME NEW d, CivilDate(d) PROVE IntDate(d)
BY DEF CivilDate, IntDate

LEMMA DayNumberInt == ASSUME NEW d, IntDate(d) PROVE DaysFromCivil(d) \in Int
<1>1. MarchYear(d) \in Int /\ DayOfMarchYear(d) \in Int
    BY DEF IntDate, MarchYear, DayOfMarchYear
<1> QED
    BY <1>1 DEF DaysFromCivil

LEMMA MonthLengthInt == ASSUME NEW y \in Int, NEW m \in Int PROVE DaysInMonth(y, m) \in Int
BY DEF DaysInMonth

LEMMA FromDaysInt == ASSUME NEW n \in Int PROVE IntDate(CivilFromDays(n))
<1> DEFINE shift == n + 719468
           dayOfEra == shift % 146097
           yearOfEra == YearOfEra(dayOfEra)
           dayOfYear == dayOfEra - (365 * yearOfEra + yearOfEra \div 4 - yearOfEra \div 100)
           fromMarch == (5 * dayOfYear + 2) \div 153
           month == IF fromMarch < 10 THEN fromMarch + 3 ELSE fromMarch - 9
           year == yearOfEra + (shift \div 146097) * 400
<1>1. shift \in Int /\ dayOfEra \in Int
    OBVIOUS
<1>2. yearOfEra \in Int
    BY <1>1 DEF YearOfEra
<1>3. dayOfYear \in Int
    BY <1>1, <1>2
<1>4. fromMarch \in Int
    BY <1>3
<1>5. month \in Int /\ year \in Int
    BY <1>1, <1>2, <1>4
<1>6. dayOfYear - (153 * fromMarch + 2) \div 5 + 1 \in Int
    BY <1>3, <1>4
<1>7. CivilFromDays(n) = Date(IF month <= 2 THEN year + 1 ELSE year, month,
                              dayOfYear - (153 * fromMarch + 2) \div 5 + 1)
    BY DEF CivilFromDays
<1>8. (IF month <= 2 THEN year + 1 ELSE year) \in Int
    BY <1>5
<1> HIDE DEF month, year, fromMarch, dayOfYear
<1> QED
    BY <1>5, <1>6, <1>7, <1>8, IntDateOfParts

LEMMA NextBusinessDayInt ==
    ASSUME NEW d, IntDate(d), NEW S
    PROVE  IntDate(NextBusinessDay(d, S))
<1> DEFINE Candidate(k) == IF k = 0 THEN d ELSE AddDays(d, k)
           Workday(k) == ~IsWeekend(Candidate(k)) /\ Candidate(k) \notin S
           First(k) == Workday(k) /\ \A j \in 0 .. k - 1 : ~Workday(j)
<1>1. ASSUME NEW k \in Int PROVE IntDate(Candidate(k))
    <2>1. IntDate(AddDays(d, k))
        BY DayNumberInt, FromDaysInt DEF AddDays
    <2> QED
        BY <2>1
<1>2. NextBusinessDay(d, S) = IF \E k \in 0 .. 9 : First(k)
                              THEN Candidate(CHOOSE k \in 0 .. 9 : First(k))
                              ELSE Candidate(10)
    BY DEF NextBusinessDay, OpenDay
<1> HIDE DEF Candidate, First
<1>3. CASE \E k \in 0 .. 9 : First(k)
    <2>1. (CHOOSE k \in 0 .. 9 : First(k)) \in 0 .. 9
        BY <1>3
    <2> QED
        BY <1>1, <1>2, <1>3, <2>1
<1> QED
    BY <1>1, <1>2, <1>3

LEMMA AddMonthsInt ==
    ASSUME NEW d, IntDate(d), NEW n \in Int
    PROVE  IntDate(AddMonths(d, n))
<1> DEFINE zeroBased == d.month - 1 + n
           year == d.year + zeroBased \div 12
           month == (zeroBased % 12) + 1
<1>1. year \in Int /\ month \in Int /\ d.day \in Int
    BY DEF IntDate
<1> HIDE DEF year, month
<1>2. SmallerOf(d.day, DaysInMonth(year, month)) \in Int
    BY <1>1, MonthLengthInt DEF SmallerOf
<1> QED
    BY <1>1, <1>2, IntDateOfParts DEF AddMonths, year, month
(* Whatever a pack publishes for a rule has a month and a day.             *)
LEMMA PublishedInt ==
    ASSUME NEW p \in 1 .. Len(Packs), NEW r \in Rules, NEW y
    PROVE  /\ PublishedFor(Packs[p], r, y) \subseteq [month : Int, day : Int]
           /\ Pattern(Packs[p], r) \subseteq [month : Int, day : Int]
<1>1. \A z \in DOMAIN Packs[p].published[r] :
          Packs[p].published[r][z] \subseteq [month : Int, day : Int]
    BY PacksAssumption
<1>2. PublishedFor(Packs[p], r, y) \subseteq [month : Int, day : Int]
    BY <1>1 DEF PublishedFor
<1>3. \A z \in DOMAIN Packs[p].published[r] :
          Survivors(Packs[p].published[r][z]) \subseteq [month : Int, day : Int]
    BY <1>1 DEF Survivors
<1>4. Pattern(Packs[p], r) \subseteq [month : Int, day : Int]
    BY <1>3 DEF Pattern
<1> QED
    BY <1>2, <1>4

(* Every period falls due in some month of some year.                      *)
LEMMA PeriodsInt ==
    ASSUME NEW p \in 1 .. Len(Packs), NEW r \in Rules, NEW y \in Int,
           NEW seed \in Periods(Packs[p], r, y)
    PROVE  seed.dueYear \in Int /\ seed.dueMonth \in Int
<1>1. ASSUME NEW from, NEW to, NEW base, IntDate(base)
      PROVE  LET s == LaggedSeed(from, to, base, RuleOf[r].lag)
             IN  s.dueYear \in Int /\ s.dueMonth \in Int
    <2>1. RuleOf[r].lag \in Int
        BY RulesAssumption
    <2>2. IntDate(AddMonths(base, RuleOf[r].lag))
        BY <1>1, <2>1, AddMonthsInt
    <2> QED
        BY <2>2 DEF LaggedSeed, Seed, IntDate
<1>2. CASE RuleOf[r].periodicity = "Monthly"
    <2>1. PICK m \in 1 .. 12 :
              seed = LaggedSeed(MonthStart(y, m), MonthEnd(y, m), MonthStart(y, m), RuleOf[r].lag)
        BY <1>2 DEF Periods, MonthSeeds
    <2>2. IntDate(MonthStart(y, m))
        BY IntDateOfParts DEF MonthStart
    <2> QED
        BY <1>1, <2>1, <2>2
<1>3. CASE RuleOf[r].periodicity = "Quarterly"
    <2>1. PICK q \in 1 .. 4 :
              seed = LaggedSeed(QuarterStart(y, q), QuarterEnd(y, q), QuarterEnd(y, q), RuleOf[r].lag)
        BY <1>3 DEF Periods, QuarterSeeds
    <2>2. IntDate(QuarterEnd(y, q))
        <3>1. (q - 1) * 3 + 3 \in Int
            OBVIOUS
        <3> QED
            BY <3>1, MonthLengthInt, IntDateOfParts DEF QuarterEnd, MonthEnd
    <2> QED
        BY <1>1, <2>1, <2>2
<1>4. CASE RuleOf[r].periodicity = "Annual"
    <2>1. ASSUME NEW e \in AnnualDueMonths(Packs[p], r) PROVE e.month \in Int
        <3> DEFINE explicit == IF RuleOf[r].deadline = None THEN None ELSE RuleOf[r].deadline.month
        <3>1. explicit = None \/ explicit \in Int
            BY RulesAssumption
        <3>2. CASE explicit # None
            BY <2>1, <3>1, <3>2 DEF AnnualDueMonths
        <3>3. CASE explicit = None
            <4>1. e \in Pattern(Packs[p], r) \/ e = [month |-> 6, day |-> 0]
                BY <2>1, <3>3 DEF AnnualDueMonths
            <4> QED
                BY <4>1, PublishedInt
        <3> QED
            BY <3>2, <3>3
    <2>2. ASSUME NEW e \in Survivors(PublishedFor(Packs[p], r, y)) PROVE e.month \in Int
        <3>1. e \in PublishedFor(Packs[p], r, y)
            BY <2>2 DEF Survivors
        <3>2. PublishedFor(Packs[p], r, y) \subseteq [month : Int, day : Int]
            BY PublishedInt
        <3> QED
            BY <3>1, <3>2
    <2>3. PICK e \in Survivors(PublishedFor(Packs[p], r, y)) \union AnnualDueMonths(Packs[p], r) :
              seed.dueYear = y /\ seed.dueMonth = e.month
        BY <1>4 DEF Periods, AnnualSeeds, Seed
    <2> QED
        BY <2>1, <2>2, <2>3
<1>5. CASE RuleOf[r].periodicity = "Continuous"
    BY <1>5 DEF Periods, Seed
<1>6. CASE RuleOf[r].periodicity = "EventDriven"
    BY <1>6 DEF Periods
<1> QED
    BY <1>2, <1>3, <1>4, <1>5, <1>6, RulesAssumption

(* The day a deadline fixes is a number, when it fixes one.                *)
LEMMA LegalDayInt ==
    ASSUME NEW r \in Rules, NEW y \in Int, NEW m \in Int
    PROVE  LegalDay(RuleOf[r].deadline, y, m) \in Int \union {None}
<1> DEFINE deadline == RuleOf[r].deadline
<1>1. CASE deadline = None
    BY <1>1 DEF LegalDay
<1>2. CASE deadline # None
    <2>1. /\ deadline.kind \in {"DayOfMonth", "FixedDate", "Range", "LastDayOfMonth",
                                "MonthOfYear", "DayRange", "DaysAfterEvent", "RetentionYears"}
          /\ deadline.day \in Int \union {None}
          /\ deadline.dayTo \in Int \union {None}
        BY <1>2, RulesAssumption
    <2>2. DaysInMonth(y, m) \in Int
        BY MonthLengthInt
    <2> HIDE DEF deadline
    <2>3. LegalDay(deadline, y, m) \in Int \union {None}
        BY <1>2, <2>1, <2>2 DEF LegalDay
    <2> QED
        BY <2>3 DEF deadline
<1> QED
    BY <1>1, <1>2

LEMMA DueDateInt ==
    ASSUME NEW p \in 1 .. Len(Packs), NEW r \in Rules, NEW seed,
           seed.dueYear \in Int, seed.dueMonth \in Int
    PROVE  IntDate(ResolveDueDate(Packs[p], r, seed).due)
<1> DEFINE pack == Packs[p]
           On(day) == Date(seed.dueYear, seed.dueMonth,
                           SmallerOf(day, DaysInMonth(seed.dueYear, seed.dueMonth)))
           matched == PublishedIn(PublishedFor(pack, r, seed.dueYear), seed.dueMonth)
           official == On((CHOOSE e \in matched : TRUE).day)
           legalDay == LegalDay(RuleOf[r].deadline, seed.dueYear, seed.dueMonth)
           legal == On(legalDay)
           business == NextBusinessDay(legal, {})
           last == MonthEnd(seed.dueYear, seed.dueMonth)
<1>1. DaysInMonth(seed.dueYear, seed.dueMonth) \in Int
    BY MonthLengthInt
<1>2. ASSUME NEW day \in Int PROVE IntDate(On(day))
    <2>1. SmallerOf(day, DaysInMonth(seed.dueYear, seed.dueMonth)) \in Int
        BY <1>1 DEF SmallerOf
    <2> QED
        BY <2>1, IntDateOfParts
<1>3. ASSUME matched # {} PROVE IntDate(official)
    <2>1. \A e \in matched : e.day \in Int
        BY PublishedInt DEF PublishedIn
    <2>2. (CHOOSE e \in matched : TRUE) \in matched
        BY <1>3
    <2> HIDE DEF On, matched
    <2> QED
        BY <1>2, <2>1, <2>2
<1>4. legalDay \in Int \union {None}
    BY LegalDayInt
<1>5. ASSUME legalDay # None PROVE IntDate(business)
    <2>1. IntDate(legal)
        BY <1>2, <1>4, <1>5
    <2> QED
        BY <2>1, NextBusinessDayInt
<1>6. IntDate(last)
    BY <1>1, IntDateOfParts DEF MonthEnd
<1>7. ResolveDueDate(pack, r, seed).due \in
          (IF matched # {} THEN {official} ELSE {})
          \union (IF legalDay # None THEN {business} ELSE {last})
    BY DEF ResolveDueDate, Resolved
<1> HIDE DEF matched, official, legalDay, business, last
<1> QED
    BY <1>3, <1>5, <1>6, <1>7
(***************************************************************************)
(* What every reachable state satisfies: the day a window shows is not     *)
(* ahead of the wall, and every line of its agenda has the status the      *)
(* engine gives its rule and date today, on the window's calendar.         *)
(***************************************************************************)
Clocked ==
    /\ CivilDate(today) /\ today.year > 0
    /\ window # None => /\ CivilDate(window.today)
                        /\ window.year \in Int
                        /\ DaysFromCivil(window.today) <= DaysFromCivil(today)

Chosen == release \in 1 .. Len(Packs) /\ profile \in Profiles \union {None}

LineIsRight(i, who, day, done) ==
    /\ IntDate(i.due)
    /\ i.status = IF i.rule \in who.applies
                  THEN Status(i.rule, i.due, day, who.trackFrom, done)
                  ELSE "NotApplicable"

Lines ==
    \A i \in agenda :
        /\ window # None /\ profile \in Profiles
        /\ LineIsRight(i, profile, window.today, completed)

Inv == Clocked /\ Chosen /\ Lines

(* The lines build_agenda makes are such lines.                            *)
LEMMA AgendaLine ==
    ASSUME NEW p \in 1 .. Len(Packs), NEW who \in Profiles, NEW y \in Int, NEW day, NEW done,
           NEW i \in BuildAgenda(Packs[p], who, y, day, done)
    PROVE  LineIsRight(i, who, day, done)
<1>1. CASE i \in {NotApplicable(r, y) : r \in Rules \ who.applies}
    <2>1. PICK r \in Rules \ who.applies : i = NotApplicable(r, y)
        BY <1>1
    <2>2. i.rule = r /\ i.due = Date(y, 12, 31) /\ i.status = "NotApplicable"
        BY <2>1 DEF NotApplicable
    <2> QED
        BY <2>1, <2>2, IntDateOfParts DEF LineIsRight
<1>2. CASE i \in UNION {{Instance(Packs[p], r, seed, day, who.trackFrom, done) :
                           seed \in Periods(Packs[p], r, y)} : r \in who.applies}
    <2>1. PICK r \in who.applies : \E seed \in Periods(Packs[p], r, y) :
              i = Instance(Packs[p], r, seed, day, who.trackFrom, done)
        BY <1>2
    <2>2. PICK seed \in Periods(Packs[p], r, y) :
              i = Instance(Packs[p], r, seed, day, who.trackFrom, done)
        BY <2>1
    <2>3. r \in Rules
        BY ProfilesAssumption
    <2>4. seed.dueYear \in Int /\ seed.dueMonth \in Int
        BY <2>3, PeriodsInt
    <2>5. IntDate(ResolveDueDate(Packs[p], r, seed).due)
        BY <2>3, <2>4, DueDateInt
    <2>6. /\ i.rule = r /\ i.due = ResolveDueDate(Packs[p], r, seed).due
          /\ i.status = Status(r, i.due, day, who.trackFrom, done)
        BY <2>2 DEF Instance, InstanceOn
    <2> QED
        BY <2>5, <2>6 DEF LineIsRight
<1> QED
    BY <1>1, <1>2 DEF BuildAgenda

LEMMA AgendaLines ==
    \A p \in 1 .. Len(Packs), who \in Profiles, y \in Int : \A day, done :
        \A i \in BuildAgenda(Packs[p], who, y, day, done) : LineIsRight(i, who, day, done)
    BY AgendaLine

LEMMA RebuiltLines ==
    ASSUME Rebuilt, Chosen', window' # None => window'.year \in Int
    PROVE  Lines'
<1>1. CASE window' = None \/ profile' = None
    BY <1>1 DEF Rebuilt, Lines
<1>2. CASE window' # None /\ profile' # None
    <2>1. agenda' = BuildAgenda(Packs[release'], profile', window'.year, window'.today, completed')
        BY <1>2 DEF Rebuilt
    <2>2. release' \in 1 .. Len(Packs) /\ profile' \in Profiles /\ window'.year \in Int
        BY <1>2 DEF Chosen
    <2>3. \A i \in agenda' :
              LineIsRight(i, profile', window'.today, completed')
        BY <2>1, <2>2, AgendaLines
    <2> QED
        BY <1>2, <2>2, <2>3 DEF Lines
<1> QED
    BY <1>1, <1>2

LEMMA InvInit == Init => Inv
<1> SUFFICES ASSUME Init PROVE Inv
    OBVIOUS
<1>1. Clocked
    BY StartDaysAssumption DEF Init, Clocked
<1>2. Chosen
    BY PacksAssumption DEF Init, Chosen
<1>3. Lines
    BY DEF Init, Lines
<1> QED
    BY <1>1, <1>2, <1>3 DEF Inv

LEMMA InvStep == Inv /\ [Next]_vars => Inv'
<1> SUFFICES ASSUME Inv, [Next]_vars PROVE Inv'
    OBVIOUS
<1>1. Clocked /\ Chosen /\ Lines
    BY DEF Inv
<1>2. CASE PassDay
    <2>1. /\ today' = NextDay(today) /\ window' = window /\ agenda' = agenda
          /\ UNCHANGED <<release, profile, completed>>
        BY <1>2 DEF PassDay
    <2>2. /\ CivilDate(today') /\ today'.year > 0
          /\ DaysFromCivil(today) \in Int /\ DaysFromCivil(today') = DaysFromCivil(today) + 1
        BY <1>1, <2>1, NextDayCounts DEF Clocked
    <2>3. window # None => DaysFromCivil(window.today) \in Int
        BY <1>1, CivilDateIsInt, DayNumberInt DEF Clocked
    <2>4. Clocked'
        BY <1>1, <2>1, <2>2, <2>3 DEF Clocked
    <2>5. Chosen' /\ Lines'
        BY <1>1, <2>1 DEF Chosen, Lines
    <2> QED
        BY <2>4, <2>5 DEF Inv
<1>3. CASE Open
    <2>1. /\ window' = [today |-> today, year |-> today.year]
          /\ release' \in release .. Len(Packs)
          /\ UNCHANGED <<today, profile>>
        BY <1>3 DEF Open, clock
    <2>2. today.year \in Int /\ DaysFromCivil(today) \in Int
        BY <1>1, CivilDateIsInt, DayNumberInt DEF Clocked, IntDate
    <2>3. Clocked'
        BY <1>1, <2>1, <2>2 DEF Clocked
    <2>4. Chosen'
        BY <1>1, <2>1, PacksAssumption DEF Chosen
    <2>5. Lines'
        BY <1>3, <2>3, <2>4, RebuiltLines DEF Open, Clocked
    <2> QED
        BY <2>3, <2>4, <2>5 DEF Inv
<1>4. CASE Complete
    <2>1. UNCHANGED <<today, window, release, profile>>
        BY <1>4 DEF Complete, clock
    <2>2. Clocked' /\ Chosen'
        BY <1>1, <2>1 DEF Clocked, Chosen
    <2>3. Lines'
        BY <1>4, <2>2, RebuiltLines DEF Complete, Clocked
    <2> QED
        BY <2>2, <2>3 DEF Inv
<1>5. CASE SaveProfile
    <2>1. UNCHANGED <<today, window, release>> /\ profile' \in Profiles
        BY <1>5 DEF SaveProfile, clock
    <2>2. Clocked' /\ Chosen'
        BY <1>1, <2>1 DEF Clocked, Chosen
    <2>3. Lines'
        BY <1>5, <2>2, RebuiltLines DEF SaveProfile, Clocked
    <2> QED
        BY <2>2, <2>3 DEF Inv
<1>6. CASE UNCHANGED vars
    BY <1>1, <1>6 DEF vars, Inv, Clocked, Chosen, Lines
<1> QED
    BY <1>2, <1>3, <1>4, <1>5, <1>6 DEF Next

THEOREM InvHolds == Spec => []Inv
<1>1. Init => Inv
    BY InvInit
<1>2. Inv /\ [Next]_vars => Inv'
    BY InvStep
<1> QED
    BY <1>1, <1>2, PTL DEF Spec

(***************************************************************************)
(* What no passing day, and no step, does to the agenda.                   *)
(***************************************************************************)

(* When a day passes on the wall exactly one passes in the arithmetic of   *)
(* dates.rs, for every day from the year 1 on.                             *)
THEOREM EveryDayCounted == Spec => DaysCounted
<1>1. Inv /\ [Next]_vars => [today' # today => DaysBetween(today, today') = 1]_vars
    <2> SUFFICES ASSUME Inv, [Next]_vars, today' # today
                 PROVE  DaysBetween(today, today') = 1
        OBVIOUS
    <2>1. PassDay
        BY DEF Next, Open, Complete, SaveProfile, vars, clock
    <2>2. /\ DaysFromCivil(today) \in Int
          /\ DaysFromCivil(today') = DaysFromCivil(today) + 1
        BY <2>1, NextDayCounts DEF PassDay, Inv, Clocked
    <2> QED
        BY <2>2 DEF DaysBetween
<1> QED
    BY <1>1, InvHolds, PTL DEF Spec, DaysCounted

(* The status of one line, on two days and with more handled on the later. *)
LEMMA StatusForward ==
    ASSUME NEW r, NEW due, IntDate(due), NEW track,
           NEW day1, NEW day2, IntDate(day1), IntDate(day2),
           DaysFromCivil(day1) <= DaysFromCivil(day2),
           NEW done1, NEW done2, done1 \subseteq done2
    PROVE  LET before == Status(r, due, day1, track, done1)
               after == Status(r, due, day2, track, done2)
           IN  /\ Rank(before) <= Rank(after)
               /\ before = "Future" /\ DaysBetween(day1, day2) <= DueSoonDays
                    => after # "Overdue"
<1> DEFINE delta1 == DaysBetween(day1, due)
           delta2 == DaysBetween(day2, due)
<1>1. /\ DaysFromCivil(due) \in Int /\ DaysFromCivil(day1) \in Int /\ DaysFromCivil(day2) \in Int
    BY DayNumberInt
<1>2. /\ delta1 \in Int /\ delta2 \in Int /\ delta2 <= delta1
      /\ DaysBetween(day1, day2) = delta1 - delta2
    BY <1>1 DEF DaysBetween
<1>3. CASE <<r, due>> \in done2
    BY <1>3 DEF Status, StatusByDate, Rank
<1>4. CASE <<r, due>> \notin done2
    <2>1. CASE track # None /\ Earlier(due, track)
        BY <1>4, <2>1 DEF Status, Rank
    <2>2. CASE ~(track # None /\ Earlier(due, track))
        <3>1. /\ Status(r, due, day1, track, done1) = StatusByDate(r, delta1)
              /\ Status(r, due, day2, track, done2) = StatusByDate(r, delta2)
            BY <1>4, <2>2 DEF Status
        <3> HIDE DEF delta1, delta2
        <3> QED
            BY <1>2, <3>1 DEF StatusByDate, Rank, DueSoonDays
    <2> QED
        BY <2>1, <2>2
<1> QED
    BY <1>3, <1>4

(* No step takes a completion back or a window to an earlier day.          *)
LEMMA StepForward ==
    ASSUME Inv, [Next]_vars
    PROVE  /\ completed \subseteq completed'
           /\ window # None => DaysFromCivil(window.today) <= DaysFromCivil(window'.today)
<1>1. window # None => DaysFromCivil(window.today) \in Int
    BY CivilDateIsInt, DayNumberInt DEF Inv, Clocked
<1>2. CASE Open
    BY <1>2 DEF Open, Inv, Clocked
<1>3. CASE Complete
    BY <1>1, <1>3 DEF Complete
<1>4. CASE PassDay \/ SaveProfile \/ UNCHANGED vars
    BY <1>1, <1>4 DEF PassDay, SaveProfile, vars
<1> QED
    BY <1>2, <1>3, <1>4 DEF Next

LEMMA LineForward ==
    ASSUME Inv, Inv', [Next]_vars, profile' = profile,
           NEW i \in agenda, NEW j \in agenda', Id(j) = Id(i)
    PROVE  /\ Rank(i.status) <= Rank(j.status)
           /\ i.status = "Future" /\ DaysBetween(window.today, window'.today) <= DueSoonDays
                => j.status # "Overdue"
<1>1. j.rule = i.rule /\ j.due = i.due
    BY DEF Id
<1>2. /\ window # None /\ profile \in Profiles /\ IntDate(i.due)
      /\ i.status = IF i.rule \in profile.applies
                    THEN Status(i.rule, i.due, window.today, profile.trackFrom, completed)
                    ELSE "NotApplicable"
    BY DEF Inv, Lines, LineIsRight
<1>3. /\ window' # None
      /\ j.status = IF i.rule \in profile.applies
                    THEN Status(i.rule, i.due, window'.today, profile.trackFrom, completed')
                    ELSE "NotApplicable"
    BY <1>1 DEF Inv, Lines, LineIsRight
<1>4. IntDate(window.today) /\ IntDate(window'.today)
    BY <1>2, <1>3, CivilDateIsInt DEF Inv, Clocked
<1>5. CASE i.rule \in profile.applies
    BY <1>2, <1>3, <1>4, <1>5, StepForward, StatusForward
<1>6. CASE i.rule \notin profile.applies
    BY <1>2, <1>3, <1>6 DEF Rank
<1> QED
    BY <1>5, <1>6

(* While the profile stays, no line of the agenda goes back, for every     *)
(* pack, profile and course of events.                                     *)
THEOREM LinesNeverGoBack == Spec => NeverGoesBack
<1>1. Inv /\ Inv' /\ [Next]_vars =>
          [profile' = profile =>
               \A i \in agenda \ agenda' : \A j \in agenda' :
                   Id(j) = Id(i) => Rank(i.status) <= Rank(j.status)]_vars
    BY LineForward
<1> QED
    BY <1>1, InvHolds, PTL DEF Spec, NeverGoesBack

(* Between two agendas no more than thirty days apart no line becomes late *)
(* without having been due soon, for every pack, profile and course of     *)
(* events.                                                                 *)
THEOREM NobodyLateUnwarned == Spec => WarnedBeforeLate
<1>1. Inv /\ Inv' /\ [Next]_vars =>
          [/\ profile' = profile /\ window # None /\ window' # None
           /\ DaysBetween(window.today, window'.today) <= DueSoonDays
           => \A i \in agenda \ agenda' : \A j \in agenda' :
                  i.status = "Future" /\ Id(j) = Id(i) => j.status # "Overdue"]_vars
    BY LineForward
<1> QED
    BY <1>1, InvHolds, PTL DEF Spec, WarnedBeforeLate

(***************************************************************************)
(* A weekend moves a date to the Monday after it.                          *)
(***************************************************************************)
LEMMA CivilIsReal == ASSUME NEW d, CivilDate(d) PROVE RealDate(d)
BY DEF CivilDate, RealDate, Date

LEMMA DaysAdded ==
    ASSUME NEW d, CivilDate(d), d.year > 0
    PROVE  /\ AddDays(d, 1) = NextDay(d) /\ AddDays(d, 2) = NextDay(NextDay(d))
           /\ CivilDate(NextDay(d)) /\ CivilDate(NextDay(NextDay(d)))
           /\ DaysFromCivil(d) \in Int
           /\ DaysFromCivil(NextDay(d)) = DaysFromCivil(d) + 1
           /\ DaysFromCivil(NextDay(NextDay(d))) = DaysFromCivil(d) + 2
<1> DEFINE e == NextDay(d)
           f == NextDay(NextDay(d))
<1>1. /\ CivilDate(e) /\ e.year > 0
      /\ DaysFromCivil(d) \in Int /\ DaysFromCivil(e) = DaysFromCivil(d) + 1
    BY NextDayCounts
<1> HIDE DEF e
<1>2. CivilDate(NextDay(e)) /\ DaysFromCivil(NextDay(e)) = DaysFromCivil(e) + 1
    BY <1>1, NextDayCounts
<1>3. CivilFromDays(DaysFromCivil(e)) = e /\ CivilFromDays(DaysFromCivil(NextDay(e))) = NextDay(e)
    BY <1>1, <1>2, CivilIsReal, DayThereAndBack
<1>4. DaysFromCivil(NextDay(e)) = DaysFromCivil(d) + 2
    BY <1>1, <1>2
<1> QED
    BY <1>1, <1>2, <1>3, <1>4 DEF AddDays, e

LEMMA MovedToMonday ==
    ASSUME NEW d, CivilDate(d), d.year > 0
    PROVE  LET moved == NextBusinessDay(d, {})
           IN  /\ moved \in {d, NextDay(d), NextDay(NextDay(d))}
               /\ DayOfWeek(moved) \in 1 .. 5
               /\ moved # d => DayOfWeek(moved) = 1
<1> DEFINE Candidate(k) == IF k = 0 THEN d ELSE AddDays(d, k)
           Workday(k) == ~IsWeekend(Candidate(k))
           First(k) == Workday(k) /\ \A j \in 0 .. k - 1 : ~Workday(j)
           moved == NextBusinessDay(d, {})
<1>1. moved = IF \E k \in 0 .. 9 : First(k)
              THEN Candidate(CHOOSE k \in 0 .. 9 : First(k))
              ELSE Candidate(10)
    BY DEF NextBusinessDay, OpenDay
<1>2. Candidate(0) = d /\ Candidate(1) = NextDay(d) /\ Candidate(2) = NextDay(NextDay(d))
    BY DaysAdded
<1>3. /\ DayOfWeek(d) \in 0 .. 6
      /\ DayOfWeek(NextDay(d)) = (DayOfWeek(d) + 1) % 7
      /\ DayOfWeek(NextDay(NextDay(d))) = (DayOfWeek(d) + 2) % 7
    BY DaysAdded, SMT DEF DayOfWeek
<1> HIDE DEF Candidate, moved
<1>4. ASSUME NEW k \in 0 .. 9, First(k) PROVE moved = Candidate(k)
    <2>1. ASSUME NEW j \in 0 .. 9, First(j) PROVE j = k
        <3>1. ~(j < k) /\ ~(k < j)
            BY <1>4, <2>1
        <3> QED
            BY <3>1
    <2> HIDE DEF First
    <2> QED
        BY <1>1, <1>4, <2>1
<1>5. CASE DayOfWeek(d) \in 1 .. 5
    <2>1. First(0)
        BY <1>2, <1>5 DEF IsWeekend
    <2> HIDE DEF First
    <2> QED
        BY <1>2, <1>4, <1>5, <2>1 DEF moved
<1>6. CASE DayOfWeek(d) = 0
    <2>1. DayOfWeek(NextDay(d)) = 1
        BY <1>3, <1>6
    <2>2. First(1)
        BY <1>2, <1>6, <2>1 DEF IsWeekend
    <2> HIDE DEF First
    <2> QED
        BY <1>2, <1>4, <2>1, <2>2 DEF moved
<1>7. CASE DayOfWeek(d) = 6
    <2>1. DayOfWeek(NextDay(d)) = 0 /\ DayOfWeek(NextDay(NextDay(d))) = 1
        BY <1>3, <1>7
    <2>2. ~Workday(0) /\ ~Workday(1) /\ Workday(2)
        BY <1>2, <1>7, <2>1 DEF IsWeekend
    <2>3. First(2)
        BY <2>2
    <2> HIDE DEF First
    <2> QED
        BY <1>2, <1>4, <2>1, <2>3 DEF moved
<1> QED
    BY <1>3, <1>5, <1>6, <1>7

(* Months counted without regard to years.                                 *)
MonthCount(y, m) == 12 * y + m

LEMMA MonthOfCount ==
    ASSUME NEW y \in Int, NEW m \in 1 .. 12, NEW z \in Int, NEW n \in 1 .. 12,
           MonthCount(y, m) = MonthCount(z, n)
    PROVE  y = z /\ m = n
BY SMT DEF MonthCount

(* The Monday is in the month of the date, or on the first days of the     *)
(* next.                                                                   *)
LEMMA DayAfterIn ==
    ASSUME NEW d, CivilDate(d), d.year > 0
    PROVE  LET e == NextDay(d)
           IN  /\ e.year \in Nat /\ e.month \in 1 .. 12 /\ e.day \in 1 .. 31
               /\ \/ e.year = d.year /\ e.month = d.month /\ e.day = d.day + 1
                  \/ /\ MonthCount(e.year, e.month) = MonthCount(d.year, d.month) + 1
                     /\ e.day = 1 /\ d.day >= 28
<1>1. /\ d.year \in Nat /\ d.month \in 1 .. 12 /\ d.day \in 1 .. 31
      /\ d = Date(d.year, d.month, d.day)
      /\ d.day <= DaysInMonth(d.year, d.month)
      /\ DaysInMonth(d.year, d.month) \in 28 .. 31
    BY DayNumber, MonthLengths DEF CivilDate
<1>2. CivilDate(NextDay(d))
    BY NextDayCounts
<1>3. CASE d.day < DaysInMonth(d.year, d.month)
    <2>1. NextDay(d) = Date(d.year, d.month, d.day + 1)
        BY <1>1, <1>3 DEF NextDay, Date
    <2> QED
        BY <1>2, <2>1 DEF CivilDate, Date
<1>4. CASE ~(d.day < DaysInMonth(d.year, d.month)) /\ d.month < 12
    <2>1. NextDay(d) = Date(d.year, d.month + 1, 1)
        BY <1>4 DEF NextDay
    <2> QED
        BY <1>1, <1>2, <1>4, <2>1 DEF CivilDate, Date, MonthCount
<1>5. CASE ~(d.day < DaysInMonth(d.year, d.month)) /\ d.month = 12
    <2>1. NextDay(d) = Date(d.year + 1, 1, 1)
        BY <1>5 DEF NextDay
    <2> QED
        BY <1>1, <1>2, <1>5, <2>1 DEF CivilDate, Date, MonthCount
<1> QED
    BY <1>1, <1>3, <1>4, <1>5

LEMMA MovedWithin ==
    ASSUME NEW d, CivilDate(d), d.year > 0
    PROVE  LET e == NextBusinessDay(d, {})
           IN  /\ CivilDate(e)
               /\ \/ e.year = d.year /\ e.month = d.month /\ e.day >= d.day
                  \/ /\ MonthCount(e.year, e.month) = MonthCount(d.year, d.month) + 1
                     /\ e.day <= 2 /\ d.day >= 27
<1> DEFINE e == NextDay(d)
           f == NextDay(e)
<1>1. /\ d.year \in Nat /\ d.month \in 1 .. 12 /\ d.day \in 1 .. 31
    BY DEF CivilDate
<1>2. CivilDate(e) /\ e.year > 0 /\ CivilDate(f)
    BY NextDayCounts
<1>3. /\ e.year \in Nat /\ e.month \in 1 .. 12 /\ e.day \in 1 .. 31
      /\ \/ e.year = d.year /\ e.month = d.month /\ e.day = d.day + 1
         \/ /\ MonthCount(e.year, e.month) = MonthCount(d.year, d.month) + 1
            /\ e.day = 1 /\ d.day >= 28
    BY DayAfterIn
<1>4. /\ f.year \in Nat /\ f.month \in 1 .. 12 /\ f.day \in 1 .. 31
      /\ \/ f.year = e.year /\ f.month = e.month /\ f.day = e.day + 1
         \/ /\ MonthCount(f.year, f.month) = MonthCount(e.year, e.month) + 1
            /\ f.day = 1 /\ e.day >= 28
    <2> HIDE DEF e
    <2> QED
        BY <1>2, DayAfterIn
<1>5. NextBusinessDay(d, {}) \in {d, e, f}
    BY MovedToMonday
<1> HIDE DEF e, f
<1> QED
    BY <1>1, <1>2, <1>3, <1>4, <1>5

(***************************************************************************)
(* The dates of a period.                                                  *)
(***************************************************************************)

DayOfMonth(y, m, k) == Date(y, m, SmallerOf(k, DaysInMonth(y, m)))

IsCut(y, m, k, d) ==
    /\ CivilDate(d) /\ d.year = y /\ d.month = m
    /\ k <= 28 => d.day = k
    /\ k >= 27 => d.day >= 27
    /\ d.day <= k

(* A day of a month, cut to the month's length, is a date.                 *)
LEMMA CutToMonth ==
    ASSUME NEW y, y \in Nat, NEW m, m \in 1 .. 12, NEW k, k \in 1 .. 31
    PROVE  IsCut(y, m, k, DayOfMonth(y, m, k))
<1>1. DaysInMonth(y, m) \in 28 .. 31
    BY MonthLengths
<1> QED
    BY <1>1 DEF CivilDate, Date, SmallerOf, IsCut, DayOfMonth

LEMMA CivilParts ==
    ASSUME NEW d, CivilDate(d)
    PROVE  d.year \in Nat /\ d.month \in 1 .. 12 /\ d.day \in 1 .. 31
BY DEF CivilDate

(* What is published for a year are days of the year.                      *)
LEMMA PublishedDay ==
    ASSUME NEW p \in 1 .. Len(Packs), NEW r \in Rules, NEW y,
           NEW e \in PublishedFor(Packs[p], r, y)
    PROVE  /\ e = [month |-> e.month, day |-> e.day]
           /\ y \in Nat /\ e.month \in 1 .. 12 /\ e.day \in 1 .. 31
           /\ e.day <= DaysInMonth(y, e.month)
           /\ y \in DOMAIN Packs[p].published[r] /\ e \in Packs[p].published[r][y]
<1>1. y \in DOMAIN Packs[p].published[r] /\ e \in Packs[p].published[r][y]
    BY DEF PublishedFor
<1>2. CivilDate(Date(y, e.month, e.day))
    BY <1>1, PublishedDates
<1>3. e \in [month : Int, day : Int]
    BY <1>1, PacksAssumption
<1> QED
    BY <1>1, <1>2, <1>3 DEF CivilDate, Date

LEMMA LegalDayRange ==
    ASSUME NEW r \in Rules, NEW y \in Nat, NEW m \in 1 .. 12
    PROVE  /\ LegalDay(RuleOf[r].deadline, y, m) \in (1 .. 31) \union {None}
           /\ \A z \in Nat, n \in 1 .. 12 :
                  /\ LegalDay(RuleOf[r].deadline, y, m) \in 27 .. 31
                  /\ LegalDay(RuleOf[r].deadline, z, n) # None
                  => LegalDay(RuleOf[r].deadline, z, n) >= 27
<1> DEFINE deadline == RuleOf[r].deadline
<1>1. CASE deadline = None
    BY <1>1 DEF LegalDay
<1>2. CASE deadline # None
    <2>1. /\ deadline.kind \in {"DayOfMonth", "FixedDate", "Range", "LastDayOfMonth",
                                "MonthOfYear", "DayRange", "DaysAfterEvent", "RetentionYears"}
          /\ deadline.day \in (1 .. 31) \union {None}
          /\ deadline.dayTo \in (1 .. 31) \union {None}
        BY <1>2, RulesAssumption, PlausibleRules
    <2>2. \A z \in Nat, n \in 1 .. 12 : DaysInMonth(z, n) \in 28 .. 31
        BY MonthLengths
    <2> HIDE DEF deadline
    <2>3. CASE deadline.kind \in {"DaysAfterEvent", "RetentionYears"}
        BY <1>2, <2>3 DEF LegalDay, deadline
    <2>4. CASE deadline.kind \in {"LastDayOfMonth", "MonthOfYear"}
        <3>1. \A z \in Nat, n \in 1 .. 12 : LegalDay(deadline, z, n) = DaysInMonth(z, n)
            BY <1>2, <2>4 DEF LegalDay
        <3> QED
            BY <2>2, <3>1 DEF deadline
    <2>5. CASE deadline.kind \in {"DayOfMonth", "FixedDate", "Range", "DayRange"}
        <3>1. PICK k \in (1 .. 31) \union {None} :
                  \A z, n : LegalDay(deadline, z, n) = k
            BY <1>2, <2>1, <2>5 DEF LegalDay
        <3> QED
            BY <3>1 DEF deadline
    <2> QED
        BY <2>1, <2>3, <2>4, <2>5
<1> QED
    BY <1>1, <1>2

(* The three ways a period comes by its date.                              *)
AsPublished(pack, r, seed, resolved) ==
    /\ resolved.source = "Official"
    /\ \E e \in PublishedIn(PublishedFor(pack, r, seed.dueYear), seed.dueMonth) :
           resolved.due = Date(seed.dueYear, seed.dueMonth, e.day)

AtMonthEnd(r, seed, resolved) ==
    /\ LegalDay(RuleOf[r].deadline, seed.dueYear, seed.dueMonth) = None
    /\ resolved = Resolved(MonthEnd(seed.dueYear, seed.dueMonth), "Derived", FALSE)

LegalDate(r, seed) ==
    DayOfMonth(seed.dueYear, seed.dueMonth,
               LegalDay(RuleOf[r].deadline, seed.dueYear, seed.dueMonth))

ByLaw(r, seed, resolved) ==
    /\ LegalDay(RuleOf[r].deadline, seed.dueYear, seed.dueMonth) \in 1 .. 31
    /\ LegalDay(RuleOf[r].deadline, seed.dueYear, seed.dueMonth) # None
    /\ resolved.source = "Derived"
    /\ resolved.due = NextBusinessDay(LegalDate(r, seed), {})
    /\ resolved.adjusted <=> resolved.due # LegalDate(r, seed)

NonePublished(pack, r, seed) ==
    PublishedIn(PublishedFor(pack, r, seed.dueYear), seed.dueMonth) = {}

ThreeWays(pack, r, seed, resolved) ==
    \/ AsPublished(pack, r, seed, resolved)
    \/ AtMonthEnd(r, seed, resolved) /\ NonePublished(pack, r, seed)
    \/ ByLaw(r, seed, resolved) /\ NonePublished(pack, r, seed)

LEMMA Resolution ==
    ASSUME NEW p \in 1 .. Len(Packs), NEW r \in Rules, NEW seed,
           seed.dueYear \in Nat, seed.dueMonth \in 1 .. 12
    PROVE  ThreeWays(Packs[p], r, seed, ResolveDueDate(Packs[p], r, seed))
<1> DEFINE pack == Packs[p]
           On(day) == Date(seed.dueYear, seed.dueMonth,
                           SmallerOf(day, DaysInMonth(seed.dueYear, seed.dueMonth)))
           matched == PublishedIn(PublishedFor(pack, r, seed.dueYear), seed.dueMonth)
           chosen == CHOOSE e \in matched : TRUE
           legalDay == LegalDay(RuleOf[r].deadline, seed.dueYear, seed.dueMonth)
           business == NextBusinessDay(On(legalDay), {})
           resolved == ResolveDueDate(pack, r, seed)
<1>1. resolved = CASE matched # {} /\ (seed.pinned \/ legalDay = None) ->
                        Resolved(On(chosen.day), "Official", FALSE)
                   [] matched # {} /\ ~seed.pinned /\ legalDay # None ->
                        Resolved(On(chosen.day), "Official",
                                 On(chosen.day) = business /\ On(chosen.day) # On(legalDay))
                   [] matched = {} /\ legalDay = None ->
                        Resolved(MonthEnd(seed.dueYear, seed.dueMonth), "Derived", FALSE)
                   [] matched = {} /\ legalDay # None ->
                        Resolved(business, "Derived", business # On(legalDay))
    BY DEF ResolveDueDate
<1>2. legalDay \in (1 .. 31) \union {None}
    BY LegalDayRange
<1>3. CASE matched # {}
    <2>1. resolved.source = "Official" /\ resolved.due = On(chosen.day)
        <3> HIDE DEF matched, chosen, legalDay, business, On, resolved
        <3> QED
            BY <1>1, <1>3 DEF Resolved
    <2>2. chosen \in matched
        BY <1>3
    <2>3. chosen \in PublishedFor(pack, r, seed.dueYear) /\ chosen.month = seed.dueMonth
        BY <2>2 DEF PublishedIn
    <2>4. chosen.day \in 1 .. 31 /\ chosen.day <= DaysInMonth(seed.dueYear, seed.dueMonth)
        BY <2>3, PublishedDay
    <2>5. On(chosen.day) = Date(seed.dueYear, seed.dueMonth, chosen.day)
        BY <2>4 DEF SmallerOf
    <2> HIDE DEF On, chosen
    <2> QED
        BY <2>1, <2>2, <2>5 DEF AsPublished, ThreeWays
<1>4. CASE matched = {} /\ legalDay = None
    <2>1. resolved = Resolved(MonthEnd(seed.dueYear, seed.dueMonth), "Derived", FALSE)
        <3> HIDE DEF matched, chosen, legalDay, business, On, resolved
        <3> QED
            BY <1>1, <1>4
    <2> QED
        BY <1>4, <2>1 DEF AtMonthEnd, NonePublished, ThreeWays, Resolved
<1>5. CASE matched = {} /\ legalDay # None
    <2>1. resolved = Resolved(business, "Derived", business # On(legalDay))
        <3> HIDE DEF matched, chosen, legalDay, business, On, resolved
        <3> QED
            BY <1>1, <1>5
    <2>2. On(legalDay) = LegalDate(r, seed)
        BY DEF LegalDate, DayOfMonth
    <2>3. /\ resolved.source = "Derived" /\ resolved.due = business
          /\ resolved.adjusted <=> business # On(legalDay)
        <3> HIDE DEF legalDay, business, On, resolved
        <3> QED
            BY <2>1 DEF Resolved
    <2>4. ThreeWays(Packs[p], r, seed, resolved)
        <3> HIDE DEF resolved
        <3> QED
            BY <1>2, <1>5, <2>2, <2>3 DEF ByLaw, NonePublished, ThreeWays
    <2> QED
        BY <2>4
<1> QED
    BY <1>3, <1>4, <1>5

(* Whichever it is, it is a date there is, in the month the period is due  *)
(* in; only a weekend takes it further, to the first days of the next.     *)
DueWithin(seed, due) == due.year = seed.dueYear /\ due.month = seed.dueMonth

DueOverrun(seed, due) ==
    /\ MonthCount(due.year, due.month) = MonthCount(seed.dueYear, seed.dueMonth) + 1
    /\ due.day <= 2

(* A date fixed by law, as the weekend leaves it.                          *)
FallsFor(y, m, k, due) ==
    /\ CivilDate(due)
    /\ \/ due.year = y /\ due.month = m
       \/ MonthCount(due.year, due.month) = MonthCount(y, m) + 1 /\ due.day <= 2 /\ k \in 27 .. 31
    /\ due.day <= 2 /\ due.year = y /\ due.month = m => k \in 1 .. 2

LEMMA LegalDateWhere ==
    ASSUME NEW y, y \in Nat, y > 0, NEW m, m \in 1 .. 12, NEW k, k \in 1 .. 31
    PROVE  FallsFor(y, m, k, NextBusinessDay(DayOfMonth(y, m, k), {}))
<1> DEFINE legal == DayOfMonth(y, m, k)
           due == NextBusinessDay(legal, {})
<1>1. IsCut(y, m, k, legal)
    BY CutToMonth, Zenon
<1> HIDE DEF legal
<1>2. CivilDate(legal) /\ legal.year = y /\ legal.month = m
    BY <1>1 DEF IsCut
<1>3. /\ CivilDate(due)
      /\ \/ due.year = legal.year /\ due.month = legal.month /\ due.day >= legal.day
         \/ /\ MonthCount(due.year, due.month) = MonthCount(legal.year, legal.month) + 1
            /\ due.day <= 2 /\ legal.day >= 27
    BY <1>2, MovedWithin
<1>4. /\ due.year \in Nat /\ due.month \in 1 .. 12 /\ due.day \in 1 .. 31 /\ legal.day \in 1 .. 31
    BY <1>2, <1>3, CivilParts
<1> HIDE DEF due
<1>5. FallsFor(y, m, k, due)
    BY <1>1, <1>2, <1>3, <1>4 DEF IsCut, FallsFor, MonthCount
<1> QED
    BY <1>5 DEF due, legal

LEMMA ByLawWhere ==
    ASSUME NEW r, NEW seed, NEW resolved, ByLaw(r, seed, resolved),
           seed.dueYear \in Nat, seed.dueYear > 0, seed.dueMonth \in 1 .. 12
    PROVE  LET due == resolved.due
               legalDay == LegalDay(RuleOf[r].deadline, seed.dueYear, seed.dueMonth)
           IN  /\ CivilDate(due)
               /\ DueWithin(seed, due) \/ (DueOverrun(seed, due) /\ legalDay \in 27 .. 31)
               /\ due.day <= 2 /\ DueWithin(seed, due) => legalDay \in 1 .. 2
<1> DEFINE due == resolved.due
           legalDay == LegalDay(RuleOf[r].deadline, seed.dueYear, seed.dueMonth)
           legal == LegalDate(r, seed)
<1>1. legalDay \in 1 .. 31 /\ due = NextBusinessDay(legal, {})
    BY DEF ByLaw
<1>2. legal = DayOfMonth(seed.dueYear, seed.dueMonth, legalDay)
    BY DEF LegalDate
<1> HIDE DEF due, legalDay, legal
<1>3. FallsFor(seed.dueYear, seed.dueMonth, legalDay, due)
    BY <1>1, <1>2, LegalDateWhere, Zenon
<1> QED
    BY <1>3 DEF due, legalDay, DueWithin, DueOverrun, FallsFor

LEMMA AtMonthEndWhere ==
    ASSUME NEW r, NEW seed, NEW resolved, AtMonthEnd(r, seed, resolved),
           seed.dueYear \in Nat, seed.dueMonth \in 1 .. 12
    PROVE  CivilDate(resolved.due) /\ DueWithin(seed, resolved.due) /\ resolved.due.day >= 28
<1>1. resolved.due = Date(seed.dueYear, seed.dueMonth, DaysInMonth(seed.dueYear, seed.dueMonth))
    BY DEF AtMonthEnd, Resolved, MonthEnd
<1>2. DaysInMonth(seed.dueYear, seed.dueMonth) \in 28 .. 31
    BY MonthLengths
<1> QED
    BY <1>1, <1>2 DEF CivilDate, Date, DueWithin

LEMMA AsPublishedWhere ==
    ASSUME NEW p \in 1 .. Len(Packs), NEW r \in Rules, NEW seed, NEW resolved,
           AsPublished(Packs[p], r, seed, resolved)
    PROVE  \E e \in PublishedFor(Packs[p], r, seed.dueYear) :
               /\ e = [month |-> resolved.due.month, day |-> resolved.due.day]
               /\ CivilDate(resolved.due) /\ DueWithin(seed, resolved.due)
<1>1. PICK e \in PublishedFor(Packs[p], r, seed.dueYear) :
          e.month = seed.dueMonth /\ resolved.due = Date(seed.dueYear, seed.dueMonth, e.day)
    BY DEF AsPublished, PublishedIn
<1>2. /\ e = [month |-> seed.dueMonth, day |-> e.day] /\ seed.dueYear \in Nat
      /\ seed.dueMonth \in 1 .. 12 /\ e.day \in 1 .. 31
      /\ e.day <= DaysInMonth(seed.dueYear, seed.dueMonth)
    <2>1. /\ e = [month |-> e.month, day |-> e.day] /\ seed.dueYear \in Nat
          /\ e.month \in 1 .. 12 /\ e.day \in 1 .. 31
          /\ e.day <= DaysInMonth(seed.dueYear, e.month)
        BY PublishedDay
    <2> QED
        BY <1>1, <2>1
<1>3. CivilDate(resolved.due) /\ DueWithin(seed, resolved.due)
    BY <1>1, <1>2 DEF CivilDate, Date, DueWithin
<1>4. resolved.due.month = seed.dueMonth /\ resolved.due.day = e.day
    BY <1>1 DEF Date
<1> QED
    BY <1>2, <1>3, <1>4

(***************************************************************************)
(* The periods of a rule in a year fall due in months of their own.        *)
(***************************************************************************)
DueCount(seed) == MonthCount(seed.dueYear, seed.dueMonth)

DueFrom(seed, y) ==
    seed.dueYear \in Nat /\ seed.dueYear >= y /\ seed.dueMonth \in 1 .. 12

Lagging(seed, y, m, lag) == DueFrom(seed, y) /\ DueCount(seed) = MonthCount(y, m) + lag

LEMMA LaggedDue ==
    ASSUME NEW from, NEW to, NEW base, NEW lag,
           base.year \in Nat, base.month \in 1 .. 12, lag \in Nat
    PROVE  Lagging(LaggedSeed(from, to, base, lag), base.year, base.month, lag)
<1> DEFINE zeroBased == base.month - 1 + lag
           year == base.year + zeroBased \div 12
           month == (zeroBased % 12) + 1
           seed == LaggedSeed(from, to, base, lag)
<1>1. seed.dueYear = year /\ seed.dueMonth = month
    BY DEF LaggedSeed, Seed, AddMonths, Date
<1>2. zeroBased \in Nat
    OBVIOUS
<1>3. zeroBased \div 12 \in Nat /\ zeroBased % 12 \in 0 .. 11 /\ 12 * (zeroBased \div 12) + (zeroBased % 12) = zeroBased
    BY <1>2, SMT
<1>4. year \in Nat /\ year >= base.year /\ month \in 1 .. 12
      /\ 12 * year + month = 12 * base.year + base.month + lag
    <2> DEFINE q == zeroBased \div 12
               n == zeroBased % 12
    <2>1. q \in Nat /\ n \in 0 .. 11 /\ 12 * q + n = base.month - 1 + lag
        BY <1>3
    <2>2. year = base.year + q /\ month = n + 1
        OBVIOUS
    <2> HIDE DEF q, n, zeroBased, year, month
    <2> QED
        BY <2>1, <2>2
<1> HIDE DEF seed, year, month
<1> QED
    BY <1>1, <1>4 DEF Lagging, DueFrom, DueCount, MonthCount, seed

LEMMA LagIsNat == ASSUME NEW r \in Rules PROVE RuleOf[r].lag \in Nat
BY PlausibleRules

(* A month of its own, and for the quarters not the month after another's. *)
OfMonth(r, y, m, seed) ==
    /\ seed = LaggedSeed(MonthStart(y, m), MonthEnd(y, m), MonthStart(y, m), RuleOf[r].lag)
    /\ Lagging(seed, y, m, RuleOf[r].lag)

LEMMA MonthSeed ==
    ASSUME NEW r \in Rules, NEW y \in Nat, NEW seed \in MonthSeeds(r, y)
    PROVE  \E m \in 1 .. 12 : OfMonth(r, y, m, seed)
<1>1. PICK m \in 1 .. 12 :
          seed = LaggedSeed(MonthStart(y, m), MonthEnd(y, m), MonthStart(y, m), RuleOf[r].lag)
    BY DEF MonthSeeds
<1>2. MonthStart(y, m).year = y /\ MonthStart(y, m).month = m
    BY DEF MonthStart, Date
<1>3. Lagging(seed, MonthStart(y, m).year, MonthStart(y, m).month, RuleOf[r].lag)
    BY <1>1, <1>2, LagIsNat, LaggedDue
<1> QED
    BY <1>1, <1>2, <1>3 DEF OfMonth

OfQuarter(r, y, q, seed) ==
    /\ seed = LaggedSeed(QuarterStart(y, q), QuarterEnd(y, q), QuarterEnd(y, q), RuleOf[r].lag)
    /\ Lagging(seed, y, 3 * q, RuleOf[r].lag)

LEMMA QuarterSeed ==
    ASSUME NEW r \in Rules, NEW y \in Nat, NEW seed \in QuarterSeeds(r, y)
    PROVE  \E q \in 1 .. 4 : OfQuarter(r, y, q, seed)
<1>1. PICK q \in 1 .. 4 :
          seed = LaggedSeed(QuarterStart(y, q), QuarterEnd(y, q), QuarterEnd(y, q), RuleOf[r].lag)
    BY DEF QuarterSeeds
<1>2. QuarterEnd(y, q).year = y /\ QuarterEnd(y, q).month = 3 * q /\ 3 * q \in 1 .. 12
    BY DEF QuarterEnd, MonthEnd, Date
<1>3. Lagging(seed, QuarterEnd(y, q).year, QuarterEnd(y, q).month, RuleOf[r].lag)
    BY <1>1, <1>2, LagIsNat, LaggedDue
<1> QED
    BY <1>1, <1>2, <1>3 DEF OfQuarter

(* What the periods of a rule have in common: "pinned" ones take what was  *)
(* published for the year in their month.                                  *)
AnnualPart(pack, r, y, e, seed) ==
    /\ seed.dueYear = y /\ seed.dueMonth = e.month /\ e.month \in 1 .. 12
    /\ seed = Seed(Date(y - 1, 1, 1), Date(y - 1, 12, 31), e, y, e.month, seed.pinned)
    /\ IF seed.pinned THEN e \in Survivors(PublishedFor(pack, r, y))
       ELSE e \in AnnualDueMonths(pack, r)

LEMMA SurvivorsPublished == ASSUME NEW S PROVE Survivors(S) \subseteq S
BY DEF Survivors

LEMMA PatternYear ==
    ASSUME NEW p \in 1 .. Len(Packs), NEW r \in Rules
    PROVE  \/ Pattern(Packs[p], r) = {}
           \/ \E y \in DOMAIN Packs[p].published[r] :
                  Pattern(Packs[p], r) = Survivors(Packs[p].published[r][y])
<1> DEFINE years == DOMAIN Packs[p].published[r]
           latest == {y \in years : \A z \in years : z <= y}
<1>1. \A y \in years : y \in Int
    BY PacksAssumption
<1>2. \A y, z \in latest : y = z
    BY <1>1
<1>3. Pattern(Packs[p], r) = UNION {Survivors(Packs[p].published[r][y]) : y \in latest}
    BY DEF Pattern
<1>4. CASE latest = {}
    BY <1>3, <1>4
<1>5. CASE latest # {}
    <2>1. PICK y : latest = {y} /\ y \in years
        BY <1>2, <1>5
    <2> HIDE DEF latest
    <2>2. Pattern(Packs[p], r) = Survivors(Packs[p].published[r][y])
        BY <1>3, <2>1
    <2> QED
        BY <2>1, <2>2
<1> QED
    BY <1>4, <1>5

LEMMA PublishedOfYear ==
    ASSUME NEW p \in 1 .. Len(Packs), NEW r \in Rules, NEW y \in DOMAIN Packs[p].published[r]
    PROVE  PublishedFor(Packs[p], r, y) = Packs[p].published[r][y]
BY DEF PublishedFor

(* The months an annual rule may be due in: each is named once, and lies   *)
(* in the year.                                                            *)
LEMMA AnnualMonths ==
    ASSUME NEW p \in 1 .. Len(Packs), NEW r \in Rules, RuleOf[r].periodicity = "Annual"
    PROVE  /\ \A e \in AnnualDueMonths(Packs[p], r) : e.month \in 1 .. 12
           /\ \A e, f \in AnnualDueMonths(Packs[p], r) : e.month = f.month => e = f
           /\ RuleOf[r].deadline # None /\ RuleOf[r].deadline.month # None =>
                  \A e, f \in AnnualDueMonths(Packs[p], r) : e = f
<1> DEFINE explicit == IF RuleOf[r].deadline = None THEN None ELSE RuleOf[r].deadline.month
           months == AnnualDueMonths(Packs[p], r)
<1>1. months = IF explicit # None THEN {[month |-> explicit, day |-> 0]}
               ELSE IF Pattern(Packs[p], r) # {} THEN Pattern(Packs[p], r)
               ELSE {[month |-> 6, day |-> 0]}
    BY DEF AnnualDueMonths
<1>2. explicit # None => explicit \in 1 .. 12
    BY PlausibleRules
<1> HIDE DEF months
<1>3. CASE explicit # None
    <2> HIDE DEF explicit
    <2>1. months = {[month |-> explicit, day |-> 0]} /\ explicit \in 1 .. 12
        BY <1>1, <1>2, <1>3
    <2> QED
        BY <2>1 DEF months
<1>4. CASE explicit = None /\ Pattern(Packs[p], r) = {}
    <2>1. months = {[month |-> 6, day |-> 0]}
        BY <1>1, <1>4
    <2> QED
        BY <2>1 DEF months
<1>5. CASE explicit = None /\ Pattern(Packs[p], r) # {}
    <2>1. PICK y \in DOMAIN Packs[p].published[r] :
              Pattern(Packs[p], r) = Survivors(Packs[p].published[r][y])
        BY <1>5, PatternYear
    <2>2. months \subseteq Packs[p].published[r][y]
        BY <1>1, <1>5, <2>1, SurvivorsPublished
    <2>3. months \subseteq PublishedFor(Packs[p], r, y)
        BY <2>2, PublishedOfYear
    <2>4. \A e \in months : e.month \in 1 .. 12
        BY <2>3, PublishedDay
    <2>5. \A e, f \in months : e.month = f.month => e = f
        BY <2>2, OneAMonth
    <2>6. ~(RuleOf[r].deadline # None /\ RuleOf[r].deadline.month # None)
        BY <1>5
    <2> QED
        BY <2>4, <2>5, <2>6 DEF months
<1> QED
    BY <1>3, <1>4, <1>5

(* A survivor stands for a date that comes just before it.                 *)
MergedIn(published) ==
    \E e \in Survivors(published) : \E f \in published \ {e} : MonthDayDistance(f, e) <= 7

LEMMA AnnualSeed ==
    ASSUME NEW p \in 1 .. Len(Packs), NEW r \in Rules, NEW y \in Nat,
           RuleOf[r].periodicity = "Annual"
    PROVE  /\ \A seed \in AnnualSeeds(Packs[p], r, y) :
                  \E e : AnnualPart(Packs[p], r, y, e, seed)
           /\ \A s, t \in AnnualSeeds(Packs[p], r, y) : s.pinned = t.pinned
           /\ MergedIn(PublishedFor(Packs[p], r, y)) =>
                  \A seed \in AnnualSeeds(Packs[p], r, y) : seed.pinned
<1> DEFINE published == PublishedFor(Packs[p], r, y)
           survivors == Survivors(published)
           Merged == \E e \in survivors : \E f \in published \ {e} : MonthDayDistance(f, e) <= 7
           pinned == Cardinality(survivors) > 1 \/ Merged
           parts == IF pinned THEN survivors ELSE AnnualDueMonths(Packs[p], r)
           Part(e) == Seed(Date(y - 1, 1, 1), Date(y - 1, 12, 31), e, y, e.month, pinned)
<1>1. AnnualSeeds(Packs[p], r, y) = {Part(e) : e \in parts}
    BY DEF AnnualSeeds
<1>2. pinned \in BOOLEAN /\ (MergedIn(published) => pinned)
    BY DEF MergedIn
<1>3. \A e \in parts : e.month \in 1 .. 12
    <2>1. \A e \in survivors : e.month \in 1 .. 12
        BY SurvivorsPublished, PublishedDay
    <2>2. \A e \in AnnualDueMonths(Packs[p], r) : e.month \in 1 .. 12
        BY AnnualMonths
    <2> HIDE DEF survivors, pinned
    <2> QED
        BY <2>1, <2>2
<1> HIDE DEF pinned
<1>4. \A e : /\ Part(e).dueYear = y /\ Part(e).dueMonth = e.month /\ Part(e).pinned = pinned
    BY DEF Seed
<1>5. ASSUME NEW seed \in AnnualSeeds(Packs[p], r, y)
      PROVE  seed.pinned = pinned /\ \E e : AnnualPart(Packs[p], r, y, e, seed)
    <2>1. PICK e \in parts : seed = Part(e)
        BY <1>1
    <2>2. seed.dueYear = y /\ seed.dueMonth = e.month /\ seed.pinned = pinned
        BY <1>4, <2>1
    <2>3. seed = Seed(Date(y - 1, 1, 1), Date(y - 1, 12, 31), e, y, e.month, seed.pinned)
        BY <2>1, <2>2
    <2>4. IF seed.pinned THEN e \in survivors ELSE e \in AnnualDueMonths(Packs[p], r)
        BY <2>1, <2>2
    <2>5. AnnualPart(Packs[p], r, y, e, seed)
        BY <1>3, <2>2, <2>3, <2>4 DEF AnnualPart
    <2> QED
        BY <2>2, <2>5
<1> QED
    BY <1>2, <1>5

LEMMA PeriodsDue ==
    ASSUME NEW p \in 1 .. Len(Packs), NEW r \in Rules, NEW y \in Nat,
           NEW seed \in Periods(Packs[p], r, y)
    PROVE  DueFrom(seed, y)
<1>1. CASE RuleOf[r].periodicity = "Monthly"
    <2>1. PICK m \in 1 .. 12 : OfMonth(r, y, m, seed)
        BY <1>1, MonthSeed DEF Periods
    <2> QED
        BY <2>1 DEF OfMonth, Lagging
<1>2. CASE RuleOf[r].periodicity = "Quarterly"
    <2>1. PICK q \in 1 .. 4 : OfQuarter(r, y, q, seed)
        BY <1>2, QuarterSeed DEF Periods
    <2> QED
        BY <2>1 DEF OfQuarter, Lagging
<1>3. CASE RuleOf[r].periodicity = "Annual"
    <2>1. PICK e : AnnualPart(Packs[p], r, y, e, seed)
        BY <1>3, AnnualSeed DEF Periods
    <2> QED
        BY <2>1 DEF AnnualPart, DueFrom
<1>4. CASE RuleOf[r].periodicity = "Continuous"
    BY <1>4 DEF Periods, Seed, DueFrom
<1>5. CASE RuleOf[r].periodicity = "EventDriven"
    BY <1>5 DEF Periods
<1> QED
    BY <1>1, <1>2, <1>3, <1>4, <1>5, RulesAssumption

(* Two periods of a rule that are due in the same month are the same, and  *)
(* where one is due in the month after another's, the rule is monthly, or  *)
(* annual without a month of its own or published dates to pin it.         *)
Neighbours(pack, r, s, t) ==
    /\ DueCount(s) = DueCount(t) => s = t
    /\ DueCount(t) = DueCount(s) + 1 =>
           \/ RuleOf[r].periodicity = "Monthly"
           \/ /\ RuleOf[r].periodicity = "Annual"
              /\ \/ s.pinned
                 \/ ~(RuleOf[r].deadline # None /\ RuleOf[r].deadline.month # None)
    /\ s.pinned => \E e \in PublishedFor(pack, r, s.dueYear) : e.month = s.dueMonth

LEMMA MonthsApart ==
    ASSUME NEW r \in Rules, NEW y \in Nat, NEW s \in MonthSeeds(r, y), NEW t \in MonthSeeds(r, y),
           DueCount(s) = DueCount(t)
    PROVE  s = t
<1>1. PICK m \in 1 .. 12 : OfMonth(r, y, m, s)
    BY MonthSeed
<1>2. PICK n \in 1 .. 12 : OfMonth(r, y, n, t)
    BY MonthSeed
<1>3. MonthCount(y, m) + RuleOf[r].lag = MonthCount(y, n) + RuleOf[r].lag
    BY <1>1, <1>2 DEF OfMonth, Lagging
<1>4. m = n
    BY <1>3, LagIsNat DEF MonthCount
<1> QED
    BY <1>1, <1>2, <1>4 DEF OfMonth

LEMMA QuartersApart ==
    ASSUME NEW r \in Rules, NEW y \in Nat, NEW s \in QuarterSeeds(r, y), NEW t \in QuarterSeeds(r, y)
    PROVE  (DueCount(s) = DueCount(t) => s = t) /\ DueCount(t) # DueCount(s) + 1
<1>1. PICK q \in 1 .. 4 : OfQuarter(r, y, q, s)
    BY QuarterSeed
<1>2. PICK n \in 1 .. 4 : OfQuarter(r, y, n, t)
    BY QuarterSeed
<1>3. /\ DueCount(s) = MonthCount(y, 3 * q) + RuleOf[r].lag
      /\ DueCount(t) = MonthCount(y, 3 * n) + RuleOf[r].lag
      /\ RuleOf[r].lag \in Nat
    BY <1>1, <1>2, LagIsNat DEF OfQuarter, Lagging
<1>4. DueCount(s) = DueCount(t) => q = n
    BY <1>3 DEF MonthCount
<1>5. DueCount(t) # DueCount(s) + 1
    BY <1>3 DEF MonthCount
<1> QED
    BY <1>1, <1>2, <1>4, <1>5 DEF OfQuarter

LEMMA SameMonth ==
    ASSUME NEW y, y \in Nat, NEW m, m \in 1 .. 12, NEW n, n \in 1 .. 12,
           MonthCount(y, m) = MonthCount(y, n)
    PROVE  m = n
BY DEF MonthCount

LEMMA NotItsNext == ASSUME NEW n, n \in Int PROVE n # n + 1
OBVIOUS

LEMMA AnnualApart ==
    ASSUME NEW p \in 1 .. Len(Packs), NEW r \in Rules, NEW y \in Nat,
           RuleOf[r].periodicity = "Annual",
           NEW s \in AnnualSeeds(Packs[p], r, y), NEW t \in AnnualSeeds(Packs[p], r, y)
    PROVE  Neighbours(Packs[p], r, s, t)
<1>1. PICK e : AnnualPart(Packs[p], r, y, e, s)
    BY AnnualSeed
<1>2. PICK f : AnnualPart(Packs[p], r, y, f, t)
    BY AnnualSeed
<1>3. s.pinned = t.pinned
    BY AnnualSeed
<1>4. s.pinned => e \in PublishedFor(Packs[p], r, y) /\ f \in PublishedFor(Packs[p], r, y)
    BY <1>1, <1>2, <1>3, SurvivorsPublished DEF AnnualPart
<1>5. e.month = f.month => e = f
    <2>1. CASE s.pinned
        <3>1. /\ y \in DOMAIN Packs[p].published[r]
              /\ e \in Packs[p].published[r][y] /\ f \in Packs[p].published[r][y]
            BY <1>4, <2>1, PublishedDay
        <3> QED
            BY <3>1, OneAMonth
    <2>2. CASE ~s.pinned
        <3>1. e \in AnnualDueMonths(Packs[p], r) /\ f \in AnnualDueMonths(Packs[p], r)
            BY <1>1, <1>2, <1>3, <2>2 DEF AnnualPart
        <3> QED
            BY <3>1, AnnualMonths
    <2> QED
        BY <2>1, <2>2
<1>6. DueCount(s) = DueCount(t) => s = t
    <2> SUFFICES ASSUME DueCount(s) = DueCount(t) PROVE s = t
        OBVIOUS
    <2>1. e.month = f.month
        <3>1. DueCount(s) = MonthCount(y, e.month) /\ e.month \in 1 .. 12
            BY <1>1 DEF AnnualPart, DueCount
        <3>2. DueCount(t) = MonthCount(y, f.month) /\ f.month \in 1 .. 12
            BY <1>2 DEF AnnualPart, DueCount
        <3>3. MonthCount(y, e.month) = MonthCount(y, f.month)
            BY <3>1, <3>2
        <3> QED
            BY <3>1, <3>2, <3>3, SameMonth, Zenon
    <2> QED
        BY <1>1, <1>2, <1>3, <1>5, <2>1 DEF AnnualPart
<1>7. ASSUME DueCount(t) = DueCount(s) + 1, ~s.pinned,
             RuleOf[r].deadline # None, RuleOf[r].deadline.month # None
      PROVE  FALSE
    <2>1. e \in AnnualDueMonths(Packs[p], r) /\ f \in AnnualDueMonths(Packs[p], r)
        BY <1>1, <1>2, <1>3, <1>7 DEF AnnualPart
    <2>2. e = f
        BY <1>7, <2>1, AnnualMonths
    <2>3. DueCount(s) = DueCount(t) /\ DueCount(s) \in Int
        BY <1>1, <1>2, <2>2 DEF AnnualPart, DueCount, MonthCount
    <2> QED
        BY <1>7, <2>3
<1>8. s.pinned => \E g \in PublishedFor(Packs[p], r, s.dueYear) : g.month = s.dueMonth
    BY <1>1, <1>4 DEF AnnualPart
<1> QED
    BY <1>6, <1>7, <1>8 DEF Neighbours

LEMMA UnpinnedSeeds ==
    ASSUME NEW r, NEW y, NEW s \in MonthSeeds(r, y) \union QuarterSeeds(r, y)
    PROVE  s.pinned = FALSE
BY DEF MonthSeeds, QuarterSeeds, LaggedSeed, Seed

LEMMA PeriodsApart ==
    ASSUME NEW p \in 1 .. Len(Packs), NEW r \in Rules, NEW y \in Nat,
           NEW s \in Periods(Packs[p], r, y), NEW t \in Periods(Packs[p], r, y)
    PROVE  Neighbours(Packs[p], r, s, t)
<1>1. CASE RuleOf[r].periodicity = "Monthly"
    <2>1. s \in MonthSeeds(r, y) /\ t \in MonthSeeds(r, y)
        BY <1>1 DEF Periods
    <2> QED
        BY <1>1, <2>1, MonthsApart, UnpinnedSeeds DEF Neighbours
<1>2. CASE RuleOf[r].periodicity = "Quarterly"
    <2>1. s \in QuarterSeeds(r, y) /\ t \in QuarterSeeds(r, y)
        BY <1>2 DEF Periods
    <2> QED
        <3>1. (DueCount(s) = DueCount(t) => s = t) /\ DueCount(t) # DueCount(s) + 1
            BY <2>1, QuartersApart
        <3>2. ~s.pinned
            BY <2>1, UnpinnedSeeds
        <3> QED
            BY <3>1, <3>2 DEF Neighbours
<1>3. CASE RuleOf[r].periodicity = "Annual"
    BY <1>3, AnnualApart DEF Periods
<1>4. CASE RuleOf[r].periodicity = "Continuous"
    <2>1. s = Seed(Date(y, 1, 1), Date(y, 12, 31), None, y, 12, FALSE) /\ t = s
        BY <1>4 DEF Periods
    <2>2. s.pinned = FALSE /\ DueCount(s) \in Int
        BY <2>1 DEF Seed, DueCount, MonthCount
    <2>3. DueCount(t) # DueCount(s) + 1
        BY <2>1, <2>2, NotItsNext, Zenon
    <2> QED
        BY <2>1, <2>2, <2>3 DEF Neighbours
<1>5. CASE RuleOf[r].periodicity = "EventDriven"
    BY <1>5 DEF Periods
<1> QED
    BY <1>1, <1>2, <1>3, <1>4, <1>5, RulesAssumption

(***************************************************************************)
(* The published date an annual line shows is the last of its cluster.     *)
(***************************************************************************)
Key(e) == 31 * e.month + e.day

LEMMA NatWellFounded == IsWellFoundedOn({ss \in Nat \X Nat : ss[1] < ss[2]}, Nat)
BY NatLessThanWellFounded DEF OpToRel

LEMMA LastOf ==
    ASSUME NEW T, T # {}, \A g \in T : Key(g) \in Nat /\ Key(g) <= 403
    PROVE  \E h \in T : \A g \in T : Key(g) <= Key(h)
<1> DEFINE Less == {ss \in Nat \X Nat : ss[1] < ss[2]}
           S == {403 - Key(g) : g \in T}
<1>1. S \subseteq Nat /\ S # {}
    OBVIOUS
<1>2. PICK x \in S : \A y \in S : <<y, x>> \notin Less
    <2> HIDE DEF Less, S
    <2> QED
        BY <1>1, NatWellFounded, WFMin DEF Less
<1>3. \A y \in S : x <= y
    <2> TAKE y \in S
    <2>1. <<y, x>> \notin Less /\ x \in Nat /\ y \in Nat
        BY <1>1, <1>2
    <2> HIDE DEF S
    <2> QED
        BY <2>1
<1>4. PICK h \in T : x = 403 - Key(h)
    OBVIOUS
<1>5. ASSUME NEW g \in T PROVE Key(g) <= Key(h)
    <2>1. x <= 403 - Key(g)
        BY <1>3
    <2> QED
        BY <1>4, <2>1
<1> QED
    BY <1>4, <1>5

(* A date of a month, for the arithmetic of the clusters.                  *)
MonthDay(e) == e.month \in 1 .. 12 /\ e.day \in 1 .. 31

LEMMA DistanceOrder ==
    ASSUME NEW e, NEW f, MonthDay(e), MonthDay(f)
    PROVE  /\ Key(e) \in Nat /\ Key(e) <= 403
           /\ Before(e, f) <=> Key(e) < Key(f)
           /\ MonthDayDistance(e, f) = Key(f) - Key(e)
<1>1. ASSUME NEW m \in 1 .. 12, NEW n \in 1 .. 12, NEW k \in 1 .. 31, NEW l \in 1 .. 31
      PROVE  /\ 31 * m + k \in Nat /\ 31 * m + k <= 403
             /\ m < n \/ (m = n /\ k < l) <=> 31 * m + k < 31 * n + l
    BY SMT
<1>2. Key(e) \in Nat /\ Key(e) <= 403
    BY <1>1 DEF MonthDay, Key
<1>3. Before(e, f) <=> Key(e) < Key(f)
    BY <1>1 DEF MonthDay, Key, Before
<1>4. MonthDayDistance(e, f) = Key(f) - Key(e)
    <2> DEFINE m == e.month
               n == f.month
               k == e.day
               l == f.day
    <2>1. m \in 1 .. 12 /\ n \in 1 .. 12 /\ k \in 1 .. 31 /\ l \in 1 .. 31
        BY DEF MonthDay
    <2>2. /\ MonthDayDistance(e, f) = (n - m) * 31 + (l - k)
          /\ Key(f) - Key(e) = (31 * n + l) - (31 * m + k)
        BY DEF Key, MonthDayDistance
    <2> HIDE DEF m, n, k, l
    <2>3. (n - m) * 31 + (l - k) = (31 * n + l) - (31 * m + k)
        BY <2>1
    <2> QED
        BY <2>2, <2>3
<1> QED
    BY <1>2, <1>3, <1>4

(* Of dates that follow one another within a week the last survives.       *)
LEMMA NoneLeftOut ==
    ASSUME NEW S, \A e \in S : MonthDay(e), NEW e \in S, NEW f \in S,
           MonthDayDistance(e, f) \in 1 .. 7
    PROVE  e \notin Survivors(S) /\ MergedIn(S)
<1> DEFINE T == {g \in S : g \notin Survivors(S)}
<1>1. \A g, h \in S : /\ Key(g) \in Nat /\ Key(g) <= 403
                      /\ Before(g, h) <=> Key(g) < Key(h)
                      /\ MonthDayDistance(g, h) = Key(h) - Key(g)
    BY DistanceOrder
<1>2. Key(e) < Key(f)
    BY <1>1
<1>3. e \notin Survivors(S)
    <2>1. Before(e, f) /\ ~(MonthDayDistance(e, f) > 7)
        BY <1>1, <1>2
    <2> QED
        BY <2>1 DEF Survivors
<1>4. PICK h \in T : \A g \in T : Key(g) <= Key(h)
    <2>1. T # {} /\ \A g \in T : Key(g) \in Nat /\ Key(g) <= 403
        BY <1>1, <1>3
    <2> HIDE DEF T
    <2> QED
        BY <2>1, LastOf
<1>5. PICK g \in S : Before(h, g) /\ ~(MonthDayDistance(h, g) > 7)
    BY <1>4 DEF Survivors
<1>6. Key(h) < Key(g) /\ MonthDayDistance(h, g) <= 7
    BY <1>1, <1>4, <1>5
<1>7. g \in Survivors(S) /\ h # g
    BY <1>1, <1>4, <1>5, <1>6
<1> QED
    BY <1>3, <1>4, <1>6, <1>7 DEF MergedIn

LEMMA PublishedMonthDay ==
    ASSUME NEW p \in 1 .. Len(Packs), NEW r \in Rules, NEW y
    PROVE  \A e \in PublishedFor(Packs[p], r, y) : MonthDay(e)
BY PublishedDay DEF MonthDay

LEMMA AnnualShowsLast ==
    ASSUME NEW p \in 1 .. Len(Packs), NEW r \in Rules, NEW y \in Nat,
           RuleOf[r].periodicity = "Annual", NEW seed \in AnnualSeeds(Packs[p], r, y),
           NEW e \in PublishedFor(Packs[p], r, y), e.month = seed.dueMonth,
           NEW f \in PublishedFor(Packs[p], r, y)
    PROVE  MonthDayDistance(e, f) \notin 1 .. 7
<1> DEFINE published == PublishedFor(Packs[p], r, y)
<1> SUFFICES ASSUME MonthDayDistance(e, f) \in 1 .. 7 PROVE FALSE
    OBVIOUS
<1>1. e \notin Survivors(published) /\ MergedIn(published)
    BY PublishedMonthDay, NoneLeftOut, Zenon
<1>2. seed.pinned
    BY <1>1, AnnualSeed
<1>3. PICK g : AnnualPart(Packs[p], r, y, g, seed)
    BY AnnualSeed
<1>4. g \in Survivors(published) /\ g.month = seed.dueMonth
    BY <1>2, <1>3 DEF AnnualPart
<1>5. /\ y \in DOMAIN Packs[p].published[r]
      /\ e \in Packs[p].published[r][y] /\ g \in Packs[p].published[r][y]
    BY <1>4, SurvivorsPublished, PublishedDay
<1>6. e = g
    BY <1>4, <1>5, OneAMonth
<1> QED
    BY <1>1, <1>4, <1>6

(***************************************************************************)
(* Two periods of a rule never fall on one date.                           *)
(***************************************************************************)
FallsOn(pack, r, seed, due) ==
    /\ CivilDate(due)
    /\ \/ DueWithin(seed, due)
       \/ /\ DueOverrun(seed, due)
          /\ LegalDay(RuleOf[r].deadline, seed.dueYear, seed.dueMonth) \in 27 .. 31
          /\ NonePublished(pack, r, seed)

LEMMA PeriodFalls ==
    ASSUME NEW p \in 1 .. Len(Packs), NEW r \in Rules, NEW y \in Nat, y > 0,
           NEW seed \in Periods(Packs[p], r, y)
    PROVE  /\ FallsOn(Packs[p], r, seed, ResolveDueDate(Packs[p], r, seed).due)
           /\ ThreeWays(Packs[p], r, seed, ResolveDueDate(Packs[p], r, seed))
           /\ seed.dueYear \in Nat /\ seed.dueYear > 0 /\ seed.dueMonth \in 1 .. 12
<1> DEFINE resolved == ResolveDueDate(Packs[p], r, seed)
<1>1. DueFrom(seed, y)
    BY PeriodsDue
<1>2. seed.dueYear \in Nat /\ seed.dueYear > 0 /\ seed.dueMonth \in 1 .. 12
    BY <1>1 DEF DueFrom
<1>3. ThreeWays(Packs[p], r, seed, resolved)
    BY <1>2, Resolution
<1> HIDE DEF resolved
<1>4. CASE AsPublished(Packs[p], r, seed, resolved)
    BY <1>2, <1>3, <1>4, AsPublishedWhere DEF FallsOn, resolved
<1>5. CASE AtMonthEnd(r, seed, resolved)
    BY <1>2, <1>3, <1>5, AtMonthEndWhere DEF FallsOn, resolved
<1>6. CASE ByLaw(r, seed, resolved) /\ NonePublished(Packs[p], r, seed)
    BY <1>2, <1>3, <1>6, ByLawWhere DEF FallsOn, resolved
<1> QED
    BY <1>3, <1>4, <1>5, <1>6 DEF ThreeWays

LEMMA PinnedIsPublished ==
    ASSUME NEW p \in 1 .. Len(Packs), NEW r \in Rules, RuleOf[r].periodicity = "Annual",
           NEW seed, NEW e \in PublishedFor(Packs[p], r, seed.dueYear), e.month = seed.dueMonth
    PROVE  ~NonePublished(Packs[p], r, seed)
<1> DEFINE published == PublishedFor(Packs[p], r, seed.dueYear)
<1>1. \A f \in published : f.month = seed.dueMonth => f = e
    <2> TAKE f \in published
    <2>1. /\ seed.dueYear \in DOMAIN Packs[p].published[r]
          /\ e \in Packs[p].published[r][seed.dueYear] /\ f \in Packs[p].published[r][seed.dueYear]
        BY PublishedDay
    <2> QED
        BY <2>1, OneAMonth
<1>2. MonthDay(e)
    BY PublishedMonthDay
<1>3. ~Before(e, e)
    BY <1>2, DistanceOrder
<1>4. e \in PublishedIn(published, seed.dueMonth)
    BY <1>1, <1>3 DEF PublishedIn
<1> QED
    BY <1>4 DEF NonePublished

LEMMA FirstDays == ASSUME NEW n, n \in 1 .. 31, n <= 2 PROVE ~(n > 2) /\ ~(n >= 28)
OBVIOUS

LEMMA DueCountInt ==
    ASSUME NEW seed, seed.dueYear \in Nat, seed.dueMonth \in 1 .. 12
    PROVE  DueCount(seed) \in Int
BY DEF DueCount, MonthCount

(* Where a weekend takes a date, no other period of the rule is due.       *)
LEMMA NoneWhereItMoves ==
    ASSUME NEW p \in 1 .. Len(Packs), NEW r \in Rules, NEW y \in Nat, y > 0,
           NEW s \in Periods(Packs[p], r, y), NEW t \in Periods(Packs[p], r, y),
           NEW due, due = ResolveDueDate(Packs[p], r, t).due,
           DueCount(t) = DueCount(s) + 1, due.day <= 2, DueWithin(t, due),
           LegalDay(RuleOf[r].deadline, s.dueYear, s.dueMonth) \in 27 .. 31,
           NonePublished(Packs[p], r, s)
    PROVE  FALSE
<1> DEFINE resolved == ResolveDueDate(Packs[p], r, t)
<1>1. /\ ThreeWays(Packs[p], r, t, resolved)
      /\ t.dueYear \in Nat /\ t.dueYear > 0 /\ t.dueMonth \in 1 .. 12
      /\ s.dueYear \in Nat /\ s.dueYear > 0 /\ s.dueMonth \in 1 .. 12
    BY PeriodFalls
<1>2. Neighbours(Packs[p], r, s, t)
    BY PeriodsApart
<1>3. due = resolved.due
    OBVIOUS
<1> HIDE DEF resolved
<1>4. CASE AsPublished(Packs[p], r, t, resolved)
    <2>1. PICK e \in PublishedFor(Packs[p], r, t.dueYear) :
              e = [month |-> due.month, day |-> due.day]
        BY <1>3, <1>4, AsPublishedWhere
    <2>2. ~(e.day > 2)
        <3>1. e.day = due.day
            BY <2>1
        <3>2. e.day \in 1 .. 31
            BY PublishedDay
        <3>3. e.day <= 2
            BY <3>1
        <3> QED
            BY <3>2, <3>3, FirstDays, Zenon
    <2>3. RuleOf[r].periodicity = "Annual" => ~s.pinned
        BY <1>2, PinnedIsPublished DEF Neighbours
    <2>4. \/ RuleOf[r].periodicity = "Monthly"
          \/ /\ RuleOf[r].periodicity = "Annual"
             /\ ~(RuleOf[r].deadline # None /\ RuleOf[r].deadline.month # None)
        BY <1>2, <2>3 DEF Neighbours
    <2>5. /\ t.dueYear \in DOMAIN Packs[p].published[r]
          /\ e \in Packs[p].published[r][t.dueYear]
        BY PublishedDay
    <2>6. e.day > 2
        BY <2>4, <2>5, ClearOfWeekends
    <2> QED
        BY <2>2, <2>6
<1>5. CASE AtMonthEnd(r, t, resolved)
    <2>1. due.day >= 28 /\ CivilDate(due)
        BY <1>1, <1>3, <1>5, AtMonthEndWhere
    <2>2. due.day \in 1 .. 31
        BY <2>1, CivilParts
    <2> QED
        BY <2>1, <2>2, FirstDays, Zenon
<1>6. CASE ByLaw(r, t, resolved)
    <2>1. LegalDay(RuleOf[r].deadline, t.dueYear, t.dueMonth) \in 1 .. 2
        BY <1>1, <1>3, <1>6, ByLawWhere
    <2>2. LegalDay(RuleOf[r].deadline, t.dueYear, t.dueMonth) # None
        BY <1>6 DEF ByLaw
    <2>3. LegalDay(RuleOf[r].deadline, t.dueYear, t.dueMonth) >= 27
        BY <1>1, <2>2, LegalDayRange
    <2> QED
        BY <2>1, <2>3
<1> QED
    BY <1>1, <1>4, <1>5, <1>6 DEF ThreeWays

LEMMA SameBefore == ASSUME NEW m, NEW n, m \in Int, n \in Int, m + 1 = n + 1 PROVE m = n
OBVIOUS

LEMMA DatesApart ==
    ASSUME NEW p \in 1 .. Len(Packs), NEW r \in Rules, NEW y \in Nat, y > 0,
           NEW s \in Periods(Packs[p], r, y), NEW t \in Periods(Packs[p], r, y),
           ResolveDueDate(Packs[p], r, s).due = ResolveDueDate(Packs[p], r, t).due
    PROVE  s = t
<1> DEFINE due == ResolveDueDate(Packs[p], r, s).due
<1>1. due = ResolveDueDate(Packs[p], r, t).due
    OBVIOUS
<1> HIDE DEF due
<1>2. FallsOn(Packs[p], r, s, due) /\ FallsOn(Packs[p], r, t, due)
    BY <1>1, PeriodFalls DEF due
<1>3. DueCount(s) \in Int /\ DueCount(t) \in Int
    <2>1. /\ s.dueYear \in Nat /\ s.dueMonth \in 1 .. 12 /\ t.dueYear \in Nat /\ t.dueMonth \in 1 .. 12
        BY PeriodFalls
    <2> QED
        BY <2>1, DueCountInt, Zenon
<1>4. Neighbours(Packs[p], r, s, t)
    BY PeriodsApart
<1>5. CASE DueCount(s) = DueCount(t)
    BY <1>4, <1>5 DEF Neighbours
<1>6. CASE DueWithin(s, due) /\ DueWithin(t, due)
    BY <1>4, <1>6 DEF DueWithin, DueCount, Neighbours
<1>7. CASE DueOverrun(s, due) /\ DueOverrun(t, due)
    <2>1. DueCount(s) + 1 = DueCount(t) + 1
        BY <1>7 DEF DueOverrun, DueCount
    <2>2. DueCount(s) = DueCount(t)
        BY <1>3, <2>1, SameBefore, Zenon
    <2> QED
        BY <1>5, <2>2
<1>8. CASE /\ DueOverrun(s, due) /\ DueWithin(t, due)
           /\ LegalDay(RuleOf[r].deadline, s.dueYear, s.dueMonth) \in 27 .. 31
           /\ NonePublished(Packs[p], r, s)
    <2>1. DueCount(t) = DueCount(s) + 1 /\ due.day <= 2
        BY <1>8 DEF DueOverrun, DueWithin, DueCount
    <2> QED
        BY <1>1, <1>8, <2>1, NoneWhereItMoves
<1>9. CASE /\ DueOverrun(t, due) /\ DueWithin(s, due)
           /\ LegalDay(RuleOf[r].deadline, t.dueYear, t.dueMonth) \in 27 .. 31
           /\ NonePublished(Packs[p], r, t)
    <2>1. DueCount(s) = DueCount(t) + 1 /\ due.day <= 2
        BY <1>9 DEF DueOverrun, DueWithin, DueCount
    <2>2. due = ResolveDueDate(Packs[p], r, s).due
        BY DEF due
    <2> QED
        BY <1>9, <2>1, <2>2, NoneWhereItMoves
<1> QED
    BY <1>2, <1>6, <1>7, <1>8, <1>9 DEF FallsOn

(***************************************************************************)
(* What every line of an agenda is.                                        *)
(***************************************************************************)
Periodic(pack, who, y, day, done, i) ==
    \E r \in who.applies : \E seed \in Periods(pack, r, y) :
        i = Instance(pack, r, seed, day, who.trackFrom, done)

LEMMA LineOrigin ==
    ASSUME NEW pack, NEW who, NEW y, NEW day, NEW done,
           NEW i \in BuildAgenda(pack, who, y, day, done)
    PROVE  \/ Periodic(pack, who, y, day, done, i)
           \/ \E r \in Rules \ who.applies : i = NotApplicable(r, y)
BY DEF BuildAgenda, Periodic

LEMMA InstanceFields ==
    ASSUME NEW pack, NEW r, NEW seed, NEW day, NEW track, NEW done
    PROVE  LET i == Instance(pack, r, seed, day, track, done)
               resolved == ResolveDueDate(pack, r, seed)
           IN  /\ i.rule = r /\ i.due = resolved.due
               /\ i.source = resolved.source /\ i.adjusted = resolved.adjusted
               /\ i.status = Status(r, resolved.due, day, track, done)
               /\ Id(i) = <<r, resolved.due>>
BY DEF Instance, InstanceOn, Id

LEMMA NotApplicableFields ==
    ASSUME NEW r, NEW y
    PROVE  LET i == NotApplicable(r, y)
           IN  /\ i.rule = r /\ i.due = Date(y, 12, 31) /\ i.status = "NotApplicable"
               /\ Id(i) = <<r, Date(y, 12, 31)>>
BY DEF NotApplicable, Id

LEMMA StatusType ==
    ASSUME NEW r, NEW due, NEW day, NEW track, NEW done
    PROVE  Status(r, due, day, track, done) \in Statuses \ {"NotApplicable"}
BY DEF Status, StatusByDate, Statuses

LEMMA PairSame ==
    ASSUME NEW a, NEW b, NEW c, NEW d, <<a, b>> = <<c, d>> PROVE a = c /\ b = d
OBVIOUS

LineTyped(i) == i.rule \in Rules /\ CivilDate(i.due) /\ i.status \in Statuses

LEMMA YearEnd == ASSUME NEW y, y \in Nat PROVE CivilDate(Date(y, 12, 31))
BY DEF CivilDate, Date, DaysInMonth

LEMMA AgendaTyped ==
    ASSUME NEW p \in 1 .. Len(Packs), NEW who \in Profiles, NEW y \in Nat, y > 0,
           NEW day, NEW done, NEW i \in BuildAgenda(Packs[p], who, y, day, done)
    PROVE  LineTyped(i)
<1>1. CASE Periodic(Packs[p], who, y, day, done, i)
    <2>1a. PICK r \in who.applies : \E seed \in Periods(Packs[p], r, y) :
             i = Instance(Packs[p], r, seed, day, who.trackFrom, done)
        BY <1>1 DEF Periodic
    <2>1. PICK seed \in Periods(Packs[p], r, y) : i = Instance(Packs[p], r, seed, day, who.trackFrom, done)
        BY <2>1a
    <2>2. r \in Rules
        BY ProfilesAssumption
    <2>3. CivilDate(ResolveDueDate(Packs[p], r, seed).due)
        BY <2>2, PeriodFalls DEF FallsOn
    <2>4. /\ i.rule = r /\ i.due = ResolveDueDate(Packs[p], r, seed).due
          /\ i.status = Status(r, i.due, day, who.trackFrom, done)
        BY <2>1, InstanceFields
    <2> QED
        BY <2>2, <2>3, <2>4, StatusType DEF LineTyped
<1>2. CASE \E r \in Rules \ who.applies : i = NotApplicable(r, y)
    BY <1>2, NotApplicableFields, YearEnd DEF LineTyped, Statuses
<1> QED
    BY <1>1, <1>2, LineOrigin

LEMMA AgendaApart ==
    ASSUME NEW p \in 1 .. Len(Packs), NEW who \in Profiles, NEW y \in Nat, y > 0,
           NEW day, NEW done,
           NEW i \in BuildAgenda(Packs[p], who, y, day, done),
           NEW j \in BuildAgenda(Packs[p], who, y, day, done), Id(i) = Id(j)
    PROVE  i = j
<1>1. CASE /\ Periodic(Packs[p], who, y, day, done, i)
           /\ Periodic(Packs[p], who, y, day, done, j)
    <2>1a. PICK r \in who.applies : \E s \in Periods(Packs[p], r, y) :
             i = Instance(Packs[p], r, s, day, who.trackFrom, done)
        BY <1>1 DEF Periodic
    <2>1. PICK s \in Periods(Packs[p], r, y) : i = Instance(Packs[p], r, s, day, who.trackFrom, done)
        BY <2>1a
    <2>2a. PICK q \in who.applies : \E t \in Periods(Packs[p], q, y) :
             j = Instance(Packs[p], q, t, day, who.trackFrom, done)
        BY <1>1 DEF Periodic
    <2>2. PICK t \in Periods(Packs[p], q, y) : j = Instance(Packs[p], q, t, day, who.trackFrom, done)
        BY <2>2a
    <2>3. /\ Id(i) = <<r, ResolveDueDate(Packs[p], r, s).due>>
          /\ Id(j) = <<q, ResolveDueDate(Packs[p], q, t).due>>
        BY <2>1, <2>2, InstanceFields
    <2>4a. <<r, ResolveDueDate(Packs[p], r, s).due>> = <<q, ResolveDueDate(Packs[p], q, t).due>>
        BY <2>3, Zenon
    <2>4b. r = q /\ ResolveDueDate(Packs[p], r, s).due = ResolveDueDate(Packs[p], q, t).due
        BY <2>4a, PairSame, Zenon
    <2>4. r = q /\ ResolveDueDate(Packs[p], r, s).due = ResolveDueDate(Packs[p], r, t).due
        BY <2>4b, Zenon
    <2>5. r \in Rules
        BY ProfilesAssumption
    <2>6. s = t
        BY <2>4, <2>5, DatesApart
    <2> QED
        BY <2>1, <2>2, <2>4, <2>6
<1>2. CASE /\ \E r \in Rules \ who.applies : i = NotApplicable(r, y)
           /\ \E r \in Rules \ who.applies : j = NotApplicable(r, y)
    <2>1. PICK r \in Rules : i = NotApplicable(r, y)
        BY <1>2
    <2>2. PICK q \in Rules : j = NotApplicable(q, y)
        BY <1>2
    <2>3. Id(i) = <<r, Date(y, 12, 31)>> /\ Id(j) = <<q, Date(y, 12, 31)>>
        BY <2>1, <2>2, NotApplicableFields
    <2>4a. <<r, Date(y, 12, 31)>> = <<q, Date(y, 12, 31)>>
        BY <2>3, Zenon
    <2>4. r = q
        BY <2>4a, PairSame, Zenon
    <2> QED
        BY <2>1, <2>2, <2>4
<1>3. ASSUME NEW a, NEW b, Id(a) = Id(b),
             Periodic(Packs[p], who, y, day, done, a),
             \E r \in Rules \ who.applies : b = NotApplicable(r, y)
      PROVE  FALSE
    <2>1a. PICK r \in who.applies : \E s \in Periods(Packs[p], r, y) :
             a = Instance(Packs[p], r, s, day, who.trackFrom, done)
        BY <1>3 DEF Periodic
    <2>1. PICK s \in Periods(Packs[p], r, y) : a = Instance(Packs[p], r, s, day, who.trackFrom, done)
        BY <2>1a
    <2>2. PICK q \in Rules \ who.applies : b = NotApplicable(q, y)
        BY <1>3
    <2>3. /\ Id(a) = <<r, ResolveDueDate(Packs[p], r, s).due>>
          /\ Id(b) = <<q, Date(y, 12, 31)>>
        BY <2>1, <2>2, InstanceFields, NotApplicableFields
    <2>4a. <<r, ResolveDueDate(Packs[p], r, s).due>> = <<q, Date(y, 12, 31)>>
        BY <1>3, <2>3, Zenon
    <2>4. r = q
        BY <2>4a, PairSame, Zenon
    <2> QED
        BY <2>4
<1> QED
    BY <1>1, <1>2, <1>3, LineOrigin

(* The date of a line is what the line says of it.                         *)
AsSaid(i) ==
    i.status # "NotApplicable" => IF i.source = "Official" THEN LastPublished(i) ELSE Workable(i)

LEMMA OfficialLast ==
    ASSUME release \in 1 .. Len(Packs), NEW r \in Rules, NEW y \in Nat,
           NEW seed \in Periods(Packs[release], r, y), NEW i, NEW resolved,
           AsPublished(Packs[release], r, seed, resolved), i.rule = r, i.due = resolved.due
    PROVE  LastPublished(i)
<1> DEFINE published == PublishedFor(Packs[release], i.rule, i.due.year)
           shown == [month |-> i.due.month, day |-> i.due.day]
<1>1. PICK e \in PublishedFor(Packs[release], r, seed.dueYear) :
          e = shown /\ DueWithin(seed, i.due)
    BY AsPublishedWhere
<1>2. published = PublishedFor(Packs[release], r, seed.dueYear) /\ shown \in published
    BY <1>1 DEF DueWithin
<1>3. ASSUME RuleOf[r].periodicity = "Annual", NEW f \in published
      PROVE  MonthDayDistance(shown, f) \notin 1 .. 7
    <2>1. seed \in AnnualSeeds(Packs[release], r, y)
        BY <1>3 DEF Periods
    <2>2. seed.dueYear = y
        BY <1>3, <2>1, AnnualSeed DEF AnnualPart
    <2>3. shown.month = seed.dueMonth
        BY <1>1 DEF DueWithin
    <2>4. e.month = seed.dueMonth /\ e \in PublishedFor(Packs[release], r, y)
          /\ f \in PublishedFor(Packs[release], r, y)
        BY <1>1, <1>2, <2>2, <2>3
    <2>5. MonthDayDistance(e, f) \notin 1 .. 7
        BY <1>3, <2>1, <2>4, AnnualShowsLast
    <2> QED
        BY <1>1, <2>5
<1> QED
    BY <1>2, <1>3 DEF LastPublished

LEMMA DerivedWorkable ==
    ASSUME NEW r \in Rules, NEW seed, NEW i, NEW resolved,
           seed.dueYear \in Nat, seed.dueYear > 0, seed.dueMonth \in 1 .. 12,
           AtMonthEnd(r, seed, resolved) \/ ByLaw(r, seed, resolved),
           i.rule = r, i.due = resolved.due, i.adjusted = resolved.adjusted
    PROVE  Workable(i)
<1>1. CASE AtMonthEnd(r, seed, resolved)
    <2>1. i.due.year = seed.dueYear /\ i.due.month = seed.dueMonth
        BY <1>1, AtMonthEndWhere DEF DueWithin
    <2> QED
        BY <1>1, <2>1 DEF AtMonthEnd, Workable
<1>2. CASE ByLaw(r, seed, resolved)
    <2> DEFINE legal == LegalDate(r, seed)
    <2>1. /\ i.due = NextBusinessDay(legal, {})
          /\ i.adjusted => i.due # legal
        BY <1>2 DEF ByLaw
    <2>2. CivilDate(legal) /\ legal.year > 0
        <3> DEFINE k == LegalDay(RuleOf[r].deadline, seed.dueYear, seed.dueMonth)
        <3>1. k \in 1 .. 31
            BY <1>2 DEF ByLaw
        <3> HIDE DEF k
        <3>2. IsCut(seed.dueYear, seed.dueMonth, k, DayOfMonth(seed.dueYear, seed.dueMonth, k))
            BY <3>1, CutToMonth, Zenon
        <3>3. legal = DayOfMonth(seed.dueYear, seed.dueMonth, k)
            BY DEF LegalDate, k
        <3> HIDE DEF legal
        <3> QED
            BY <3>2, <3>3 DEF IsCut
    <2> HIDE DEF legal
    <2>3. DayOfWeek(i.due) \in 1 .. 5 /\ (i.due # legal => DayOfWeek(i.due) = 1)
        BY <2>1, <2>2, MovedToMonday
    <2> QED
        BY <2>1, <2>3 DEF Workable
<1> QED
    BY <1>1, <1>2

LEMMA AgendaAsSaid ==
    ASSUME release \in 1 .. Len(Packs), NEW who \in Profiles, NEW y \in Nat, y > 0,
           NEW day, NEW done, NEW i \in BuildAgenda(Packs[release], who, y, day, done)
    PROVE  AsSaid(i)
<1>1. CASE Periodic(Packs[release], who, y, day, done, i)
    <2>1a. PICK r \in who.applies : \E seed \in Periods(Packs[release], r, y) :
             i = Instance(Packs[release], r, seed, day, who.trackFrom, done)
        BY <1>1 DEF Periodic
    <2>1. PICK seed \in Periods(Packs[release], r, y) : i = Instance(Packs[release], r, seed, day, who.trackFrom, done)
        BY <2>1a
    <2> DEFINE resolved == ResolveDueDate(Packs[release], r, seed)
    <2>2. r \in Rules
        BY ProfilesAssumption
    <2>3. /\ ThreeWays(Packs[release], r, seed, resolved)
          /\ seed.dueYear \in Nat /\ seed.dueYear > 0 /\ seed.dueMonth \in 1 .. 12
        BY <2>2, PeriodFalls
    <2>4. /\ i.rule = r /\ i.due = resolved.due
          /\ i.source = resolved.source /\ i.adjusted = resolved.adjusted
        BY <2>1, InstanceFields
    <2> HIDE DEF resolved
    <2>5. CASE AsPublished(Packs[release], r, seed, resolved)
        <3>1. i.source = "Official"
            BY <2>4, <2>5 DEF AsPublished
        <3>2. LastPublished(i)
            BY <2>2, <2>4, <2>5, OfficialLast
        <3> QED
            BY <3>1, <3>2 DEF AsSaid
    <2>6. CASE AtMonthEnd(r, seed, resolved) \/ ByLaw(r, seed, resolved)
        <3>1. i.source # "Official"
            BY <2>4, <2>6 DEF AtMonthEnd, ByLaw, Resolved
        <3>2. Workable(i)
            BY <2>2, <2>3, <2>4, <2>6, DerivedWorkable
        <3> QED
            BY <3>1, <3>2 DEF AsSaid
    <2> QED
        BY <2>3, <2>5, <2>6 DEF ThreeWays
<1>2. CASE \E r \in Rules \ who.applies : i = NotApplicable(r, y)
    BY <1>2, NotApplicableFields DEF AsSaid
<1> QED
    BY <1>1, <1>2, LineOrigin

(***************************************************************************)
(* The agenda on screen is the one build_agenda makes of what the window   *)
(* knows: a completion is written, and the profile saved, with the agenda. *)
(***************************************************************************)
Counted ==
    /\ weekday \in 0 .. 6 /\ elapsed \in 0 .. MaxDays
    /\ window # None => window.year = window.today.year /\ window.today.year > 0

Fresh ==
    agenda = IF window = None \/ profile = None THEN {}
             ELSE BuildAgenda(Packs[release], profile, window.year, window.today, completed)

Handled == \A id \in completed : id[1] \in Rules /\ CivilDate(id[2])

ScreenInv == Inv /\ Counted /\ Fresh /\ Handled

LEMMA WeekdayNext == ASSUME NEW w \in 0 .. 6 PROVE (w + 1) % 7 \in 0 .. 6
OBVIOUS

LEMMA LineOnScreen ==
    ASSUME ScreenInv, NEW i \in agenda
    PROVE  /\ window # None /\ profile \in Profiles /\ release \in 1 .. Len(Packs)
           /\ window.year \in Nat /\ window.year > 0
           /\ i \in BuildAgenda(Packs[release], profile, window.year, window.today, completed)
<1>1. /\ window # None /\ profile # None
      /\ i \in BuildAgenda(Packs[release], profile, window.year, window.today, completed)
    BY DEF ScreenInv, Fresh
<1>2. CivilDate(window.today) /\ window.year = window.today.year /\ window.today.year > 0
    BY <1>1 DEF ScreenInv, Inv, Clocked, Counted
<1>3. window.today.year \in Nat
    BY <1>2 DEF CivilDate
<1>4. profile \in Profiles /\ release \in 1 .. Len(Packs)
    BY <1>1 DEF ScreenInv, Inv, Chosen
<1> QED
    BY <1>1, <1>2, <1>3, <1>4

LEMMA LinesTyped == ScreenInv => \A i \in agenda : LineTyped(i)
<1> SUFFICES ASSUME ScreenInv, NEW i \in agenda PROVE LineTyped(i)
    OBVIOUS
<1> QED
    BY LineOnScreen, AgendaTyped

LEMMA CountedNext == ScreenInv /\ [Next]_vars => Counted'
<1> SUFFICES ASSUME ScreenInv, [Next]_vars PROVE Counted'
    OBVIOUS
<1>1. Counted /\ Clocked
    BY DEF ScreenInv, Inv
<1>2. CASE PassDay
    <2>1. weekday' \in 0 .. 6
        BY <1>1, <1>2, WeekdayNext DEF PassDay, Counted
    <2>2. elapsed' \in 0 .. MaxDays
        BY <1>1, <1>2, BoundsAssumption DEF PassDay, Counted
    <2> QED
        BY <1>1, <1>2, <2>1, <2>2 DEF PassDay, Counted
<1>3. CASE Open
    BY <1>1, <1>3 DEF Open, clock, Counted, Clocked
<1>4. CASE Complete \/ SaveProfile \/ UNCHANGED vars
    BY <1>1, <1>4 DEF Complete, SaveProfile, clock, vars, Counted
<1> QED
    BY <1>2, <1>3, <1>4 DEF Next

LEMMA FreshNext == ScreenInv /\ [Next]_vars => Fresh'
<1> SUFFICES ASSUME ScreenInv, [Next]_vars PROVE Fresh'
    OBVIOUS
<1>1. CASE PassDay \/ UNCHANGED vars
    BY <1>1 DEF PassDay, vars, ScreenInv, Fresh
<1>2. CASE Open \/ Complete \/ SaveProfile
    BY <1>2 DEF Open, Complete, SaveProfile, Rebuilt, Fresh
<1> QED
    BY <1>1, <1>2 DEF Next

LEMMA HandledNext == ScreenInv /\ [Next]_vars => Handled'
<1> SUFFICES ASSUME ScreenInv, [Next]_vars PROVE Handled'
    OBVIOUS
<1>1. Handled
    BY DEF ScreenInv
<1>2. CASE Complete
    <2>1. PICK i \in Actionable : completed' = completed \union {Id(i)}
        BY <1>2 DEF Complete
    <2>2. i \in agenda
        BY <2>1 DEF Actionable
    <2>3. LineTyped(i)
        BY <2>2, LinesTyped
    <2>4. Id(i)[1] \in Rules /\ CivilDate(Id(i)[2])
        BY <2>3 DEF LineTyped, Id
    <2> QED
        BY <1>1, <2>1, <2>4 DEF Handled
<1>3. CASE PassDay \/ Open \/ SaveProfile \/ UNCHANGED vars
    BY <1>1, <1>3 DEF PassDay, Open, SaveProfile, vars, Handled
<1> QED
    BY <1>2, <1>3 DEF Next

LEMMA ScreenInvHolds == Spec => []ScreenInv
<1>1. Init => ScreenInv
    <2> SUFFICES ASSUME Init PROVE ScreenInv
        OBVIOUS
    <2>1. Inv
        BY InvInit
    <2>2. Counted /\ Fresh /\ Handled
        BY StartDaysAssumption, BoundsAssumption DEF Init, Counted, Fresh, Handled
    <2> QED
        BY <2>1, <2>2 DEF ScreenInv
<1>2. ScreenInv /\ [Next]_vars => ScreenInv'
    <2> SUFFICES ASSUME ScreenInv, [Next]_vars PROVE ScreenInv'
        OBVIOUS
    <2>1. Inv'
        BY InvStep DEF ScreenInv
    <2> QED
        BY <2>1, CountedNext, FreshNext, HandledNext DEF ScreenInv
<1> QED
    BY <1>1, <1>2, PTL DEF Spec

(* What is on screen and on disk has the form its readers expect; above    *)
(* all, every date the engine derives or takes from the pack is a day of   *)
(* the calendar.                                                           *)
THEOREM AgendaWellFormed == Spec => []TypeOK
<1>1. ScreenInv => TypeOK
    <2> SUFFICES ASSUME ScreenInv PROVE TypeOK
        OBVIOUS
    <2>1. \A i \in agenda : i.rule \in Rules /\ CivilDate(i.due) /\ i.status \in Statuses
        BY LinesTyped DEF LineTyped
    <2> QED
        BY <2>1 DEF ScreenInv, Inv, Clocked, Chosen, Counted, Handled, TypeOK
<1> QED
    BY <1>1, ScreenInvHolds, PTL

(* No two obligations of an agenda are confused: an id names one line.     *)
THEOREM IdsUnique == Spec => []UniqueIds
<1>1. ScreenInv => UniqueIds
    <2> SUFFICES ASSUME ScreenInv, NEW i \in agenda, NEW j \in agenda, Id(i) = Id(j)
                 PROVE  i = j
        BY DEF UniqueIds
    <2> QED
        BY LineOnScreen, AgendaApart
<1> QED
    BY <1>1, ScreenInvHolds, PTL

(* Every date of every agenda is what its line says: the authority's, and  *)
(* then the last day it takes, or a day on which an office is open.        *)
THEOREM DatesAsSaid == Spec => []DateAsSaid
<1>1. ScreenInv => DateAsSaid
    <2> SUFFICES ASSUME ScreenInv, NEW i \in agenda PROVE AsSaid(i)
        BY DEF DateAsSaid, AsSaid
    <2> QED
        BY LineOnScreen, AgendaAsSaid
<1> QED
    BY <1>1, ScreenInvHolds, PTL

(* The weekdays a behaviour may begin on are those of its days.            *)
Anchored == \A s \in StartDays : DayOfWeek(s.day) = s.weekday

LEMMA WeekdayAfter ==
    ASSUME NEW n \in Int, NEW m, m = n + 1 PROVE (m + 4) % 7 = (((n + 4) % 7) + 1) % 7
OBVIOUS

(* The arithmetic agrees with the calendar on the wall on every day, once  *)
(* it does on the first: the number of a day leads back to it, and the     *)
(* weekday that comes round is the one it computes.                        *)
THEOREM ArithmeticRight == ASSUME Anchored PROVE Spec => []ArithmeticAgrees
<1>1. Init => DayOfWeek(today) = weekday
    BY Anchored DEF Init, Anchored
<1>2. Inv /\ DayOfWeek(today) = weekday /\ [Next]_vars => (DayOfWeek(today) = weekday)'
    <2> SUFFICES ASSUME Inv, DayOfWeek(today) = weekday, [Next]_vars
                 PROVE  DayOfWeek(today') = weekday'
        OBVIOUS
    <2>1. CASE PassDay
        <3>1. today' = NextDay(today) /\ weekday' = (weekday + 1) % 7
            BY <2>1 DEF PassDay
        <3>2. /\ DaysFromCivil(today) \in Int
              /\ DaysFromCivil(today') = DaysFromCivil(today) + 1
            BY <3>1, NextDayCounts DEF Inv, Clocked
        <3>3. DayOfWeek(today') = (DayOfWeek(today) + 1) % 7
            BY <3>2, WeekdayAfter DEF DayOfWeek
        <3> QED
            BY <3>1, <3>3
    <2>2. CASE Open \/ Complete \/ SaveProfile \/ UNCHANGED vars
        BY <2>2 DEF Open, Complete, SaveProfile, clock, vars
    <2> QED
        BY <2>1, <2>2 DEF Next
<1>3. Inv /\ DayOfWeek(today) = weekday => ArithmeticAgrees
    BY CivilIsReal, DayThereAndBack DEF Inv, Clocked, ArithmeticAgrees
<1> QED
    BY <1>1, <1>2, <1>3, InvHolds, PTL DEF Spec
=============================================================================
