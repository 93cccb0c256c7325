-------------------------- MODULE CalendarProofs --------------------------
(***************************************************************************)
(* Theorems about the calendar, for every start of the walk and however    *)
(* long it is: the conversions between an instant and a civil date are     *)
(* inverse and turn with the days, the Eastern offset changes when the     *)
(* clocks do, the table the SDK carries answers what the program's does in *)
(* the months it was captured for, and nextOpen names the next opening.    *)
(***************************************************************************)
EXTENDS Calendar, TLAPS

-----------------------------------------------------------------------------
(* Civil dates.                                                            *)

\* A date of the Gregorian calendar.
IsDate(d) ==
    /\ d = [year |-> d.year, month |-> d.month, day |-> d.day]
    /\ d.year \in Int /\ d.month \in 1..12 /\ d.day \in 1..MonthLength(d.year, d.month)

NumberOf(d) == DaysFromCivil(d.year, d.month, d.day)

\* The years run from March; leap days come last.
MarchYear(year, month) == year - (IF month <= 2 THEN 1 ELSE 0)

YearDays(y) == 365 * y + y \div 4 - y \div 100 + y \div 400

MonthDays(month) == DaysBeforeMonth(IF month > 2 THEN month - 3 ELSE month + 9)

\* A date is the days of the years before it, of the months before it, and its own.
LEMMA CivilDays ==
    ASSUME NEW year \in Int, NEW month \in 1..12, NEW day \in Int
    PROVE  DaysFromCivil(year, month, day)
             = YearDays(MarchYear(year, month)) + MonthDays(month) + day - 1 - EpochShift
<1> DEFINE y == MarchYear(year, month)
           era == y \div 400
           yoe == y - era * 400
<1>1. y \in Int
  BY DEF MarchYear
<1>2. DaysFromCivil(year, month, day)
        = era * EraDays + DaysBeforeYear(yoe) + (MonthDays(month) + day - 1)
            - EpochShift
  BY SMT DEF DaysFromCivil, MonthDays, MarchYear, DaysBeforeMonth, DaysBeforeYear, EraDays, EpochShift
<1> HIDE DEF y
<1>3. yoe \div 4 = y \div 4 - 100 * era
  BY <1>1, SMT
<1>4. yoe \div 100 = y \div 100 - 4 * era
  BY <1>1, SMT
<1>5. era * EraDays + DaysBeforeYear(yoe) = YearDays(y)
  BY SMT, <1>1, <1>3, <1>4 DEF YearDays, DaysBeforeYear, EraDays
<1>6. PICK a \in Int, b \in Int, c \in Int :
         a = YearDays(y) /\ b = MonthDays(month) /\ c = EpochShift
  BY <1>1, SMT DEF MonthDays, DaysBeforeMonth, YearDays, EpochShift
<1>7. DaysFromCivil(year, month, day) = a + (b + day - 1) - c
  <2>1. PICK w : w = era * EraDays + DaysBeforeYear(yoe)
    OBVIOUS
  <2>2. DaysFromCivil(year, month, day) = w + (MonthDays(month) + day - 1) - EpochShift
    BY <1>2, <2>1, Zenon
  <2>3. w = a
    BY <1>5, <1>6, <2>1, Zenon
  <2> QED BY <1>6, <2>2, <2>3, Zenon
<1>8. a + (b + day - 1) - c = a + b + day - 1 - c
  OBVIOUS
<1> QED BY <1>6, <1>7, <1>8, Zenon DEF y

IsLeap(y) == y % 4 = 0 /\ (y % 100 # 0 \/ y % 400 = 0)

\* Hinnant's years have the days of the Gregorian ones.
LEMMA YearGrows ==
    ASSUME NEW y \in Int
    PROVE  YearDays(y) - YearDays(y - 1) = IF IsLeap(y) THEN 366 ELSE 365
<1>1. y \div 4 - (y - 1) \div 4 = IF y % 4 = 0 THEN 1 ELSE 0
  OBVIOUS
<1>2. y \div 100 - (y - 1) \div 100 = IF y % 100 = 0 THEN 1 ELSE 0
  OBVIOUS
<1>3. y \div 400 - (y - 1) \div 400 = IF y % 400 = 0 THEN 1 ELSE 0
  OBVIOUS
<1>4. (y % 400 = 0 => y % 100 = 0) /\ (y % 100 = 0 => y % 4 = 0)
  OBVIOUS
<1> QED BY <1>1, <1>2, <1>3, <1>4 DEF YearDays, IsLeap

\* MonthDays, month by month.
LEMMA MonthTable ==
    /\ MonthDays(3) = 0 /\ MonthDays(4) = 31 /\ MonthDays(5) = 61 /\ MonthDays(6) = 92
    /\ MonthDays(7) = 122 /\ MonthDays(8) = 153 /\ MonthDays(9) = 184 /\ MonthDays(10) = 214
    /\ MonthDays(11) = 245 /\ MonthDays(12) = 275 /\ MonthDays(1) = 306 /\ MonthDays(2) = 337
BY DEF MonthDays, DaysBeforeMonth

LEMMA MonthDaysInt == \A month \in 1..12 : MonthDays(month) \in Int
BY DEF MonthDays, DaysBeforeMonth

LEMMA YearDaysInt == \A y \in Int : YearDays(y) \in Int
BY DEF YearDays

LEMMA EpochShiftInt == EpochShift \in Int
BY SMT DEF EpochShift

\* MonthLength, month by month.
LEMMA LengthTable ==
    ASSUME NEW y \in Int
    PROVE  /\ \A m \in {1, 3, 5, 7, 8, 10, 12} : MonthLength(y, m) = 31
           /\ \A m \in {4, 6, 9, 11} : MonthLength(y, m) = 30
           /\ MonthLength(y, 2) = IF IsLeap(y) THEN 29 ELSE 28
BY DEF MonthLength, IsLeap

LEMMA LengthBounds ==
    ASSUME NEW y \in Int, NEW m \in 1..12
    PROVE  MonthLength(y, m) \in 28..31
<1>1. m \in {1, 2, 3, 4, 5, 6, 7, 8, 9, 10, 11, 12}
  OBVIOUS
<1> QED BY <1>1, LengthTable

\* The day after, case by case.
LEMMA NextDateIs ==
    ASSUME NEW d, IsDate(d)
    PROVE  /\ d.day < MonthLength(d.year, d.month) =>
                NextDate(d) = [year |-> d.year, month |-> d.month, day |-> d.day + 1]
           /\ d.day = MonthLength(d.year, d.month) /\ d.month < 12 =>
                NextDate(d) = [year |-> d.year, month |-> d.month + 1, day |-> 1]
           /\ d.day = MonthLength(d.year, d.month) /\ d.month = 12 =>
                NextDate(d) = [year |-> d.year + 1, month |-> 1, day |-> 1]
<1> DEFINE len == MonthLength(d.year, d.month)
<1>1. d.month \in 1..12 /\ d.day \in Int /\ len \in Int
  BY LengthBounds DEF IsDate
<1>2. CASE d.day < len
  <2>1. d.day # len
    BY <1>1, <1>2
  <2>2. NextDate(d) = [year |-> d.year, month |-> d.month, day |-> d.day + 1]
    BY <1>2, <2>1, Zenon DEF NextDate
  <2> QED BY <1>2, <2>1, <2>2, Zenon
<1>3. CASE d.day = len /\ d.month < 12
  <2>1. ~(d.day < len) /\ d.month # 12
    BY <1>1, <1>3
  <2>2. NextDate(d) = [year |-> d.year, month |-> d.month + 1, day |-> 1]
    BY <1>3, <2>1, Zenon DEF NextDate
  <2> QED BY <1>3, <2>1, <2>2, Zenon
<1>4. CASE d.day = len /\ d.month = 12
  <2>1. ~(d.day < len) /\ ~(d.month < 12)
    BY <1>1, <1>4
  <2>2. NextDate(d) = [year |-> d.year + 1, month |-> 1, day |-> 1]
    BY <2>1, Zenon DEF NextDate
  <2> QED BY <1>4, <2>1, <2>2, Zenon
<1> QED BY <1>2, <1>3, <1>4, Zenon

-----------------------------------------------------------------------------
(* A day later.                                                            *)

\* Within a month.
LEMMA DayTurns ==
    ASSUME NEW y \in Int, NEW m \in 1..12, NEW k \in Int
    PROVE  DaysFromCivil(y, m, k + 1) = DaysFromCivil(y, m, k) + 1
<1>1. MarchYear(y, m) \in Int
  BY DEF MarchYear
<1>2. PICK a \in Int, b \in Int, c \in Int :
         a = YearDays(MarchYear(y, m)) /\ b = MonthDays(m) /\ c = EpochShift
  BY <1>1, YearDaysInt, MonthDaysInt, EpochShiftInt
<1>3. DaysFromCivil(y, m, k + 1) = a + b + (k + 1) - 1 - c
  <2>1. PICK n \in Int : n = k + 1
    OBVIOUS
  <2>2. DaysFromCivil(y, m, n) = a + b + n - 1 - c
    BY <1>2, CivilDays
  <2> QED BY <2>1, <2>2
<1>4. DaysFromCivil(y, m, k) = a + b + k - 1 - c
  BY <1>2, CivilDays
<1> QED BY <1>3, <1>4

\* Over the end of a month.
LEMMA MonthTurns ==
    ASSUME NEW y \in Int, NEW m \in 1..11
    PROVE  DaysFromCivil(y, m + 1, 1) = DaysFromCivil(y, m, MonthLength(y, m)) + 1
<1>1. m \in 1..12
  OBVIOUS
<1>2. PICK n \in 1..12 : n = m + 1
  OBVIOUS
<1>3. PICK len \in Int : len = MonthLength(y, m)
  BY <1>1, LengthBounds
<1>4. MarchYear(y, m) \in Int /\ MarchYear(y, n) \in Int
  BY DEF MarchYear
<1>5. PICK a \in Int, b \in Int, c \in Int :
         a = YearDays(MarchYear(y, m)) /\ b = YearDays(MarchYear(y, n)) /\ c = EpochShift
  BY <1>4, YearDaysInt, EpochShiftInt
<1>6. PICK e \in Int, f \in Int : e = MonthDays(m) /\ f = MonthDays(n)
  BY <1>1, MonthDaysInt
<1>7. DaysFromCivil(y, n, 1) = b + f + 1 - 1 - c
  <2>1. DaysFromCivil(y, n, 1) = YearDays(MarchYear(y, n)) + MonthDays(n) + 1 - 1 - EpochShift
    BY CivilDays
  <2> QED BY <1>5, <1>6, <2>1, Zenon
<1>8. DaysFromCivil(y, m, len) = a + e + len - 1 - c
  <2>1. DaysFromCivil(y, m, len) = YearDays(MarchYear(y, m)) + MonthDays(m) + len - 1 - EpochShift
    BY <1>1, CivilDays
  <2> QED BY <1>5, <1>6, <2>1, Zenon
<1>9. b + f = a + e + len
  <2>1. CASE m = 2
    <3>1. MarchYear(y, m) = y - 1 /\ MarchYear(y, n) = y
      BY <1>2, <2>1 DEF MarchYear
    <3>2. len = IF IsLeap(y) THEN 29 ELSE 28
      BY <1>3, <2>1, LengthTable
    <3>3. e = 337 /\ f = 0
      BY <1>2, <1>6, <2>1, MonthTable, SMT
    <3>4. b - a = IF IsLeap(y) THEN 366 ELSE 365
      BY <1>5, <3>1, YearGrows, SMT
    <3> QED BY <3>2, <3>3, <3>4, SMT
  <2>2. CASE m # 2
    <3>1. MarchYear(y, n) = MarchYear(y, m)
      BY <1>2, <2>2 DEF MarchYear
    <3>2. m \in {1, 3, 4, 5, 6, 7, 8, 9, 10, 11}
      BY <2>2
    <3>3. f = e + len
      BY <1>2, <1>3, <1>6, <3>2, MonthTable, LengthTable, SMT
    <3> QED BY <1>5, <3>1, <3>3
  <2> QED BY <2>1, <2>2
<1> QED BY <1>2, <1>3, <1>7, <1>8, <1>9

\* Over the end of a year.
LEMMA YearTurns ==
    ASSUME NEW y \in Int
    PROVE  DaysFromCivil(y + 1, 1, 1) = DaysFromCivil(y, 12, 31) + 1
<1>1. MarchYear(y + 1, 1) = y /\ MarchYear(y, 12) = y
  BY DEF MarchYear
<1>2. PICK a \in Int, c \in Int : a = YearDays(y) /\ c = EpochShift
  BY YearDaysInt, EpochShiftInt
<1>3. DaysFromCivil(y + 1, 1, 1) = a + MonthDays(1) + 1 - 1 - c
  BY <1>1, <1>2, CivilDays
<1>4. DaysFromCivil(y, 12, 31) = a + MonthDays(12) + 31 - 1 - c
  BY <1>1, <1>2, CivilDays
<1> QED BY SMT, <1>2, <1>3, <1>4, MonthTable

\* The date kept by hand is a date, and the next one's number is one more.
LEMMA NextDateCounts ==
    ASSUME NEW d, IsDate(d)
    PROVE  IsDate(NextDate(d)) /\ NumberOf(NextDate(d)) = NumberOf(d) + 1
<1> DEFINE len == MonthLength(d.year, d.month)
<1>1. d.year \in Int /\ d.month \in 1..12 /\ d.day \in Int /\ d.day \in 1..len /\ len \in 28..31
  BY LengthBounds DEF IsDate
<1>2. CASE d.day < len
  <2>1. NextDate(d) = [year |-> d.year, month |-> d.month, day |-> d.day + 1]
    BY <1>2, NextDateIs
  <2>2. d.day + 1 \in 1..len
    BY <1>1, <1>2
  <2> QED BY <1>1, <2>1, <2>2, DayTurns DEF IsDate, NumberOf
<1>3. CASE d.day = len /\ d.month < 12
  <2>1. NextDate(d) = [year |-> d.year, month |-> d.month + 1, day |-> 1]
    BY <1>3, NextDateIs
  <2>2. d.month \in 1..11 /\ d.month + 1 \in 1..12
    BY <1>1, <1>3
  <2>3. 1 \in 1..MonthLength(d.year, d.month + 1)
    BY <1>1, <2>2, LengthBounds
  <2>4. NumberOf(d) + 1 = DaysFromCivil(d.year, d.month + 1, 1)
    BY <1>1, <1>3, <2>2, MonthTurns DEF NumberOf
  <2> QED BY <1>1, <2>1, <2>2, <2>3, <2>4 DEF IsDate, NumberOf
<1>4. CASE d.day = len /\ d.month = 12
  <2>1. NextDate(d) = [year |-> d.year + 1, month |-> 1, day |-> 1]
    BY <1>4, NextDateIs
  <2>2. 1 \in 1..MonthLength(d.year + 1, 1)
    BY <1>1, LengthBounds
  <2>3. d.day = 31
    BY <1>1, <1>4, LengthTable
  <2>4. NumberOf(d) + 1 = DaysFromCivil(d.year + 1, 1, 1)
    BY <1>1, <1>4, <2>3, YearTurns DEF NumberOf
  <2> QED BY <1>1, <2>1, <2>2, <2>4 DEF IsDate, NumberOf
<1> QED BY <1>1, <1>2, <1>3, <1>4

-----------------------------------------------------------------------------
(* A number of days back to its date.                                      *)

\* The doy-th day of the s-th year of the q-th four, c hundreds in.
DayOfEra(q, s, c, doy) == 1461 * q + 365 * s - c + doy

\* Only a leap year has that many, the last of its four, and of a hundred
\* years only the last of an era.
IsDayOfEra(q, s, c, doy, doe) ==
    /\ q \in 0..99 /\ c \in 0..3 /\ s \in 0..3 /\ doy \in 0..365
    /\ 25 * c <= q /\ q <= 25 * c + 24
    /\ doy = 365 => s = 3 /\ (q # 25 * c + 24 \/ q = 99)
    /\ doe \in Int /\ doe = DayOfEra(q, s, c, doy)

\* The year within its era, from the days of the era.
LEMMA YearOfEraIs ==
    ASSUME NEW q, NEW s, NEW c, NEW doy, NEW doe, IsDayOfEra(q, s, c, doy, doe)
    PROVE  doe >= 0 /\ doe < EraDays /\ YearOfEra(doe) = 4 * q + s
<1>0. /\ q \in 0..99 /\ c \in 0..3 /\ s \in 0..3 /\ doy \in 0..365
      /\ 25 * c <= q /\ q <= 25 * c + 24
      /\ doy = 365 => s = 3 /\ (q # 25 * c + 24 \/ q = 99)
      /\ doe \in Int /\ doe = 1461 * q + 365 * s - c + doy
  BY SMT DEF IsDayOfEra, DayOfEra
<1>1. doe >= 0 /\ doe <= 146096 /\ (doe = 146096 => q = 99 /\ s = 3 /\ doy = 365)
  BY SMT, <1>0
<1>2. PICK k3 \in Int : k3 = doe \div 146096
  BY SMT, <1>0
<1>3. k3 = IF doe = 146096 THEN 1 ELSE 0
  BY SMT, <1>0, <1>1, <1>2
<1>4. PICK k2 \in Int : k2 = doe \div 36524
  BY SMT, <1>0
<1>5. 36524 * k2 <= doe /\ doe < 36524 * k2 + 36524
  BY SMT, <1>0, <1>4
<1>6. PICK r \in 0..24 : q = 25 * c + r
  BY SMT, <1>0
<1>7. doe = 36524 * c + (1461 * r + 365 * s + doy)
  BY SMT, <1>0, <1>6
<1>8. /\ 1461 * r + 365 * s + doy >= 0
      /\ 1461 * r + 365 * s + doy <= 36524
      /\ 1461 * r + 365 * s + doy = 36524 => r = 24 /\ s = 3 /\ doy = 365
  BY SMT, <1>0
<1>9. k2 - k3 = c
  <2>1. CASE doe = 146096
    BY SMT, <1>0, <1>1, <1>3, <1>5, <1>6, <2>1
  <2>2. CASE doe # 146096
    <3>1. 1461 * r + 365 * s + doy < 36524
      BY SMT, <1>0, <1>1, <1>6, <1>8, <2>2
    <3>2. k2 = c
      BY SMT, <1>0, <1>5, <1>7, <1>8, <3>1
    <3> QED BY SMT, <1>0, <1>3, <2>2, <3>2
  <2> QED BY <2>1, <2>2
<1>10. PICK k1 \in Int : k1 = doe \div 1460
  BY SMT, <1>0
<1>11. 1460 * k1 <= doe /\ doe < 1460 * k1 + 1460
  BY SMT, <1>0, <1>10
<1>12. k1 = q \/ (k1 = q + 1 /\ q + 365 * s - c + doy >= 1460)
  BY SMT, <1>0, <1>11
<1>13. k1 = q => q + 365 * s - c + doy < 1460
  BY SMT, <1>0, <1>11
<1>14. PICK rest \in Int : rest = (q - k1) + doy
  BY SMT, <1>0
<1>15. rest >= 0 /\ rest <= 364
  BY SMT, <1>0, <1>12, <1>13, <1>14
<1>16. doe - k1 + k2 - k3 = 365 * (4 * q + s) + rest
  BY SMT, <1>0, <1>9, <1>14
<1>17. (365 * (4 * q + s) + rest) \div 365 = 4 * q + s
  BY SMT, <1>0, <1>15
<1>18. YearOfEra(doe) = (doe - k1 + k2 - k3) \div 365
  BY SMT, <1>0, <1>2, <1>4, <1>10 DEF YearOfEra
<1>19. doe >= 0 /\ doe < EraDays
  BY SMT, <1>0, <1>1 DEF EraDays
<1> QED BY <1>16, <1>17, <1>18, <1>19, SMT

\* The day of its year that a date is, and the month taken from that.
IsDayOfYear(y, m, k, doy, mp) ==
    /\ y \in Int /\ m \in 1..12 /\ k \in 1..MonthLength(y, m)
    /\ doy = MonthDays(m) + k - 1
    /\ mp = MonthOfYear(doy)

\* The month is the date's.
LEMMA MonthOfDay ==
    ASSUME NEW y, NEW m, NEW k, NEW doy, NEW mp, IsDayOfYear(y, m, k, doy, mp)
    PROVE  /\ doy \in 0..365
           /\ doy = 365 => m = 2 /\ IsLeap(y)
           /\ mp = IF m > 2 THEN m - 3 ELSE m + 9
<1>0. /\ y \in Int /\ m \in 1..12 /\ k \in 1..MonthLength(y, m)
      /\ doy = MonthDays(m) + k - 1
      /\ mp = MonthOfYear(doy)
  BY DEF IsDayOfYear
<1>1. PICK len \in 28..31 : len = MonthLength(y, m)
  BY <1>0, LengthBounds
<1>2. k \in Int /\ 1 <= k /\ k <= len
  BY <1>0, <1>1
<1>3. PICK b \in Int : b = MonthDays(m)
  BY <1>0, MonthDaysInt
<1>4. m \in {1, 2, 3, 4, 5, 6, 7, 8, 9, 10, 11, 12}
  BY <1>0
<1>5. doy = b + k - 1 /\ doy \in Int
  BY <1>0, <1>2, <1>3
<1>6. /\ m \in {1, 3, 5, 7, 8, 10, 12} => len = 31
      /\ m \in {4, 6, 9, 11} => len = 30
      /\ m = 2 => len = IF IsLeap(y) THEN 29 ELSE 28
  BY <1>0, <1>1, LengthTable
<1>7. /\ m = 3 => b = 0
      /\ m = 4 => b = 31
      /\ m = 5 => b = 61
      /\ m = 6 => b = 92
      /\ m = 7 => b = 122
      /\ m = 8 => b = 153
      /\ m = 9 => b = 184
      /\ m = 10 => b = 214
      /\ m = 11 => b = 245
      /\ m = 12 => b = 275
      /\ m = 1 => b = 306
      /\ m = 2 => b = 337
  BY <1>3, MonthTable, SMT
<1>8. doy >= 0 /\ doy <= 365 /\ (doy = 365 => m = 2 /\ IsLeap(y))
  BY SMT, <1>2, <1>4, <1>5, <1>6, <1>7
<1>9. mp = IF m > 2 THEN m - 3 ELSE m + 9
  BY SMT, <1>2, <1>4, <1>5, <1>6, <1>7, <1>0 DEF MonthOfYear
<1>10. doy \in 0..365
  BY <1>5, <1>8
<1> QED BY <1>8, <1>9, <1>10, Zenon

\* civil_from_days, step by step.
LEMMA CivilSteps ==
    ASSUME NEW days, NEW z, NEW era, NEW doe, NEW yoe, NEW doy, NEW mp, NEW m,
           days + EpochShift = z, z \div EraDays = era, z - era * EraDays = doe,
           YearOfEra(doe) = yoe,
           doe - DaysBeforeYear(yoe) = doy,
           MonthOfYear(doy) = mp,
           (IF mp < 10 THEN mp + 3 ELSE mp - 9) = m
    PROVE  CivilFromDays(days) =
             [year |-> yoe + era * 400 + (IF m <= 2 THEN 1 ELSE 0), month |-> m,
              day |-> doy - DaysBeforeMonth(mp) + 1]
BY Zenon DEF CivilFromDays

\* A number of days within the era it counts from.
LEMMA EraIs ==
    ASSUME NEW era \in Int, NEW doe \in Int, doe >= 0, doe < EraDays
    PROVE  /\ (era * EraDays + doe) \div EraDays = era
           /\ (era * EraDays + doe) - era * EraDays = doe
BY SMT DEF EraDays

\* The two conversions are inverse: the date of a date's number is the date,
\* for every year of the Gregorian calendar.
LEMMA CivilInverse ==
    ASSUME NEW d, IsDate(d)
    PROVE  CivilFromDays(NumberOf(d)) = d
<1>1. d.year \in Int /\ d.month \in 1..12 /\ d.day \in 1..MonthLength(d.year, d.month)
  BY DEF IsDate
<1>2. PICK year \in Int, month \in 1..12, day \in Int :
         /\ d = [year |-> year, month |-> month, day |-> day]
         /\ day \in 1..MonthLength(year, month)
  BY <1>1, LengthBounds DEF IsDate
<1>3. day \in Int
  OBVIOUS
<1>4. PICK y \in Int : y = MarchYear(year, month)
  BY DEF MarchYear
<1>5. PICK era \in Int : era = y \div 400
  BY SMT
<1>6. PICK yoe \in Int : yoe = y - era * 400
  BY SMT
<1>7. yoe \in 0..399
  BY SMT, <1>5, <1>6
<1>8. PICK doy \in Int : doy = MonthDays(month) + day - 1
  BY <1>3, MonthDaysInt
<1>9. PICK mp : mp = MonthOfYear(doy)
  OBVIOUS
<1>10. /\ doy \in 0..365
       /\ doy = 365 => month = 2 /\ IsLeap(year)
       /\ mp = IF month > 2 THEN month - 3 ELSE month + 9
       /\ DaysBeforeMonth(mp) = MonthDays(month)
  <2>1. /\ doy \in 0..365
        /\ doy = 365 => month = 2 /\ IsLeap(year)
        /\ mp = IF month > 2 THEN month - 3 ELSE month + 9
    <3>1. IsDayOfYear(year, month, day, doy, mp)
      BY <1>2, <1>8, <1>9, Zenon DEF IsDayOfYear
    <3> QED BY <3>1, MonthOfDay
  <2> QED BY <2>1, Zenon DEF MonthDays
<1>11. PICK q \in Int, c \in Int, s \in Int : q = yoe \div 4 /\ c = yoe \div 100 /\ s = yoe % 4
  BY SMT
<1>12. /\ q \in 0..99 /\ c \in 0..3 /\ s \in 0..3 /\ yoe = 4 * q + s
       /\ 25 * c <= q /\ q <= 25 * c + 24
  BY SMT, <1>7, <1>11
<1>13. PICK doe \in Int : doe = DayOfEra(q, s, c, doy)
  BY SMT, <1>12 DEF DayOfEra
<1>14. doy = 365 => s = 3 /\ (q # 25 * c + 24 \/ q = 99)
  <2>1. SUFFICES ASSUME doy = 365
                 PROVE  s = 3 /\ (q # 25 * c + 24 \/ q = 99)
    OBVIOUS
  <2>2. year = y + 1 /\ IsLeap(y + 1)
    BY <1>4, <1>10, <2>1 DEF MarchYear
  <2>3. (y + 1) % 4 = 0 /\ ((y + 1) % 100 # 0 \/ (y + 1) % 400 = 0)
    BY <2>2 DEF IsLeap
  <2>4. y + 1 = 400 * era + 4 * q + s + 1
    BY SMT, <1>6, <1>12
  <2>5. s = 3
    BY SMT, <1>12, <2>3, <2>4
  <2>6. CASE q = 25 * c + 24
    <3>1. y + 1 = 400 * era + 100 * c + 100
      BY SMT, <2>4, <2>5, <2>6
    <3>2. (y + 1) % 100 = 0
      BY SMT, <3>1
    <3>3. (y + 1) % 400 = 0
      BY <2>3, <3>2
    <3>4. c = 3
      BY SMT, <1>12, <3>1, <3>3
    <3> QED BY SMT, <2>5, <2>6, <3>4
  <2> QED BY <2>5, <2>6
<1>15. doe >= 0 /\ doe < EraDays /\ YearOfEra(doe) = 4 * q + s
  <2>1. IsDayOfEra(q, s, c, doy, doe)
    BY <1>10, <1>12, <1>13, <1>14 DEF IsDayOfEra
  <2> QED BY <2>1, YearOfEraIs, SMT
<1>16. PICK z \in Int, w \in Int : z = w + doe /\ w = era * EraDays
  BY SMT DEF EraDays
<1>17. PICK days \in Int : days = z - EpochShift
  BY EpochShiftInt
<1>18. NumberOf(d) = days
  <2>1. NumberOf(d) = YearDays(y) + MonthDays(month) + day - 1 - EpochShift
    BY <1>2, <1>3, <1>4, CivilDays DEF NumberOf
  <2>2. YearDays(y) = w + 365 * yoe + q - c
    <3>1. y \div 4 = 100 * era + q
      BY SMT, <1>6, <1>11
    <3>2. y \div 100 = 4 * era + c
      BY SMT, <1>6, <1>11
    <3> QED BY SMT, <1>5, <1>6, <1>16, <3>1, <3>2 DEF YearDays, EraDays
  <2>3. YearDays(y) = w + doe - doy
    BY SMT, <1>12, <1>13, <2>2 DEF DayOfEra
  <2>4. PICK a \in Int, b \in Int, f \in Int : a = YearDays(y) /\ b = MonthDays(month) /\ f = EpochShift
    BY YearDaysInt, MonthDaysInt, EpochShiftInt
  <2>5. NumberOf(d) = a + b + day - 1 - f
    BY <2>1, <2>4, Zenon
  <2>6. a = z - doy /\ doy = b + day - 1
    BY SMT, <1>8, <1>16, <2>3, <2>4
  <2>7. days = z - f
    BY <1>17, <2>4, Zenon
  <2> QED BY <1>3, <2>5, <2>6, <2>7
<1>19. days + EpochShift = z
  <2>1. PICK f \in Int : f = EpochShift
    BY EpochShiftInt
  <2>2. days = z - f
    BY <1>17, <2>1, Zenon
  <2>3. days + f = z
    BY <2>2
  <2> QED BY <2>1, <2>3, Zenon
<1>20. z \div EraDays = era /\ z - era * EraDays = doe
  BY <1>15, <1>16, EraIs, Zenon
<1>21. YearOfEra(doe) = yoe
  BY <1>12, <1>15, Zenon
<1>22. doe - DaysBeforeYear(yoe) = doy
  <2>1. doe = 365 * yoe + q - c + doy
    BY SMT, <1>12, <1>13 DEF DayOfEra
  <2> QED BY SMT, <1>7, <1>11, <2>1 DEF DaysBeforeYear
<1>23. (IF mp < 10 THEN mp + 3 ELSE mp - 9) = month
  BY SMT, <1>10
<1>24. CivilFromDays(days) =
         [year |-> yoe + era * 400 + (IF month <= 2 THEN 1 ELSE 0), month |-> month,
          day |-> doy - DaysBeforeMonth(mp) + 1]
  BY <1>9, <1>19, <1>20, <1>21, <1>22, <1>23, CivilSteps, SMT
<1>25. yoe + era * 400 + (IF month <= 2 THEN 1 ELSE 0) = year
  BY SMT, <1>4, <1>6 DEF MarchYear
<1>26. doy - DaysBeforeMonth(mp) + 1 = day
  <2>1. PICK b \in Int : b = MonthDays(month)
    BY MonthDaysInt
  <2>2. DaysBeforeMonth(mp) = b /\ doy = b + day - 1
    BY <1>8, <1>10, <2>1, Zenon
  <2>3. PICK e : e = DaysBeforeMonth(mp)
    OBVIOUS
  <2>4. e = b
    BY <2>2, <2>3, Zenon
  <2>5. doy - e + 1 = day
    BY <1>3, <2>2, <2>4, SMT
  <2> QED BY <2>3, <2>5, Zenon
<1> QED BY <1>2, <1>18, <1>24, <1>25, <1>26

-----------------------------------------------------------------------------
(* Eastern time.                                                           *)

LEMMA NumberInt ==
    ASSUME NEW d, IsDate(d)
    PROVE  NumberOf(d) \in Int
<1>1. d.year \in Int /\ d.month \in 1..12 /\ d.day \in Int
  BY LengthBounds DEF IsDate
<1>2. MarchYear(d.year, d.month) \in Int
  BY <1>1 DEF MarchYear
<1>3. PICK y \in Int, m \in Int, k \in Int, c \in Int :
         /\ y = YearDays(MarchYear(d.year, d.month)) /\ m = MonthDays(d.month)
         /\ k = d.day /\ c = EpochShift
  <2>1. YearDays(MarchYear(d.year, d.month)) \in Int
    BY <1>2, YearDaysInt
  <2>2. MonthDays(d.month) \in Int
    BY <1>1, MonthDaysInt
  <2> QED BY <1>1, <2>1, <2>2, EpochShiftInt, Zenon
<1>4. NumberOf(d) = y + m + k - 1 - c
  <2>1. DaysFromCivil(d.year, d.month, k)
          = YearDays(MarchYear(d.year, d.month)) + MonthDays(d.month) + k - 1 - EpochShift
    BY <1>1, CivilDays
  <2> QED BY <1>3, <2>1, Zenon DEF NumberOf
<1> QED BY <1>4

\* A date from March on counts from the first of March of its year; one
\* before it comes before that day.
LEMMA SinceMarch ==
    ASSUME NEW d, IsDate(d)
    PROVE  /\ d.month >= 3 => NumberOf(d) = DaysFromCivil(d.year, 3, 1) + MonthDays(d.month) + d.day - 1
           /\ d.month <= 2 => NumberOf(d) < DaysFromCivil(d.year, 3, 1)
           /\ DaysFromCivil(d.year, 11, 1) = DaysFromCivil(d.year, 3, 1) + 245
           /\ DaysFromCivil(d.year, 3, 1) \in Int
<1>1. PICK y \in Int, m \in 1..12, k \in Int : /\ y = d.year /\ m = d.month /\ k = d.day
                                            /\ k \in 1..MonthLength(y, m)
  BY LengthBounds DEF IsDate
<1>2. PICK len \in 28..31 : len = MonthLength(y, m)
  BY LengthBounds
<1>3. k \in Int /\ 1 <= k /\ k <= len
  BY <1>1, <1>2
<1>4. PICK a \in Int, p \in Int, c \in Int : a = YearDays(y) /\ p = YearDays(y - 1) /\ c = EpochShift
  BY YearDaysInt, EpochShiftInt
<1>5. PICK b \in Int : b = MonthDays(m)
  BY MonthDaysInt
<1>6. DaysFromCivil(y, 3, 1) = a - c
  <2>1. MarchYear(y, 3) = y
    BY DEF MarchYear
  <2>2. DaysFromCivil(y, 3, 1) = YearDays(MarchYear(y, 3)) + MonthDays(3) + 1 - 1 - EpochShift
    BY CivilDays
  <2>3. DaysFromCivil(y, 3, 1) = a + MonthDays(3) + 1 - 1 - c
    BY <1>4, <2>1, <2>2, Zenon
  <2>4. MonthDays(3) = 0
    BY MonthTable, Zenon
  <2> QED BY <2>3, <2>4
<1>7. DaysFromCivil(y, 11, 1) = a + 245 - c
  <2>1. MarchYear(y, 11) = y
    BY DEF MarchYear
  <2>2. DaysFromCivil(y, 11, 1) = YearDays(MarchYear(y, 11)) + MonthDays(11) + 1 - 1 - EpochShift
    BY CivilDays
  <2>3. DaysFromCivil(y, 11, 1) = a + MonthDays(11) + 1 - 1 - c
    BY <1>4, <2>1, <2>2, Zenon
  <2>4. MonthDays(11) = 245
    BY MonthTable, Zenon
  <2> QED BY <2>3, <2>4
<1>8. NumberOf(d) = YearDays(MarchYear(y, m)) + b + k - 1 - c
  <2>1. DaysFromCivil(y, m, k) = YearDays(MarchYear(y, m)) + MonthDays(m) + k - 1 - EpochShift
    BY <1>3, CivilDays
  <2> QED BY <1>1, <1>4, <1>5, <2>1, Zenon DEF NumberOf
<1>9. m >= 3 => NumberOf(d) = a + b + k - 1 - c
  <2>1. m >= 3 => MarchYear(y, m) = y
    BY DEF MarchYear
  <2> QED BY <1>4, <1>8, <2>1
<1>10. m <= 2 => NumberOf(d) < a - c
  <2>1. SUFFICES ASSUME m <= 2 PROVE NumberOf(d) < a - c
    OBVIOUS
  <2>2. MarchYear(y, m) = y - 1
    BY <2>1 DEF MarchYear
  <2>3. NumberOf(d) = p + b + k - 1 - c
    BY <1>4, <1>8, <2>2
  <2>4. a - p = IF IsLeap(y) THEN 366 ELSE 365
    BY <1>4, YearGrows
  <2>5. m = 1 \/ m = 2
    BY <2>1
  <2>6. m = 1 => b = 306 /\ len = 31
    BY <1>2, <1>5, MonthTable, LengthTable, SMT
  <2>7. m = 2 => b = 337 /\ len = IF IsLeap(y) THEN 29 ELSE 28
    BY <1>2, <1>5, MonthTable, LengthTable, SMT
  <2> QED BY <1>3, <2>3, <2>4, <2>5, <2>6, <2>7, SMT
<1> QED BY <1>1, <1>3, <1>5, <1>6, <1>7, <1>9, <1>10

\* The first Sunday from a day on is in its week, and tells the weekdays after.
LEMMA Sundays ==
    ASSUME NEW first \in Int, NEW i \in Int
    PROVE  /\ (0 + 7 - WeekdayOfDay(first)) % 7 \in 0..6
           /\ WeekdayOfDay(first + i) = (i - ((0 + 7 - WeekdayOfDay(first)) % 7)) % 7
BY SMT DEF WeekdayOfDay

\* An instant against an hour of a day: by the day, and on it by the hour.
LEMMA InstantAgainst ==
    ASSUME NEW t \in Int, NEW n \in Int, NEW h \in 0..23
    PROVE  t >= n * Day + h * 60
             <=> \/ t \div Day > n
                 \/ t \div Day = n /\ (t % Day) \div 60 >= h
<1>1. PICK q \in Int, r \in Int : q = t \div Day /\ r = t % Day
  BY SMT DEF Day
<1>2. t = 1440 * q + r /\ 0 <= r /\ r < 1440
  BY <1>1, SMT DEF Day
<1>3. PICK e \in Int : e = r \div 60
  BY SMT
<1>4. 60 * e <= r /\ r < 60 * e + 60
  BY <1>3, SMT
<1> QED BY <1>1, <1>2, <1>3, <1>4, SMT DEF Day

\* The second Sunday of March and the first of November, found from the day
\* of the month and the weekday as from the first of the month.
LEMMA SecondSunday ==
    ASSUME NEW j \in 0..6, NEW k \in 1..31, NEW w \in Int, w = (k - 1 - j) % 7,
           NEW late \in BOOLEAN
    PROVE  (\/ w = 0 /\ k \in 8 .. 8 + 6 /\ late
            \/ k - w >= 8 /\ ~(w = 0 /\ k <= 8 + 6))
             <=> k - 1 > j + 7 \/ (k - 1 = j + 7 /\ late)
BY SMT

LEMMA FirstSunday ==
    ASSUME NEW j \in 0..6, NEW k \in 1..31, NEW w \in Int, w = (k - 1 - j) % 7,
           NEW late \in BOOLEAN
    PROVE  (\/ w = 0 /\ k \in 1 .. 1 + 6 /\ late
            \/ k - w >= 1 /\ ~(w = 0 /\ k <= 1 + 6))
             <=> k - 1 > j \/ (k - 1 = j /\ late)
BY SMT

\* The days the clocks change.
SpringDay(y) == NthWeekdayDay(y, 3, 0, 2)
FallDay(y)   == NthWeekdayDay(y, 11, 0, 1)

\* They are Sundays, in the second week of March and the first of November.
AreChangeDays(y, first, i, j) ==
    /\ first = DaysFromCivil(y, 3, 1)
    /\ i = (0 + 7 - WeekdayOfDay(first)) % 7
    /\ j = (0 + 7 - WeekdayOfDay(first + 245)) % 7
    /\ SpringDay(y) = first + i + 7 /\ WeekdayOfDay(SpringDay(y)) = 0
    /\ FallDay(y) = first + 245 + j /\ WeekdayOfDay(FallDay(y)) = 0

LEMMA ChangeDays ==
    ASSUME NEW d, IsDate(d)
    PROVE  \E first \in Int, i \in 0..6, j \in 0..6 : AreChangeDays(d.year, first, i, j)
<1>0. PICK y \in Int, first \in Int : /\ y = d.year /\ first = DaysFromCivil(y, 3, 1)
                                    /\ DaysFromCivil(y, 11, 1) = first + 245
  BY SinceMarch DEF IsDate
<1>1. PICK i \in 0..6, j \in 0..6 : /\ i = (0 + 7 - WeekdayOfDay(first)) % 7
                                  /\ j = (0 + 7 - WeekdayOfDay(first + 245)) % 7
  <2>1. PICK b \in Int : b = first + 245
    OBVIOUS
  <2>2. /\ (0 + 7 - WeekdayOfDay(first)) % 7 \in 0..6
        /\ (0 + 7 - WeekdayOfDay(b)) % 7 \in 0..6
    BY Sundays
  <2> QED BY <2>1, <2>2
<1>2. SpringDay(y) = first + i + (2 - 1) * 7
  BY <1>0, <1>1, Zenon DEF SpringDay, NthWeekdayDay
<1>3. FallDay(y) = first + 245 + j + (1 - 1) * 7
  BY <1>0, <1>1, Zenon DEF FallDay, NthWeekdayDay
<1>4. SpringDay(y) = first + i + 7 /\ FallDay(y) = first + 245 + j
  BY <1>2, <1>3
<1>5. WeekdayOfDay(SpringDay(y)) = 0 /\ WeekdayOfDay(FallDay(y)) = 0
  <2>1. WeekdayOfDay(first + (i + 7)) = (i + 7 - i) % 7
    BY <1>1, SMT DEF WeekdayOfDay
  <2>2. WeekdayOfDay(first + 245 + j) = (j - j) % 7
    BY <1>1, SMT DEF WeekdayOfDay
  <2> QED BY <1>4, <2>1, <2>2
<1>6. AreChangeDays(y, first, i, j)
  BY <1>0, <1>1, <1>4, <1>5, SMT DEF AreChangeDays
<1> QED BY <1>0, <1>6

\* The offset of an instant, by the day it is on and, on the day of a change,
\* by the hour.
InSummerTime(y, n, hour) ==
    /\ n > SpringDay(y) \/ (n = SpringDay(y) /\ hour >= 7)
    /\ ~(n > FallDay(y) \/ (n = FallDay(y) /\ hour >= 6))

LEMMA OffsetByDay ==
    ASSUME NEW d, IsDate(d), NEW t \in Int, NEW n \in Int, n = t \div Day, n = NumberOf(d),
           NEW hour \in Int, hour = (t % Day) \div 60
    PROVE  EasternOffset(t) = IF InSummerTime(d.year, n, hour) THEN -240 ELSE -300
<1>1. PICK y \in Int : y = d.year
  BY DEF IsDate
<1>2. PICK spring \in Int, fall \in Int : spring = SpringDay(y) /\ fall = FallDay(y)
  <2>1. PICK first \in Int, i \in 0..6, j \in 0..6 : AreChangeDays(d.year, first, i, j)
    BY ChangeDays
  <2> QED BY <1>1, <2>1, SMT DEF AreChangeDays
<1>3. CivilFromDays(n) = d
  BY CivilInverse, Zenon
<1>4. t >= spring * Day + 7 * 60 <=> n > spring \/ (n = spring /\ hour >= 7)
  BY <1>2, InstantAgainst
<1>5. t >= fall * Day + 6 * 60 <=> n > fall \/ (n = fall /\ hour >= 6)
  BY <1>2, InstantAgainst
<1>6. t < fall * Day + 6 * 60 <=> ~(t >= fall * Day + 6 * 60)
  BY SMT DEF Day
<1>7. InSummerTime(y, n, hour) <=> t >= spring * Day + 7 * 60 /\ t < fall * Day + 6 * 60
  BY <1>2, <1>4, <1>5, <1>6, Zenon DEF InSummerTime
<1>8. EasternOffset(t) = IF t >= spring * Day + 7 * 60 /\ t < fall * Day + 6 * 60
                         THEN -240 ELSE -300
  BY <1>1, <1>2, <1>3, SMT DEF EasternOffset, SpringDay, FallDay
<1> QED BY <1>1, <1>7, <1>8, SMT

\* The night of a Sunday, told as OffsetFollowsTheClocks tells it.
PastSunday(first, at) ==
    LET weekday == WeekdayOfDay(ts \div Day)
        hour    == (ts % Day) \div 60
    IN  \/ weekday = 0 /\ date.day \in first .. first + 6 /\ hour >= at
        \/ date.day - weekday >= first /\ ~(weekday = 0 /\ date.day <= first + 6)

InSummer ==
    CASE date.month = 3  -> PastSunday(8, 7)
      [] date.month = 11 -> ~PastSunday(1, 6)
      [] OTHER           -> date.month \in 4 .. 10

\* The offset is the clocks' for the instants of a date.
LEMMA OffsetRight ==
    ASSUME IsDate(date), ts \in Int, NumberOf(date) = ts \div Day
    PROVE  OffsetFollowsTheClocks
<1>1. PICK y \in Int, m \in 1..12, k \in 1..31 : y = date.year /\ m = date.month /\ k = date.day
  <2>1. date.year \in Int /\ date.month \in 1..12 /\ date.day \in 1..MonthLength(date.year, date.month)
    BY DEF IsDate
  <2>2. MonthLength(date.year, date.month) \in 28..31
    BY <2>1, LengthBounds
  <2> QED BY <2>1, <2>2
<1>2. PICK n \in Int : n = ts \div Day
  BY SMT DEF Day
<1>3. PICK first \in Int : first = DaysFromCivil(y, 3, 1)
  BY <1>1, SinceMarch, Zenon
<1>4. PICK b \in Int : b = MonthDays(m)
  BY MonthDaysInt
<1>5. /\ m >= 3 => n = first + b + k - 1
      /\ m <= 2 => n < first
      /\ DaysFromCivil(y, 11, 1) = first + 245
  BY <1>1, <1>2, <1>3, <1>4, SinceMarch
<1>6. PICK i \in 0..6, j \in 0..6 :
         /\ i = (0 + 7 - WeekdayOfDay(first)) % 7
         /\ j = (0 + 7 - WeekdayOfDay(first + 245)) % 7
         /\ SpringDay(y) = first + i + 7
         /\ FallDay(y) = first + 245 + j
  <2>1. PICK f \in Int, i \in 0..6, j \in 0..6 : AreChangeDays(date.year, f, i, j)
    BY ChangeDays
  <2> QED BY <1>1, <1>3, <2>1, SMT DEF AreChangeDays
<1>7. PICK spring \in Int, fall \in Int : spring = first + i + 7 /\ fall = first + 245 + j
  OBVIOUS
<1>8. PICK w \in Int, hour \in Int : w = WeekdayOfDay(n) /\ hour = (ts % Day) \div 60
  BY SMT DEF WeekdayOfDay, Day
<1> DEFINE summer == /\ n > spring \/ (n = spring /\ hour >= 7)
                     /\ ~(n > fall \/ (n = fall /\ hour >= 6))
<1>9. InSummerTime(y, n, hour) <=> summer
  BY <1>6, <1>7, SMT DEF InSummerTime
<1>10. EasternOffset(ts) = IF summer THEN -240 ELSE -300
  <2> HIDE DEF summer
  <2>1. EasternOffset(ts) = IF InSummerTime(y, n, hour) THEN -240 ELSE -300
    BY <1>1, <1>2, <1>8, OffsetByDay
  <2> QED BY <1>9, <2>1, SMT
<1>11. summer <=> InSummer
  <2>1. CASE m = 3
    <3>1. InSummer <=> PastSunday(8, 7)
      <4>1. date.month = 3 /\ date.month # 11
        BY <1>1, <2>1
      <4> QED BY <4>1, Zenon DEF InSummer
    <3>2. PastSunday(8, 7) <=> \/ w = 0 /\ k \in 8 .. 8 + 6 /\ hour >= 7
                               \/ k - w >= 8 /\ ~(w = 0 /\ k <= 8 + 6)
      BY <1>1, <1>2, <1>8, Zenon DEF PastSunday
    <3>3. b = 0
      BY <1>4, <2>1, MonthTable, SMT
    <3>4. n = first + (k - 1)
      BY <1>5, <2>1, <3>3
    <3>5. w = (k - 1 - i) % 7
      <4>1. PICK e \in Int : e = k - 1
        OBVIOUS
      <4>2. w = (e - i) % 7
        BY <1>6, <1>8, <3>4, <4>1, Sundays
      <4> QED BY <4>1, <4>2
    <3>6. (hour >= 7) \in BOOLEAN
      OBVIOUS
    <3>7. PastSunday(8, 7) <=> k - 1 > i + 7 \/ (k - 1 = i + 7 /\ hour >= 7)
      BY <3>2, <3>5, <3>6, SecondSunday
    <3>8. n < fall
      BY <1>7, <3>4
    <3> QED BY <1>7, <3>1, <3>4, <3>7, <3>8
  <2>2. CASE m = 11
    <3>1. InSummer <=> ~PastSunday(1, 6)
      <4>1. date.month = 11 /\ date.month # 3
        BY <1>1, <2>2
      <4> QED BY <4>1, Zenon DEF InSummer
    <3>2. PastSunday(1, 6) <=> \/ w = 0 /\ k \in 1 .. 1 + 6 /\ hour >= 6
                               \/ k - w >= 1 /\ ~(w = 0 /\ k <= 1 + 6)
      BY <1>1, <1>2, <1>8, Zenon DEF PastSunday
    <3>3. b = 245
      BY <1>4, <2>2, MonthTable, SMT
    <3>4. n = first + 245 + (k - 1)
      BY <1>5, <2>2, <3>3
    <3>5. w = (k - 1 - j) % 7
      <4>1. PICK e \in Int, f \in Int : e = k - 1 /\ f = first + 245
        OBVIOUS
      <4>2. w = (e - j) % 7
        BY <1>6, <1>8, <3>4, <4>1, Sundays
      <4> QED BY <4>1, <4>2
    <3>6. (hour >= 6) \in BOOLEAN
      OBVIOUS
    <3>7. PastSunday(1, 6) <=> k - 1 > j \/ (k - 1 = j /\ hour >= 6)
      BY <3>2, <3>5, <3>6, FirstSunday
    <3>8. n > spring
      BY <1>7, <3>4
    <3> QED BY <1>7, <3>1, <3>4, <3>7, <3>8
  <2>3. CASE m # 3 /\ m # 11
    <3>1. InSummer <=> m \in 4 .. 10
      BY <1>1, <2>3, Zenon DEF InSummer
    <3>2. CASE m <= 2
      BY <1>5, <1>7, <3>1, <3>2
    <3>3. CASE m \in 4..10
      <4>1. b >= 31 /\ b <= 214
        <5>1. m \in {4, 5, 6, 7, 8, 9, 10}
          BY <3>3
        <5> QED BY <1>4, <5>1, MonthTable, SMT
      <4>2. n > spring
        BY <1>5, <1>7, <3>3, <4>1
      <4>3. n < fall \/ n = first + 214 + 30
        BY <1>5, <1>7, <3>3, <4>1
      <4>4. n < fall
        BY <1>7, <4>3
      <4> QED BY <1>7, <3>1, <3>3, <4>2, <4>4
    <3>4. CASE m = 12
      <4>1. b = 275
        BY <1>4, <3>4, MonthTable, SMT
      <4>2. n > fall
        BY <1>5, <1>7, <3>4, <4>1
      <4> QED BY <3>1, <3>4, <4>2
    <3> QED BY <2>3, <3>2, <3>3, <3>4
  <2> QED BY <2>1, <2>2, <2>3
<1>12. OffsetFollowsTheClocks <=> EasternOffset(ts) = IF InSummer THEN -240 ELSE -300
  BY Zenon DEF OffsetFollowsTheClocks, InSummer, PastSunday
<1> HIDE DEF summer
<1> QED BY <1>10, <1>11, <1>12, SMT

-----------------------------------------------------------------------------
(* The walk.                                                               *)

\* The date kept by hand is the instant's, and an instant is a half hour.
Walk ==
    /\ ts \in Int /\ ts % HalfHour = 0
    /\ IsDate(date) /\ NumberOf(date) = ts \div Day

\* Every step turns the date at midnight and at no other time.
\* (calendar.rs civil_from_days, days_from_civil, eastern_offset_seconds.)
THEOREM WalkInvariant == Spec => []Walk
<1>1. Init => Walk
  <2> SUFFICES ASSUME Init PROVE Walk
    OBVIOUS
  <2>1. /\ start.year \in Int /\ start.month \in 1..12
        /\ start.day \in 1..MonthLength(start.year, start.month)
        /\ start.minute \in 0..(Day - 1) /\ start.minute % HalfHour = 0
    BY StartsAreDates DEF Init
  <2>2. date = [year |-> start.year, month |-> start.month, day |-> start.day]
    BY DEF Init
  <2>3. IsDate(date) /\ NumberOf(date) = DaysFromCivil(start.year, start.month, start.day)
    BY <2>1, <2>2 DEF IsDate, NumberOf
  <2>4. PICK n \in Int : n = NumberOf(date)
    BY <2>3, NumberInt
  <2>5. ts = n * Day + start.minute
    BY <2>3, <2>4 DEF Init
  <2>6. ts \in Int /\ ts \div Day = n /\ ts % HalfHour = 0
    <3>1. start.minute \in 0..(Day - 1) /\ start.minute % HalfHour = 0
      BY <2>1
    <3>2. PICK r \in Int : r = start.minute /\ 0 <= r /\ r < 1440 /\ r % 30 = 0
      BY <3>1, SMT DEF Day, HalfHour
    <3> QED BY <2>5, <3>2, SMT DEF Day, HalfHour
  <2> QED BY <2>3, <2>4, <2>6 DEF Walk
<1>2. Walk /\ [Next]_vars => Walk'
  <2> SUFFICES ASSUME Walk, [Next]_vars PROVE Walk'
    OBVIOUS
  <2>1. CASE Advance
    <3>1. PICK t \in Int : t = ts /\ t % 30 = 0 /\ ts' = t + 30
      BY <2>1 DEF Walk, Advance, HalfHour
    <3>2. PICK n \in Int : n = t \div 1440
      BY SMT
    <3>3. ts' \in Int /\ ts' % HalfHour = 0
      BY <3>1, SMT DEF HalfHour
    <3>4. CASE ts' % Day = 0
      <4>1. ts' \div Day = ts \div Day + 1
        BY <3>1, <3>2, <3>4, SMT DEF Day
      <4>2. date' = NextDate(date)
        BY <2>1, <3>4 DEF Advance
      <4>3. IsDate(date') /\ NumberOf(date') = NumberOf(date) + 1
        BY <4>2, NextDateCounts DEF Walk
      <4> QED BY <3>3, <4>1, <4>3, Zenon DEF Walk
    <3>5. CASE ts' % Day # 0
      <4>1. ts' \div Day = ts \div Day
        BY <3>1, <3>2, <3>5, SMT DEF Day
      <4>2. date' = date
        BY <2>1, <3>5 DEF Advance
      <4> QED BY <3>3, <4>1, <4>2, Zenon DEF Walk
    <3> QED BY <3>4, <3>5
  <2>2. CASE \E call \in Appends : AppendCalendarEntries(call)
    <3>1. ts' = ts /\ date' = date
      BY <2>2 DEF AppendCalendarEntries
    <3> QED BY <3>1, Zenon DEF Walk
  <2>3. CASE UNCHANGED vars
    BY <2>3, Zenon DEF Walk, vars
  <2> QED BY <2>1, <2>2, <2>3 DEF Next
<1> QED BY <1>1, <1>2, PTL DEF Spec

\* Wherever the program and the SDK turn an instant into a civil date and a
\* date into a number of days, they agree with the calendar, and the Eastern
\* offset changes on the Sundays and at the hours it must: from any start,
\* however long the walk, for every year.
THEOREM CivilTimeIsRight == Spec => []EasternTimeIsRight
<1>1. Walk => EasternTimeIsRight
  <2> SUFFICES ASSUME Walk PROVE EasternTimeIsRight
    OBVIOUS
  <2>1. CivilFromDays(ts \div Day) = date
    BY CivilInverse, Zenon DEF Walk
  <2>2. DaysFromCivil(date.year, date.month, date.day) = ts \div Day
    BY Zenon DEF Walk, NumberOf
  <2>3. OffsetFollowsTheClocks
    BY OffsetRight DEF Walk
  <2> QED BY <2>1, <2>2, <2>3, Zenon DEF EasternTimeIsRight, DatesAgree
<1> QED BY <1>1, WalkInvariant, PTL

-----------------------------------------------------------------------------
(* The two tables.                                                         *)

\* The date before a date, where the tables are compared: in the same month,
\* or the last of the month before.
LEMMA DayBefore ==
    ASSUME NEW d, IsDate(d)
    PROVE  \E c : /\ IsDate(c) /\ NumberOf(c) = NumberOf(d) - 1
                  /\ \/ d.day > 1 /\ c.year = d.year /\ c.month = d.month
                     \/ d.month > 1 /\ c.year = d.year /\ c.month = d.month - 1
                        /\ c.day = MonthLength(c.year, c.month)
                     \/ d.month = 1 /\ c.year = d.year - 1 /\ c.month = 12
<1>1. PICK y \in Int, m \in 1..12, k \in Int : /\ y = d.year /\ m = d.month /\ k = d.day
                                            /\ k \in 1..MonthLength(y, m)
  BY LengthBounds DEF IsDate
<1>2. MonthLength(y, m) \in 28..31 /\ k \in Int
  BY <1>1, LengthBounds
<1>3. NumberOf(d) = DaysFromCivil(y, m, k) /\ NumberOf(d) \in Int
  BY <1>1, NumberInt, Zenon DEF NumberOf
<1>4. CASE k > 1
  <2>1. PICK e \in Int : e = k - 1
    BY <1>2
  <2>2. e \in 1..MonthLength(y, m) /\ k = e + 1
    BY <1>1, <1>2, <1>4, <2>1
  <2>3. DaysFromCivil(y, m, k) = DaysFromCivil(y, m, e) + 1
    BY <2>2, DayTurns
  <2>4. PICK c : c = [year |-> y, month |-> m, day |-> e]
    OBVIOUS
  <2>5. IsDate(c)
    BY <2>2, <2>4 DEF IsDate
  <2>6. NumberOf(c) = DaysFromCivil(y, m, e) /\ NumberOf(c) \in Int
    BY <2>4, <2>5, NumberInt DEF NumberOf
  <2>7. NumberOf(c) = NumberOf(d) - 1
    BY <1>3, <2>3, <2>6
  <2> QED BY <1>1, <1>4, <2>4, <2>5, <2>7
<1>5. CASE k = 1 /\ m > 1
  <2>1. PICK n \in 1..11 : m = n + 1
    <3>1. m - 1 \in 1..11 /\ m = (m - 1) + 1
      BY <1>5
    <3> QED BY <3>1
  <2>2. PICK len \in 28..31 : len = MonthLength(y, n)
    BY <2>1, LengthBounds
  <2>3. DaysFromCivil(y, m, k) = DaysFromCivil(y, n, len) + 1
    BY <1>5, <2>1, <2>2, MonthTurns
  <2>4. PICK c : c = [year |-> y, month |-> n, day |-> len]
    OBVIOUS
  <2>5. IsDate(c)
    BY <2>2, <2>4 DEF IsDate
  <2>6. NumberOf(c) = DaysFromCivil(y, n, len) /\ NumberOf(c) \in Int
    BY <2>4, <2>5, NumberInt DEF NumberOf
  <2>7. NumberOf(c) = NumberOf(d) - 1
    BY <1>3, <2>3, <2>6
  <2>8. c.year = y /\ c.month = m - 1 /\ c.day = MonthLength(c.year, c.month)
    BY <2>1, <2>2, <2>4
  <2> QED BY <1>1, <1>5, <2>5, <2>7, <2>8
<1>6. CASE k = 1 /\ m = 1
  <2>1. PICK z \in Int : y = z + 1 /\ z = y - 1
    <3>1. y - 1 \in Int /\ y = (y - 1) + 1
      OBVIOUS
    <3> QED BY <3>1
  <2>2. DaysFromCivil(y, m, k) = DaysFromCivil(z, 12, 31) + 1
    BY <1>6, <2>1, YearTurns
  <2>3. PICK c : c = [year |-> z, month |-> 12, day |-> 31]
    OBVIOUS
  <2>4. MonthLength(z, 12) = 31
    BY LengthTable
  <2>5. IsDate(c)
    BY <2>3, <2>4 DEF IsDate
  <2>6. NumberOf(c) = DaysFromCivil(z, 12, 31) /\ NumberOf(c) \in Int
    BY <2>3, <2>5, NumberInt DEF NumberOf
  <2>7. NumberOf(c) = NumberOf(d) - 1
    BY <1>3, <2>2, <2>6
  <2> QED BY <1>1, <1>6, <2>1, <2>3, <2>5, <2>7
<1> QED BY <1>1, <1>2, <1>4, <1>5, <1>6

\* The dates New York has in those months: one more at the start.
InScope(c) ==
    \/ c.year = 2026 /\ c.month >= 9
    \/ c.year = 2026 /\ c.month = 8 /\ c.day = 31
    \/ c.year = 2027 /\ c.month <= 8

\* The local date of an instant of a captured date.
LEMMA LocalDate ==
    ASSUME Walk, Captured
    PROVE  \E c : IsDate(c) /\ InScope(c) /\ CivilFromDays(LocalDay(ts)) = c
<1>1. ts \in Int /\ IsDate(date) /\ NumberOf(date) = ts \div Day
  BY DEF Walk
<1>2. PICK n \in Int : n = ts \div Day
  BY <1>1, SMT DEF Day
<1>3. EasternOffset(ts) = -240 \/ EasternOffset(ts) = -300
  BY SMT DEF EasternOffset
<1>4. LocalDay(ts) = n \/ LocalDay(ts) = n - 1
  <2>1. PICK e \in Int : e = EasternOffset(ts) /\ (e = -240 \/ e = -300)
    BY <1>3
  <2>2. LocalDay(ts) = (ts + e) \div 1440
    BY <2>1, SMT DEF LocalDay, Local, Day
  <2>3. n = ts \div 1440
    BY <1>2, SMT DEF Day
  <2> QED BY <1>1, <2>1, <2>2, <2>3, SMT
<1>5. date.month \in 1..12 /\ date.day \in Int /\ date.year \in Int
  <2>1. date.year \in Int /\ date.month \in 1..12 /\ date.day \in 1..MonthLength(date.year, date.month)
    BY <1>1 DEF IsDate
  <2> QED BY <2>1, LengthBounds
<1>6. CASE LocalDay(ts) = n
  <2>1. CivilFromDays(LocalDay(ts)) = date
    BY <1>1, <1>2, <1>6, CivilInverse, Zenon
  <2>2. InScope(date)
    BY <1>5, SMT DEF Captured, InScope
  <2> QED BY <1>1, <2>1, <2>2, Zenon
<1>7. CASE LocalDay(ts) = n - 1
  <2>1. PICK c :
          /\ IsDate(c) /\ NumberOf(c) = NumberOf(date) - 1
          /\ \/ date.day > 1 /\ c.year = date.year /\ c.month = date.month
             \/ date.month > 1 /\ c.year = date.year /\ c.month = date.month - 1
                /\ c.day = MonthLength(c.year, c.month)
             \/ date.month = 1 /\ c.year = date.year - 1 /\ c.month = 12
    BY <1>1, DayBefore, Zenon
  <2>2. CivilFromDays(LocalDay(ts)) = c
    BY <1>1, <1>2, <1>7, <2>1, CivilInverse, Zenon
  <2>3. c.month = 8 => MonthLength(c.year, c.month) = 31
    BY <2>1, LengthTable DEF IsDate
  <2>4. InScope(c)
    BY <1>5, <2>1, <2>3, SMT DEF Captured, InScope
  <2> QED BY <2>1, <2>2, <2>4, Zenon
<1> QED BY <1>4, <1>6, <1>7

\* The smallest of a set of positions is one of them.
LEMMA MinIn ==
    ASSUME NEW S \in SUBSET (1..12), S # {}
    PROVE  Min(S) \in S
<1>1. \E m \in S : \A k \in S : m <= k
  <2>1. SUFFICES ASSUME \A m \in S : \E k \in S : k < m
                 PROVE  FALSE
    BY SMT
  <2>2. 1 \notin S /\ 2 \notin S /\ 3 \notin S
    BY <2>1, SMT
  <2>3. 4 \notin S /\ 5 \notin S /\ 6 \notin S
    BY <2>1, <2>2, SMT
  <2>4. 7 \notin S /\ 8 \notin S /\ 9 \notin S
    BY <2>1, <2>2, <2>3, SMT
  <2>5. 10 \notin S /\ 11 \notin S /\ 12 \notin S
    BY <2>1, <2>2, <2>3, <2>4, SMT
  <2>6. PICK m \in 1..12 : m \in S
    BY Zenon
  <2>7. m \in {1, 2, 3, 4, 5, 6, 7, 8, 9, 10, 11, 12}
    BY <2>6, SMT
  <2> QED BY <2>2, <2>3, <2>4, <2>5, <2>6, <2>7, SMT
<1> QED BY <1>1, Zenon DEF Min

\* The entries for a key.
Hits(table, key) == {i \in DOMAIN table : table[i].key = key}

\* An entry that answers for one table answers for the other, the same.
SameEntry(i, c) ==
    /\ SdkTable[i].key = KeyOf("sdk", c) <=> ChainTable[i].key = KeyOf("program", c)
    /\ SdkTable[i].kind = ChainTable[i].kind
    /\ SdkTable[i].close = ChainTable[i].close

\* Entry by entry: a date in scope is in the year of the entry with its day.
LEMMA SameEntries ==
    ASSUME NEW c, IsDate(c), InScope(c)
    PROVE  /\ \A i \in 1..12 : SameEntry(i, c)
           /\ ChainTable[13].key # KeyOf("program", c)
<1>1. /\ c.year \in Int /\ c.month \in 1..12 /\ c.day \in 1..MonthLength(c.year, c.month)
      /\ MonthLength(c.year, c.month) \in 28..31
  BY LengthBounds DEF IsDate
<1>2. PICK y \in 2026..2027, m \in 1..12, k \in 1..31 : y = c.year /\ m = c.month /\ k = c.day
  <2>1. c.year \in 2026..2027
    BY <1>1, SMT DEF InScope
  <2>2. c.day \in 1..31
    BY <1>1, SMT
  <2> QED BY <1>1, <2>1, <2>2, SMT
<1>3. \/ y = 2026 /\ m >= 9
      \/ y = 2026 /\ m = 8 /\ k = 31
      \/ y = 2027 /\ m <= 8
  BY <1>2, SMT DEF InScope
<1>4. KeyOf("sdk", c) = SdkKey(y, m, k) /\ KeyOf("program", c) = ChainKey(y, m, k)
  BY <1>2, SMT DEF KeyOf
<1>5. SameEntry(1, c)
  <2>1. /\ SdkTable[1].key = SdkKey(2026, 9, 7) /\ ChainTable[1].key = ChainKey(2026, 9, 7)
        /\ SdkTable[1].kind = ChainTable[1].kind /\ SdkTable[1].close = ChainTable[1].close
    BY SMT DEF SdkTable, ChainTable, Closed, Early
  <2>2. SdkKey(2026, 9, 7) = SdkKey(y, m, k) <=> ChainKey(2026, 9, 7) = ChainKey(y, m, k)
    BY <1>3, SMT DEF SdkKey, ChainKey
  <2> QED BY <1>4, <2>1, <2>2, SMT DEF SameEntry
<1>6. SameEntry(2, c)
  <2>1. /\ SdkTable[2].key = SdkKey(2026, 11, 26) /\ ChainTable[2].key = ChainKey(2026, 11, 26)
        /\ SdkTable[2].kind = ChainTable[2].kind /\ SdkTable[2].close = ChainTable[2].close
    BY SMT DEF SdkTable, ChainTable, Closed, Early
  <2>2. SdkKey(2026, 11, 26) = SdkKey(y, m, k) <=> ChainKey(2026, 11, 26) = ChainKey(y, m, k)
    BY <1>3, SMT DEF SdkKey, ChainKey
  <2> QED BY <1>4, <2>1, <2>2, SMT DEF SameEntry
<1>7. SameEntry(3, c)
  <2>1. /\ SdkTable[3].key = SdkKey(2026, 11, 27) /\ ChainTable[3].key = ChainKey(2026, 11, 27)
        /\ SdkTable[3].kind = ChainTable[3].kind /\ SdkTable[3].close = ChainTable[3].close
    BY SMT DEF SdkTable, ChainTable, Closed, Early
  <2>2. SdkKey(2026, 11, 27) = SdkKey(y, m, k) <=> ChainKey(2026, 11, 27) = ChainKey(y, m, k)
    BY <1>3, SMT DEF SdkKey, ChainKey
  <2> QED BY <1>4, <2>1, <2>2, SMT DEF SameEntry
<1>8. SameEntry(4, c)
  <2>1. /\ SdkTable[4].key = SdkKey(2026, 12, 24) /\ ChainTable[4].key = ChainKey(2026, 12, 24)
        /\ SdkTable[4].kind = ChainTable[4].kind /\ SdkTable[4].close = ChainTable[4].close
    BY SMT DEF SdkTable, ChainTable, Closed, Early
  <2>2. SdkKey(2026, 12, 24) = SdkKey(y, m, k) <=> ChainKey(2026, 12, 24) = ChainKey(y, m, k)
    BY <1>3, SMT DEF SdkKey, ChainKey
  <2> QED BY <1>4, <2>1, <2>2, SMT DEF SameEntry
<1>9. SameEntry(5, c)
  <2>1. /\ SdkTable[5].key = SdkKey(2026, 12, 25) /\ ChainTable[5].key = ChainKey(2026, 12, 25)
        /\ SdkTable[5].kind = ChainTable[5].kind /\ SdkTable[5].close = ChainTable[5].close
    BY SMT DEF SdkTable, ChainTable, Closed, Early
  <2>2. SdkKey(2026, 12, 25) = SdkKey(y, m, k) <=> ChainKey(2026, 12, 25) = ChainKey(y, m, k)
    BY <1>3, SMT DEF SdkKey, ChainKey
  <2> QED BY <1>4, <2>1, <2>2, SMT DEF SameEntry
<1>10. SameEntry(6, c)
  <2>1. /\ SdkTable[6].key = SdkKey(2027, 1, 1) /\ ChainTable[6].key = ChainKey(2027, 1, 1)
        /\ SdkTable[6].kind = ChainTable[6].kind /\ SdkTable[6].close = ChainTable[6].close
    BY SMT DEF SdkTable, ChainTable, Closed, Early
  <2>2. SdkKey(2027, 1, 1) = SdkKey(y, m, k) <=> ChainKey(2027, 1, 1) = ChainKey(y, m, k)
    BY <1>3, SMT DEF SdkKey, ChainKey
  <2> QED BY <1>4, <2>1, <2>2, SMT DEF SameEntry
<1>11. SameEntry(7, c)
  <2>1. /\ SdkTable[7].key = SdkKey(2027, 1, 18) /\ ChainTable[7].key = ChainKey(2027, 1, 18)
        /\ SdkTable[7].kind = ChainTable[7].kind /\ SdkTable[7].close = ChainTable[7].close
    BY SMT DEF SdkTable, ChainTable, Closed, Early
  <2>2. SdkKey(2027, 1, 18) = SdkKey(y, m, k) <=> ChainKey(2027, 1, 18) = ChainKey(y, m, k)
    BY <1>3, SMT DEF SdkKey, ChainKey
  <2> QED BY <1>4, <2>1, <2>2, SMT DEF SameEntry
<1>12. SameEntry(8, c)
  <2>1. /\ SdkTable[8].key = SdkKey(2027, 2, 15) /\ ChainTable[8].key = ChainKey(2027, 2, 15)
        /\ SdkTable[8].kind = ChainTable[8].kind /\ SdkTable[8].close = ChainTable[8].close
    BY SMT DEF SdkTable, ChainTable, Closed, Early
  <2>2. SdkKey(2027, 2, 15) = SdkKey(y, m, k) <=> ChainKey(2027, 2, 15) = ChainKey(y, m, k)
    BY <1>3, SMT DEF SdkKey, ChainKey
  <2> QED BY <1>4, <2>1, <2>2, SMT DEF SameEntry
<1>13. SameEntry(9, c)
  <2>1. /\ SdkTable[9].key = SdkKey(2027, 3, 26) /\ ChainTable[9].key = ChainKey(2027, 3, 26)
        /\ SdkTable[9].kind = ChainTable[9].kind /\ SdkTable[9].close = ChainTable[9].close
    BY SMT DEF SdkTable, ChainTable, Closed, Early
  <2>2. SdkKey(2027, 3, 26) = SdkKey(y, m, k) <=> ChainKey(2027, 3, 26) = ChainKey(y, m, k)
    BY <1>3, SMT DEF SdkKey, ChainKey
  <2> QED BY <1>4, <2>1, <2>2, SMT DEF SameEntry
<1>14. SameEntry(10, c)
  <2>1. /\ SdkTable[10].key = SdkKey(2027, 5, 31) /\ ChainTable[10].key = ChainKey(2027, 5, 31)
        /\ SdkTable[10].kind = ChainTable[10].kind /\ SdkTable[10].close = ChainTable[10].close
    BY SMT DEF SdkTable, ChainTable, Closed, Early
  <2>2. SdkKey(2027, 5, 31) = SdkKey(y, m, k) <=> ChainKey(2027, 5, 31) = ChainKey(y, m, k)
    BY <1>3, SMT DEF SdkKey, ChainKey
  <2> QED BY <1>4, <2>1, <2>2, SMT DEF SameEntry
<1>15. SameEntry(11, c)
  <2>1. /\ SdkTable[11].key = SdkKey(2027, 6, 18) /\ ChainTable[11].key = ChainKey(2027, 6, 18)
        /\ SdkTable[11].kind = ChainTable[11].kind /\ SdkTable[11].close = ChainTable[11].close
    BY SMT DEF SdkTable, ChainTable, Closed, Early
  <2>2. SdkKey(2027, 6, 18) = SdkKey(y, m, k) <=> ChainKey(2027, 6, 18) = ChainKey(y, m, k)
    BY <1>3, SMT DEF SdkKey, ChainKey
  <2> QED BY <1>4, <2>1, <2>2, SMT DEF SameEntry
<1>16. SameEntry(12, c)
  <2>1. /\ SdkTable[12].key = SdkKey(2027, 7, 5) /\ ChainTable[12].key = ChainKey(2027, 7, 5)
        /\ SdkTable[12].kind = ChainTable[12].kind /\ SdkTable[12].close = ChainTable[12].close
    BY SMT DEF SdkTable, ChainTable, Closed, Early
  <2>2. SdkKey(2027, 7, 5) = SdkKey(y, m, k) <=> ChainKey(2027, 7, 5) = ChainKey(y, m, k)
    BY <1>3, SMT DEF SdkKey, ChainKey
  <2> QED BY <1>4, <2>1, <2>2, SMT DEF SameEntry
<1>17. ChainTable[13].key # KeyOf("program", c)
  <2>1. ChainTable[13].key = ChainKey(2027, 9, 6)
    BY SMT DEF ChainTable, Closed
  <2> QED BY <1>3, <1>4, <2>1, SMT DEF ChainKey
<1>18. \A i \in 1..12 : i \in {1, 2, 3, 4, 5, 6, 7, 8, 9, 10, 11, 12}
  BY SMT
<1> QED BY <1>5, <1>6, <1>7, <1>8, <1>9, <1>10, <1>11, <1>12, <1>13, <1>14, <1>15, <1>16, <1>17,
           <1>18, SMT

\* The SDK's table and the program's close a date at the same minute.
LEMMA SameClose ==
    ASSUME NEW c, IsDate(c), InScope(c)
    PROVE  CloseOf(SdkTable, KeyOf("sdk", c)) = CloseOf(ChainTable, KeyOf("program", c))
<1>1. /\ \A i \in 1..12 : SameEntry(i, c)
      /\ ChainTable[13].key # KeyOf("program", c)
  BY SameEntries, Zenon
<1>4. PICK sdk, chain : sdk = KeyOf("sdk", c) /\ chain = KeyOf("program", c)
  OBVIOUS
<1>6. DOMAIN SdkTable = 1..12 /\ DOMAIN ChainTable = 1..13
  BY SMT DEF SdkTable, ChainTable
<1>7. \A i \in 1..13 : i \in 1..12 \/ i = 13
  BY SMT
<1>8. \A i \in 1..12 : i \in 1..13
  BY SMT
<1>9. \A i \in 1..12 : SdkTable[i].key = sdk <=> ChainTable[i].key = chain
  BY <1>1, <1>4, Zenon DEF SameEntry
<1>10. \A i \in 1..12 : SdkTable[i].kind = ChainTable[i].kind /\ SdkTable[i].close = ChainTable[i].close
  BY <1>1, Zenon DEF SameEntry
<1>11. ChainTable[13].key # chain
  BY <1>1, <1>4, Zenon
<1>12. PICK hits : hits = Hits(SdkTable, sdk)
  OBVIOUS
<1>13. hits = Hits(ChainTable, chain)
  BY <1>6, <1>7, <1>8, <1>9, <1>11, <1>12, Zenon DEF Hits
<1>14. CASE hits = {}
  <2>1. CloseOf(SdkTable, sdk) = CloseMinute
    BY <1>12, <1>14, Zenon DEF CloseOf, Hits
  <2>2. CloseOf(ChainTable, chain) = CloseMinute
    BY <1>13, <1>14, Zenon DEF CloseOf, Hits
  <2> QED BY <1>4, <2>1, <2>2, Zenon
<1>15. CASE hits # {}
  <2>1. hits \in SUBSET (1..12)
    BY <1>6, <1>12, Zenon DEF Hits
  <2>2. PICK i \in 1..12 : i = Min(hits)
    <3>1. Min(hits) \in hits
      BY <1>15, <2>1, MinIn, Zenon
    <3> QED BY <2>1, <3>1, Zenon
  <2>3. CloseOf(SdkTable, sdk) =
          IF SdkTable[i].kind = "early" THEN SdkTable[i].close ELSE 0
    BY <1>12, <1>15, <2>2, Zenon DEF CloseOf, Hits
  <2>4. CloseOf(ChainTable, chain) =
          IF ChainTable[i].kind = "early" THEN ChainTable[i].close ELSE 0
    BY <1>13, <1>15, <2>2, Zenon DEF CloseOf, Hits
  <2>5. CloseOf(SdkTable, sdk) = CloseOf(ChainTable, chain)
    BY <1>10, <2>3, <2>4, SMT
  <2> QED BY <1>4, <2>5, Zenon
<1> QED BY <1>14, <1>15

\* In the twelve months Pyth published the schedule for, the table the SDK
\* carries, keyed without a year, answers what the program's does at every
\* instant, from any start.  (calendar.ts US_EQUITY_2026_2027, resolveSession.)
THEOREM TablesAgree == Spec => []TablesAgreeInTheCapture
<1>1. Walk => TablesAgreeInTheCapture
  <2> SUFFICES ASSUME Walk, Captured
               PROVE  IsOpen(SdkTable, "sdk", ts) <=> IsOpen(ChainTable, "program", ts)
    BY Zenon DEF TablesAgreeInTheCapture
  <2>1. PICK c : IsDate(c) /\ InScope(c) /\ CivilFromDays(LocalDay(ts)) = c
    BY LocalDate
  <2>2. CloseOf(SdkTable, KeyOf("sdk", c)) = CloseOf(ChainTable, KeyOf("program", c))
    BY <2>1, SameClose
  <2>3. Bounds(SdkTable, "sdk", LocalDay(ts)) = Bounds(ChainTable, "program", LocalDay(ts))
    BY <2>1, <2>2, Zenon DEF Bounds
  <2> QED BY <2>3, Zenon DEF IsOpen
<1> QED BY <1>1, WalkInvariant, PTL

-----------------------------------------------------------------------------
(* The next opening.                                                       *)

\* On a day that is no Sunday the offset is the same at every instant.
LEMMA OffsetOfWeekday ==
    ASSUME NEW d, IsDate(d), WeekdayOfDay(NumberOf(d)) # 0,
           NEW t \in Int, t \div Day = NumberOf(d),
           NEW u \in Int, u \div Day = NumberOf(d)
    PROVE  EasternOffset(t) = EasternOffset(u)
<1>1. PICK n \in Int : n = NumberOf(d)
  BY NumberInt
<1>2. PICK first \in Int, i \in 0..6, j \in 0..6 : AreChangeDays(d.year, first, i, j)
  BY ChangeDays
<1>3. n # SpringDay(d.year) /\ n # FallDay(d.year)
  BY <1>1, <1>2, Zenon DEF AreChangeDays
<1>4. PICK h \in Int, g \in Int : h = (t % Day) \div 60 /\ g = (u % Day) \div 60
  BY SMT DEF Day
<1>5. InSummerTime(d.year, n, h) <=> InSummerTime(d.year, n, g)
  BY <1>3, Zenon DEF InSummerTime
<1>6. EasternOffset(t) = IF InSummerTime(d.year, n, h) THEN -240 ELSE -300
  BY <1>1, <1>4, OffsetByDay
<1>7. EasternOffset(u) = IF InSummerTime(d.year, n, g) THEN -240 ELSE -300
  BY <1>1, <1>4, OffsetByDay
<1> QED BY <1>5, <1>6, <1>7, SMT

\* Half an hour later the offset is the same, but at the two changes.
LEMMA OffsetSteps ==
    ASSUME NEW d, IsDate(d), NEW t \in Int, t % HalfHour = 0, t \div Day = NumberOf(d)
    PROVE  \/ EasternOffset(t + HalfHour) = EasternOffset(t)
           \/ /\ EasternOffset(t) = -300 /\ EasternOffset(t + HalfHour) = -240
              /\ t % Day = 390
           \/ /\ EasternOffset(t) = -240 /\ EasternOffset(t + HalfHour) = -300
              /\ t % Day = 330
<1>1. PICK n \in Int, r \in Int : n = t \div Day /\ r = t % Day
  BY SMT DEF Day
<1>2. t = 1440 * n + r /\ 0 <= r /\ r < 1440 /\ r % 30 = 0
  BY <1>1, SMT DEF Day, HalfHour
<1>3. PICK u \in Int : u = t + HalfHour
  BY SMT DEF HalfHour
<1>4. PICK h \in Int, g \in Int : h = (t % Day) \div 60 /\ g = (u % Day) \div 60
  BY SMT DEF Day
<1>5. h = r \div 60
  BY <1>1, <1>4, Zenon
<1>6. EasternOffset(t) = IF InSummerTime(d.year, n, h) THEN -240 ELSE -300
  BY <1>1, <1>4, OffsetByDay
<1>7. PICK first \in Int, i \in 0..6, j \in 0..6 : AreChangeDays(d.year, first, i, j)
  BY ChangeDays
<1>8. PICK spring \in Int, fall \in Int :
         /\ spring = SpringDay(d.year) /\ fall = FallDay(d.year)
         /\ spring = first + i + 7 /\ fall = first + 245 + j
  BY <1>7, SMT DEF AreChangeDays
<1>9. CASE r < 1410
  <2>1. u \div Day = n /\ u % Day = r + 30
    BY <1>2, <1>3, <1>9, SMT DEF Day, HalfHour
  <2>2. g = (r + 30) \div 60
    BY <1>4, <2>1, Zenon
  <2>3. EasternOffset(u) = IF InSummerTime(d.year, n, g) THEN -240 ELSE -300
    BY <1>1, <1>4, <2>1, OffsetByDay
  <2>4. h <= g
    BY <1>2, <1>5, <2>2, SMT
  <2>5. h < 7 /\ g >= 7 => r = 390
    BY <1>2, <1>5, <2>2, SMT
  <2>6. h < 6 /\ g >= 6 => r = 330
    BY <1>2, <1>5, <2>2, SMT
  <2>7. InSummerTime(d.year, n, h) <=> /\ n > spring \/ (n = spring /\ h >= 7)
                                      /\ ~(n > fall \/ (n = fall /\ h >= 6))
    BY <1>8, Zenon DEF InSummerTime
  <2>8. InSummerTime(d.year, n, g) <=> /\ n > spring \/ (n = spring /\ g >= 7)
                                      /\ ~(n > fall \/ (n = fall /\ g >= 6))
    BY <1>8, Zenon DEF InSummerTime
  <2>9. \/ InSummerTime(d.year, n, h) <=> InSummerTime(d.year, n, g)
        \/ ~InSummerTime(d.year, n, h) /\ InSummerTime(d.year, n, g) /\ r = 390
        \/ InSummerTime(d.year, n, h) /\ ~InSummerTime(d.year, n, g) /\ r = 330
    <3>1. spring < fall
      BY <1>8
    <3> QED BY <2>4, <2>5, <2>6, <2>7, <2>8, <3>1
  <2> QED BY <1>1, <1>3, <1>6, <2>3, <2>9, SMT
<1>10. CASE r = 1410
  <2>1. u \div Day = n + 1 /\ g = 0 /\ h = 23
    <3>1. u = 1440 * (n + 1)
      BY <1>2, <1>3, <1>10, SMT DEF HalfHour
    <3>2. u \div Day = n + 1 /\ u % Day = 0
      BY <3>1, SMT DEF Day
    <3>3. g = 0 \div 60
      BY <1>4, <3>2, Zenon
    <3> QED BY <1>5, <1>10, <3>2, <3>3, SMT
  <2>2. PICK e : e = NextDate(d)
    OBVIOUS
  <2>3. IsDate(e) /\ NumberOf(e) = n + 1
    BY <1>1, <2>2, NextDateCounts
  <2>4. EasternOffset(u) = IF InSummerTime(e.year, n + 1, g) THEN -240 ELSE -300
    BY <2>1, <2>3, <1>4, OffsetByDay
  <2>5. e.year = d.year \/ (d.month = 12 /\ e.month = 1)
    <3>1. d.day <= MonthLength(d.year, d.month) /\ d.month <= 12 /\ d.month \in Int /\ d.day \in Int
          /\ MonthLength(d.year, d.month) \in Int
      BY LengthBounds DEF IsDate
    <3>2. \/ d.day < MonthLength(d.year, d.month)
          \/ d.day = MonthLength(d.year, d.month) /\ d.month < 12
          \/ d.day = MonthLength(d.year, d.month) /\ d.month = 12
      BY <3>1
    <3> QED BY <2>2, <3>2, NextDateIs
  <2>6. InSummerTime(d.year, n, h) <=> n >= spring /\ n < fall
    BY <1>8, <2>1, SMT DEF InSummerTime
  <2>7. CASE e.year = d.year
    <3>1. InSummerTime(e.year, n + 1, g) <=> n + 1 > spring /\ ~(n + 1 > fall)
      <4>1. InSummerTime(e.year, n + 1, g) <=>
              /\ n + 1 > spring \/ (n + 1 = spring /\ g >= 7)
              /\ ~(n + 1 > fall \/ (n + 1 = fall /\ g >= 6))
        BY <1>8, <2>7, Zenon DEF InSummerTime
      <4> QED BY <2>1, <4>1
    <3> QED BY <1>3, <1>6, <2>4, <2>6, <3>1, SMT
  <2>8. CASE d.month = 12 /\ e.month = 1
    <3>1. ~InSummerTime(d.year, n, h)
      <4>1. first = DaysFromCivil(d.year, 3, 1)
        BY <1>7 DEF AreChangeDays
      <4>2. d.day >= 1 /\ d.day \in Int
        BY LengthBounds DEF IsDate
      <4>3. MonthDays(d.month) = 275
        BY <2>8, MonthTable, SMT
      <4>4. n = first + 275 + d.day - 1
        BY <1>1, <2>8, <4>1, <4>3, SinceMarch
      <4>5. n > fall
        BY <1>8, <4>2, <4>4
      <4> QED BY <2>6, <4>5, <1>8
    <3>2. ~InSummerTime(e.year, n + 1, g)
      <4>1. PICK f \in Int, k \in 0..6, l \in 0..6 : AreChangeDays(e.year, f, k, l)
        BY <2>3, ChangeDays
      <4>2. f = DaysFromCivil(e.year, 3, 1) /\ SpringDay(e.year) = f + k + 7
        BY <4>1 DEF AreChangeDays
      <4>3. n + 1 < f
        BY <2>3, <2>8, <4>2, SinceMarch
      <4>4. PICK s \in Int : s = SpringDay(e.year) /\ n + 1 < s
        BY <4>2, <4>3
      <4> QED BY <4>4, SMT DEF InSummerTime
    <3> QED BY <1>3, <1>6, <2>4, <3>1, <3>2, SMT
  <2> QED BY <2>5, <2>7, <2>8
<1>11. r < 1410 \/ r = 1410
  BY <1>2, SMT
<1> QED BY <1>9, <1>10, <1>11

\* Half an hour of New York time: later the same day, or the next midnight, or
\* the hour of a change, long before the market opens.
LEMMA LocalSteps ==
    ASSUME NEW d, IsDate(d), NEW t \in Int, t % HalfHour = 0, t \div Day = NumberOf(d)
    PROVE  /\ LocalDay(t) \in Int /\ LocalMinute(t) \in 0..1410 /\ LocalMinute(t) % 30 = 0
           /\ t = LocalDay(t) * Day + LocalMinute(t) - EasternOffset(t)
           /\ \/ /\ LocalDay(t + HalfHour) = LocalDay(t)
                 /\ LocalMinute(t + HalfHour) = LocalMinute(t) + 30
              \/ /\ LocalDay(t + HalfHour) = LocalDay(t) + 1
                 /\ LocalMinute(t) = 1410 /\ LocalMinute(t + HalfHour) = 0
              \/ /\ LocalDay(t + HalfHour) = LocalDay(t)
                 /\ LocalMinute(t) < 570 /\ LocalMinute(t + HalfHour) < 570
<1>1. PICK n \in Int, r \in Int : n = t \div Day /\ r = t % Day
  BY SMT DEF Day
<1>2. t = 1440 * n + r /\ 0 <= r /\ r < 1440 /\ r % 30 = 0
  BY <1>1, SMT DEF Day, HalfHour
<1>3. PICK o \in {-240, -300}, p \in {-240, -300} : o = EasternOffset(t) /\ p = EasternOffset(t + HalfHour)
  BY SMT DEF EasternOffset
<1>4. \/ p = o
      \/ o = -300 /\ p = -240 /\ r = 390
      \/ o = -240 /\ p = -300 /\ r = 330
  BY <1>1, <1>3, OffsetSteps, SMT
<1>5. LocalDay(t) = (t + o) \div 1440 /\ LocalMinute(t) = (t + o) % 1440
  BY <1>3, SMT DEF LocalDay, LocalMinute, Local, Day
<1>6. /\ LocalDay(t + HalfHour) = (t + 30 + p) \div 1440
      /\ LocalMinute(t + HalfHour) = (t + 30 + p) % 1440
  BY <1>3, SMT DEF LocalDay, LocalMinute, Local, Day, HalfHour
<1>7. PICK D \in Int, M \in Int : D = LocalDay(t) /\ M = LocalMinute(t)
  BY <1>5, SMT
<1>8. t + o = 1440 * D + M /\ 0 <= M /\ M < 1440
  BY <1>5, <1>7, SMT
<1>9. M % 30 = 0 /\ M <= 1410
  BY <1>2, <1>3, <1>8, SMT
<1>10. t = D * Day + M - o
  BY <1>3, <1>8, SMT DEF Day
<1> DEFINE Known == /\ LocalDay(t) \in Int /\ LocalMinute(t) \in 0..1410 /\ LocalMinute(t) % 30 = 0
                    /\ t = LocalDay(t) * Day + LocalMinute(t) - EasternOffset(t)
<1>11. Known
  <2>1. M \in 0..1410
    BY <1>8, <1>9
  <2>2. LocalDay(t) \in Int /\ LocalMinute(t) \in 0..1410 /\ LocalMinute(t) % 30 = 0
    BY <1>7, <1>9, <2>1, SMT
  <2> QED BY <1>3, <1>7, <1>10, <2>2
<1> HIDE DEF Known
<1> DEFINE Stepped == \/ /\ LocalDay(t + HalfHour) = LocalDay(t)
                         /\ LocalMinute(t + HalfHour) = LocalMinute(t) + 30
                      \/ /\ LocalDay(t + HalfHour) = LocalDay(t) + 1
                         /\ LocalMinute(t) = 1410 /\ LocalMinute(t + HalfHour) = 0
                      \/ /\ LocalDay(t + HalfHour) = LocalDay(t)
                         /\ LocalMinute(t) < 570 /\ LocalMinute(t + HalfHour) < 570
<1>12. ASSUME p = o PROVE Stepped
  <2>1. t + 30 + p = 1440 * D + (M + 30)
    BY <1>3, <1>8, <1>12
  <2>2. CASE M < 1410
    <3>1. (t + 30 + p) \div 1440 = D /\ (t + 30 + p) % 1440 = M + 30
      BY <1>8, <2>1, <2>2, SMT
    <3> QED BY <1>6, <1>7, <3>1, SMT
  <2>3. CASE M = 1410
    <3>1. (t + 30 + p) \div 1440 = D + 1 /\ (t + 30 + p) % 1440 = 0
      BY <1>8, <2>1, <2>3, SMT
    <3> QED BY <1>6, <1>7, <2>3, <3>1, SMT
  <2> QED BY <1>9, <2>2, <2>3
<1>13. ASSUME p # o PROVE Stepped
  <2>1. /\ t + o = 1440 * n + 90
        /\ t + 30 + p = 1440 * n + 180 \/ t + 30 + p = 1440 * n + 60
    BY <1>2, <1>4, <1>13
  <2>2. D = n /\ M = 90
    BY <1>8, <2>1, SMT
  <2>3. (t + 30 + p) \div 1440 = D /\ (t + 30 + p) % 1440 < 570
    BY <2>1, <2>2, SMT
  <2> QED BY <1>6, <1>7, <2>2, <2>3, SMT
<1> QED BY <1>12, <1>13, <1>11, Zenon DEF Known

-----------------------------------------------------------------------------
(* The days that trade.                                                    *)

\* The keys of the days the SDK's table closes.
ClosedKeys == {2311, 2842, 3097, 257, 274, 527, 794, 1311, 1554, 1797}

\* The table closes those days, and two others at one o'clock.
LEMMA SdkCloses ==
    ASSUME NEW key
    PROVE  /\ CloseOf(SdkTable, key) \in {0, 780, CloseMinute}
           /\ CloseOf(SdkTable, key) = 0 => key \in ClosedKeys
<1>1. \A i \in 1..12 : /\ SdkTable[i].kind = "early" => SdkTable[i].close = 780
                       /\ SdkTable[i].kind # "early" => SdkTable[i].key \in ClosedKeys
  <2> DEFINE Entry(i) == /\ SdkTable[i].kind = "early" => SdkTable[i].close = 780
                         /\ SdkTable[i].kind # "early" => SdkTable[i].key \in ClosedKeys
  <2>1. Entry(1)
    BY SMT DEF SdkTable, Closed, Early, SdkKey, ClosedKeys
  <2>2. Entry(2)
    BY SMT DEF SdkTable, Closed, Early, SdkKey, ClosedKeys
  <2>3. Entry(3)
    BY SMT DEF SdkTable, Closed, Early, SdkKey, ClosedKeys
  <2>4. Entry(4)
    BY SMT DEF SdkTable, Closed, Early, SdkKey, ClosedKeys
  <2>5. Entry(5)
    BY SMT DEF SdkTable, Closed, Early, SdkKey, ClosedKeys
  <2>6. Entry(6)
    BY SMT DEF SdkTable, Closed, Early, SdkKey, ClosedKeys
  <2>7. Entry(7)
    BY SMT DEF SdkTable, Closed, Early, SdkKey, ClosedKeys
  <2>8. Entry(8)
    BY SMT DEF SdkTable, Closed, Early, SdkKey, ClosedKeys
  <2>9. Entry(9)
    BY SMT DEF SdkTable, Closed, Early, SdkKey, ClosedKeys
  <2>10. Entry(10)
    BY SMT DEF SdkTable, Closed, Early, SdkKey, ClosedKeys
  <2>11. Entry(11)
    BY SMT DEF SdkTable, Closed, Early, SdkKey, ClosedKeys
  <2>12. Entry(12)
    BY SMT DEF SdkTable, Closed, Early, SdkKey, ClosedKeys
  <2>13. \A i \in 1..12 : i \in {1, 2, 3, 4, 5, 6, 7, 8, 9, 10, 11, 12}
    BY SMT
  <2> HIDE DEF Entry
  <2>14. \A i \in 1..12 : Entry(i)
    BY <2>1, <2>2, <2>3, <2>4, <2>5, <2>6, <2>7, <2>8, <2>9, <2>10, <2>11, <2>12, <2>13, SMT
  <2> QED BY <2>14, Zenon DEF Entry
<1>2. PICK hits : hits = Hits(SdkTable, key)
  OBVIOUS
<1>3. CASE hits = {}
  <2>1. CloseOf(SdkTable, key) = CloseMinute
    BY <1>2, <1>3, Zenon DEF CloseOf, Hits
  <2> QED BY <2>1, SMT DEF CloseMinute
<1>4. CASE hits # {}
  <2>1. DOMAIN SdkTable = 1..12
    BY SMT DEF SdkTable
  <2>2. hits \in SUBSET (1..12)
    BY <1>2, <2>1, Zenon DEF Hits
  <2>3. PICK i \in 1..12 : i = Min(hits) /\ i \in hits
    <3>1. Min(hits) \in hits
      BY <1>4, <2>2, MinIn, Zenon
    <3> QED BY <2>2, <3>1, Zenon
  <2>4. SdkTable[i].key = key
    BY <1>2, <2>3, Zenon DEF Hits
  <2>5. CloseOf(SdkTable, key) = IF SdkTable[i].kind = "early" THEN SdkTable[i].close ELSE 0
    BY <1>2, <1>4, <2>3, Zenon DEF CloseOf, Hits
  <2> QED BY <1>1, <2>3, <2>4, <2>5, SMT
<1> QED BY <1>3, <1>4

\* A day with a session in the SDK's table.
Trades(day) == Bounds(SdkTable, "sdk", day).close > OpenMinute

\* A day's bounds, from its date.
LEMMA DayBounds ==
    ASSUME NEW c, IsDate(c), NEW n, n = NumberOf(c)
    PROVE  /\ Bounds(SdkTable, "sdk", n).open = OpenMinute
           /\ Bounds(SdkTable, "sdk", n).close \in {0, 780, CloseMinute}
           /\ Trades(n) => WeekdayOfDay(n) \notin {0, 6}
           /\ WeekdayOfDay(n) \notin {0, 6} /\ ~Trades(n)
                => SdkKey(c.year, c.month, c.day) \in ClosedKeys
<1>1. CivilFromDays(n) = c
  BY CivilInverse, Zenon
<1>2. PICK key : key = KeyOf("sdk", c) /\ key = SdkKey(c.year, c.month, c.day)
  BY SMT DEF KeyOf
<1>3. Bounds(SdkTable, "sdk", n) =
        [open |-> OpenMinute,
         close |-> IF WeekdayOfDay(n) \in {0, 6} THEN 0 ELSE CloseOf(SdkTable, key)]
  BY <1>1, <1>2, Zenon DEF Bounds
<1>4. PICK close : /\ close = CloseOf(SdkTable, key) /\ close \in {0, 780, CloseMinute}
                   /\ close = 0 => key \in ClosedKeys
  BY SdkCloses
<1>5. /\ Bounds(SdkTable, "sdk", n).open = OpenMinute
      /\ Bounds(SdkTable, "sdk", n).close = IF WeekdayOfDay(n) \in {0, 6} THEN 0 ELSE close
  BY <1>3, <1>4
<1> QED BY <1>2, <1>4, <1>5, SMT DEF Trades, OpenMinute, CloseMinute

\* Of two weekdays in a row one trades.
LEMMA PairTrades ==
    ASSUME NEW c, IsDate(c), NEW n, n = NumberOf(c),
           WeekdayOfDay(n) \notin {0, 6}, WeekdayOfDay(n + 1) \notin {0, 6}
    PROVE  Trades(n) \/ Trades(n + 1)
<1>1. SUFFICES ASSUME ~Trades(n), ~Trades(n + 1)
               PROVE  FALSE
  OBVIOUS
<1>2. PICK e : e = NextDate(c)
  OBVIOUS
<1>3. IsDate(e) /\ NumberOf(e) = n + 1
  BY <1>2, NextDateCounts
<1>4. SdkKey(c.year, c.month, c.day) \in ClosedKeys
  BY <1>1, DayBounds
<1>5. SdkKey(e.year, e.month, e.day) \in ClosedKeys
  BY <1>1, <1>3, DayBounds
<1>6. PICK m \in 1..12, k \in 1..31 : m = c.month /\ k = c.day /\ k <= MonthLength(c.year, c.month)
                                      /\ MonthLength(c.year, c.month) \in 28..31
  <2>1. c.year \in Int /\ c.month \in 1..12 /\ c.day \in 1..MonthLength(c.year, c.month)
    BY DEF IsDate
  <2>2. MonthLength(c.year, c.month) \in 28..31
    BY <2>1, LengthBounds
  <2> QED BY <2>1, <2>2
<1>7. \/ e.month = m /\ e.day = k + 1
      \/ e.month = m + 1 /\ e.day = 1
      \/ e.month = 1 /\ e.day = 1 /\ m = 12 /\ k = 31
  <2>1. CASE k < MonthLength(c.year, c.month)
    <3>1. c.day < MonthLength(c.year, c.month)
      BY <1>6, <2>1
    <3>2. e = [year |-> c.year, month |-> c.month, day |-> c.day + 1]
      BY <1>2, <3>1, NextDateIs, Zenon
    <3> QED BY <1>6, <3>2
  <2>2. CASE k = MonthLength(c.year, c.month) /\ m < 12
    <3>1. c.day = MonthLength(c.year, c.month) /\ c.month < 12
      BY <1>6, <2>2
    <3>2. e = [year |-> c.year, month |-> c.month + 1, day |-> 1]
      BY <1>2, <3>1, NextDateIs, Zenon
    <3> QED BY <1>6, <3>2
  <2>3. CASE k = MonthLength(c.year, c.month) /\ m = 12
    <3>1. c.day = MonthLength(c.year, c.month) /\ c.month = 12
      BY <1>6, <2>3
    <3>2. e = [year |-> c.year + 1, month |-> 1, day |-> 1]
      BY <1>2, <3>1, NextDateIs, Zenon
    <3>3. MonthLength(c.year, 12) = 31
      BY LengthTable DEF IsDate
    <3> QED BY <1>6, <2>3, <3>1, <3>2, <3>3
  <2> QED BY <1>6, <2>1, <2>2, <2>3
<1>8. m * 256 + k \in ClosedKeys
  BY <1>4, <1>6, SMT DEF SdkKey
<1>9. CASE e.month = m /\ e.day = k + 1
  BY <1>5, <1>8, <1>9, SMT DEF SdkKey, ClosedKeys
<1>10. CASE e.month = m + 1 /\ e.day = 1
  BY <1>5, <1>8, <1>10, SMT DEF SdkKey, ClosedKeys
<1>11. CASE m = 12 /\ k = 31
  BY <1>8, <1>11, SMT DEF ClosedKeys
<1> QED BY <1>7, <1>9, <1>10, <1>11

\* Of the five days after any other one trades.
LEMMA TradesSoon ==
    ASSUME NEW c, IsDate(c), NEW n \in Int, n = NumberOf(c)
    PROVE  \E x \in n + 1 .. n + 5 : Trades(x)
<1>1. PICK c1 : c1 = NextDate(c)
  OBVIOUS
<1>2. IsDate(c1) /\ NumberOf(c1) = n + 1
  BY <1>1, NextDateCounts
<1>3. PICK c2 : c2 = NextDate(c1)
  OBVIOUS
<1>4. IsDate(c2) /\ NumberOf(c2) = n + 2
  BY <1>2, <1>3, NextDateCounts
<1>5. PICK c3 : c3 = NextDate(c2)
  OBVIOUS
<1>6. IsDate(c3) /\ NumberOf(c3) = n + 3
  BY <1>4, <1>5, NextDateCounts
<1>7. PICK c4 : c4 = NextDate(c3)
  OBVIOUS
<1>8. IsDate(c4) /\ NumberOf(c4) = n + 4
  BY <1>6, <1>7, NextDateCounts
<1>9. PICK n1 \in Int, n2 \in Int, n3 \in Int, n4 \in Int, n5 \in Int :
         n1 = n + 1 /\ n2 = n + 2 /\ n3 = n + 3 /\ n4 = n + 4 /\ n5 = n + 5
  OBVIOUS
<1> DEFINE Week(x) == WeekdayOfDay(x) \notin {0, 6}
<1>10. \/ Week(n1) /\ Week(n2)
       \/ Week(n2) /\ Week(n3)
       \/ Week(n3) /\ Week(n4)
       \/ Week(n4) /\ Week(n5)
  BY <1>9, SMT DEF WeekdayOfDay
<1>11. Week(n1) /\ Week(n2) => Trades(n1) \/ Trades(n2)
  <2>1. n2 = n1 + 1 /\ n1 = NumberOf(c1)
    BY <1>2, <1>9
  <2> QED BY <1>2, <2>1, PairTrades
<1>12. Week(n2) /\ Week(n3) => Trades(n2) \/ Trades(n3)
  <2>1. n3 = n2 + 1 /\ n2 = NumberOf(c2)
    BY <1>4, <1>9
  <2> QED BY <1>4, <2>1, PairTrades
<1>13. Week(n3) /\ Week(n4) => Trades(n3) \/ Trades(n4)
  <2>1. n4 = n3 + 1 /\ n3 = NumberOf(c3)
    BY <1>6, <1>9
  <2> QED BY <1>6, <2>1, PairTrades
<1>14. Week(n4) /\ Week(n5) => Trades(n4) \/ Trades(n5)
  <2>1. n5 = n4 + 1 /\ n4 = NumberOf(c4)
    BY <1>8, <1>9
  <2> QED BY <1>8, <2>1, PairTrades
<1>15. /\ n1 \in n + 1 .. n + 5 /\ n2 \in n + 1 .. n + 5 /\ n3 \in n + 1 .. n + 5
       /\ n4 \in n + 1 .. n + 5 /\ n5 \in n + 1 .. n + 5
  BY <1>9
<1> HIDE DEF Week
<1> QED BY <1>10, <1>11, <1>12, <1>13, <1>14, <1>15, Zenon

-----------------------------------------------------------------------------
(* The scan.                                                               *)

\* The date of New York is a date.
LEMMA LocalDateExists ==
    ASSUME NEW d, IsDate(d), NEW t \in Int, t \div Day = NumberOf(d)
    PROVE  \E c : IsDate(c) /\ NumberOf(c) = LocalDay(t)
<1>1. PICK n \in Int : n = t \div Day
  BY SMT DEF Day
<1>2. PICK o \in {-240, -300} : o = EasternOffset(t)
  BY SMT DEF EasternOffset
<1>3. LocalDay(t) = (t + o) \div 1440 /\ n = t \div 1440
  BY <1>1, <1>2, SMT DEF LocalDay, Local, Day
<1>4. LocalDay(t) = n \/ LocalDay(t) = n - 1
  BY <1>2, <1>3, SMT
<1>5. PICK c : IsDate(c) /\ NumberOf(c) = NumberOf(d) - 1
  BY DayBefore, Zenon
<1> QED BY <1>1, <1>4, <1>5, Zenon

\* A set of integers with a floor and a member close to it has a smallest one.
LEMMA MinNear ==
    ASSUME NEW S \in SUBSET Int, NEW n \in Int, \A x \in S : x > n,
           NEW y \in S, y \in n + 1 .. n + 5
    PROVE  \E m \in S : m \in n + 1 .. n + 5 /\ \A x \in S : m <= x
<1>1. SUFFICES ASSUME \A m \in S : m <= n + 5 => \E x \in S : x < m
               PROVE  FALSE
  BY SMT
<1>2. n + 1 \notin S
  BY <1>1, SMT
<1>3. n + 2 \notin S
  BY <1>1, <1>2, SMT
<1>4. n + 3 \notin S
  BY <1>1, <1>2, <1>3, SMT
<1>5. n + 4 \notin S
  BY <1>1, <1>2, <1>3, <1>4, SMT
<1>6. n + 5 \notin S
  BY <1>1, <1>2, <1>3, <1>4, <1>5, SMT
<1>7. y = n + 1 \/ y = n + 2 \/ y = n + 3 \/ y = n + 4 \/ y = n + 5
  BY SMT
<1> QED BY <1>2, <1>3, <1>4, <1>5, <1>6, <1>7, Zenon

LEMMA MinIs ==
    ASSUME NEW S \in SUBSET Int, NEW m \in S, \A x \in S : m <= x
    PROVE  Min(S) = m
<1>1. \A k \in S : (\A x \in S : k <= x) => k = m
  BY SMT
<1>2. Min(S) \in S /\ \A x \in S : Min(S) <= x
  BY Zenon DEF Min
<1> QED BY <1>1, <1>2, Zenon

\* What nextOpen scans.
Opens(t, day) == Trades(day) /\ (day = LocalDay(t) => LocalMinute(t) < OpenMinute)

OpenDays(t) == {day \in LocalDay(t) .. LocalDay(t) + ScanDays : Opens(t, day)}

ScanFrom(t, days, opening) ==
    CASE IsOpen(SdkTable, "sdk", t) -> t
      [] ~IsOpen(SdkTable, "sdk", t) /\ days = {} -> Never
      [] OTHER -> opening

Scan(t, days) == ScanFrom(t, days, Opening(Min(days)))

LEMMA NextOpenIs ==
    ASSUME NEW t
    PROVE  NextOpen(SdkTable, "sdk", t) =
             IF IsOpen(SdkTable, "sdk", t) THEN t
             ELSE IF OpenDays(t) = {} THEN Never ELSE Opening(Min(OpenDays(t)))
<1>1. NextOpen(SdkTable, "sdk", t) =
        Scan(t, {day \in LocalDay(t) .. LocalDay(t) + ScanDays :
                    /\ Bounds(SdkTable, "sdk", day).close > OpenMinute
                    /\ day = LocalDay(t) => LocalMinute(t) < OpenMinute})
  BY Zenon DEF NextOpen, Scan, ScanFrom
<1>2. NextOpen(SdkTable, "sdk", t) = Scan(t, OpenDays(t))
  BY <1>1, Zenon DEF OpenDays, Opens, Trades
<1>3. PICK days : days = OpenDays(t)
  OBVIOUS
<1>4. PICK opening : opening = Opening(Min(days))
  OBVIOUS
<1>5. ScanFrom(t, days, opening) = IF IsOpen(SdkTable, "sdk", t) THEN t
                                   ELSE IF days = {} THEN Never ELSE opening
  <2>1. CASE IsOpen(SdkTable, "sdk", t)
    BY <2>1, Zenon DEF ScanFrom
  <2>2. CASE ~IsOpen(SdkTable, "sdk", t) /\ days = {}
    BY <2>2, Zenon DEF ScanFrom
  <2>3. CASE ~IsOpen(SdkTable, "sdk", t) /\ days # {}
    BY <2>3, Zenon DEF ScanFrom
  <2> QED BY <2>1, <2>2, <2>3, Zenon
<1> QED BY <1>2, <1>3, <1>4, <1>5, Zenon DEF Scan

\* An instant is in the session between a local day's bounds.
LEMMA OpenIs ==
    ASSUME NEW t, NEW c, IsDate(c), LocalDay(t) = NumberOf(c), LocalMinute(t) \in Int
    PROVE  /\ IsOpen(SdkTable, "sdk", t) => Trades(LocalDay(t)) /\ LocalMinute(t) >= 570
           /\ Trades(LocalDay(t)) /\ LocalMinute(t) = 570 => IsOpen(SdkTable, "sdk", t)
           /\ \A u : LocalDay(u) = LocalDay(t) /\ LocalMinute(u) \in Int =>
                (570 <= LocalMinute(t) /\ LocalMinute(t) <= LocalMinute(u)
                 /\ IsOpen(SdkTable, "sdk", u) => IsOpen(SdkTable, "sdk", t))
<1>1. PICK close \in {0, 780, 960} :
         /\ close = Bounds(SdkTable, "sdk", LocalDay(t)).close
         /\ Bounds(SdkTable, "sdk", LocalDay(t)).open = 570
  BY DayBounds, SMT DEF OpenMinute, CloseMinute
<1>2. IsOpen(SdkTable, "sdk", t) <=> 570 <= LocalMinute(t) /\ LocalMinute(t) < close
  BY <1>1, SMT DEF IsOpen
<1>3. \A u : LocalDay(u) = LocalDay(t) =>
        (IsOpen(SdkTable, "sdk", u) <=> 570 <= LocalMinute(u) /\ LocalMinute(u) < close)
  BY <1>1, SMT DEF IsOpen
<1>4. Trades(LocalDay(t)) <=> close > 570
  BY <1>1, SMT DEF Trades, OpenMinute
<1>5. \A u : LocalDay(u) = LocalDay(t) /\ LocalMinute(u) \in Int =>
        (570 <= LocalMinute(t) /\ LocalMinute(t) <= LocalMinute(u)
         /\ IsOpen(SdkTable, "sdk", u) => IsOpen(SdkTable, "sdk", t))
  BY <1>2, <1>3, SMT
<1>6. /\ IsOpen(SdkTable, "sdk", t) => Trades(LocalDay(t)) /\ LocalMinute(t) >= 570
      /\ Trades(LocalDay(t)) /\ LocalMinute(t) = 570 => IsOpen(SdkTable, "sdk", t)
  BY <1>2, <1>4, SMT
<1> QED BY <1>5, <1>6, Zenon

\* An hour and a half hour with the same scan have the same next opening.
LEMMA SameScan ==
    ASSUME NEW t, NEW u,
           ~IsOpen(SdkTable, "sdk", t), ~IsOpen(SdkTable, "sdk", u),
           OpenDays(t) = {} <=> OpenDays(u) = {}, Min(OpenDays(t)) = Min(OpenDays(u))
    PROVE  NextOpen(SdkTable, "sdk", t) = NextOpen(SdkTable, "sdk", u)
<1>1. PICK T, U, m : T = OpenDays(t) /\ U = OpenDays(u) /\ m = Min(T) /\ m = Min(U)
  BY Zenon
<1>2. NextOpen(SdkTable, "sdk", t) = IF T = {} THEN Never ELSE Opening(m)
  BY <1>1, NextOpenIs, Zenon
<1>3. NextOpen(SdkTable, "sdk", u) = IF U = {} THEN Never ELSE Opening(m)
  BY <1>1, NextOpenIs, Zenon
<1>4. T = {} <=> U = {}
  BY <1>1, Zenon
<1>5. CASE T = {}
  BY <1>2, <1>3, <1>4, <1>5, Zenon
<1>6. CASE T # {}
  BY <1>2, <1>3, <1>4, <1>6, Zenon
<1> QED BY <1>5, <1>6

\* On one local day the scan changes when the market would open.
LEMMA SameDayScan ==
    ASSUME NEW t, NEW u, LocalDay(t) = LocalDay(u),
           Trades(LocalDay(t)) =>
               (LocalMinute(t) < OpenMinute <=> LocalMinute(u) < OpenMinute)
    PROVE  OpenDays(t) = OpenDays(u)
<1>1. PICK D : D = LocalDay(t) /\ D = LocalDay(u)
  OBVIOUS
<1>2. \A day : Opens(t, day) <=> Opens(u, day)
  BY <1>1, Zenon DEF Opens
<1> QED BY <1>1, <1>2, Zenon DEF OpenDays

\* The market opens half an hour after nine on a day that trades.
LEMMA OpeningIs ==
    ASSUME NEW t \in Int, NEW c, IsDate(c), LocalDay(t) = NumberOf(c),
           LocalMinute(t) \in Int,
           t = LocalDay(t) * Day + LocalMinute(t) - EasternOffset(t),
           LocalMinute(t) = OpenMinute, Trades(LocalDay(t))
    PROVE  Opening(LocalDay(t)) = t
<1>1. PICK n \in Int : n = LocalDay(t)
  BY NumberInt
<1>2. PICK o \in {-240, -300} : o = EasternOffset(t)
  BY SMT DEF EasternOffset
<1>3. t = 1440 * n + 570 - o
  BY <1>1, <1>2, SMT DEF Day, OpenMinute
<1>4. t \div Day = n
  BY <1>2, <1>3, SMT DEF Day
<1>5. PICK v \in Int : v = n * Day + OpenMinute + 300
  BY SMT DEF Day, OpenMinute
<1>6. v \div Day = n
  BY <1>5, SMT DEF Day, OpenMinute
<1>7. WeekdayOfDay(NumberOf(c)) # 0
  <2>1. n = NumberOf(c)
    BY <1>1
  <2>2. WeekdayOfDay(n) \notin {0, 6}
    BY <1>1, <2>1, DayBounds
  <2> QED BY <2>1, <2>2
<1>8. EasternOffset(v) = o
  BY <1>1, <1>2, <1>4, <1>6, <1>7, OffsetOfWeekday, Zenon
<1>9. Opening(n) = n * Day + OpenMinute - EasternOffset(v)
  BY <1>5, Zenon DEF Opening
<1> QED BY <1>1, <1>2, <1>3, <1>8, <1>9, SMT DEF Day, OpenMinute

\* From midnight on the scan reaches a day further, and a day that trades was
\* in reach before.
LEMMA NextDayScan ==
    ASSUME NEW t, NEW u, NEW c, IsDate(c), NEW n \in Int, n = NumberOf(c),
           LocalDay(t) = n, LocalMinute(t) = 1410,
           LocalDay(u) = n + 1, LocalMinute(u) = 0
    PROVE  OpenDays(t) # {} /\ OpenDays(u) # {} /\ Min(OpenDays(t)) = Min(OpenDays(u))
<1>1. PICK y \in n + 1 .. n + 5 : Trades(y)
  BY TradesSoon
<1>2. PICK s \in Int : s = ScanDays /\ s >= 5
  BY ScanAssumption
<1>3. PICK T, U : T = OpenDays(t) /\ U = OpenDays(u)
  OBVIOUS
<1>4. \A x : x \in T <=> x \in n + 1 .. n + s /\ Trades(x)
  BY <1>2, <1>3, SMT DEF OpenDays, Opens, OpenMinute
<1>5. \A x : x \in U <=> x \in n + 1 .. n + 1 + s /\ Trades(x)
  BY <1>2, <1>3, SMT DEF OpenDays, Opens, OpenMinute
<1>6. T \in SUBSET Int /\ \A x \in T : x > n
  BY <1>2, <1>4, SMT
<1>7. y \in T /\ y \in Int
  BY <1>1, <1>2, <1>4, SMT
<1>8. PICK m \in T : m \in n + 1 .. n + 5 /\ \A x \in T : m <= x
  BY <1>1, <1>6, <1>7, MinNear
<1>9. U \in SUBSET Int /\ m \in U
  BY <1>2, <1>4, <1>5, <1>8, SMT
<1>10. \A x \in U : m <= x
  BY <1>2, <1>4, <1>5, <1>8, SMT
<1>11. Min(T) = m
  BY <1>6, <1>8, MinIs
<1>12. Min(U) = m
  BY <1>9, <1>10, MinIs
<1>13. T # {} /\ U # {}
  BY <1>8, <1>9
<1> QED BY <1>3, <1>11, <1>12, <1>13

\* The SDK's nextOpen names the next instant at which the session it is asked
\* about is open, in both offsets and over the weekends and holidays of its
\* table: a half hour before, it is the same instant.  (calendar.ts nextOpen.)
THEOREM NextOpenIsNext == Spec => []NextOpenIsTheNext
<1>1. ASSUME Walk PROVE NextOpenIsTheNext
  <2>1. ts \in Int /\ ts % HalfHour = 0 /\ IsDate(date) /\ NumberOf(date) = ts \div Day
    BY <1>1 DEF Walk
  <2>2. PICK t \in Int, u \in Int : t = ts /\ u = t + HalfHour
    BY <2>1, SMT DEF HalfHour
  <2>3. SUFFICES ASSUME ~IsOpen(SdkTable, "sdk", t)
                 PROVE  NextOpen(SdkTable, "sdk", t) = NextOpen(SdkTable, "sdk", u)
    BY <2>2, NextOpenIs, Zenon DEF NextOpenIsTheNext
  <2>4. /\ LocalDay(t) \in Int /\ LocalMinute(t) \in 0..1410 /\ LocalMinute(t) % 30 = 0
        /\ \/ /\ LocalDay(u) = LocalDay(t)
              /\ LocalMinute(u) = LocalMinute(t) + 30
           \/ /\ LocalDay(u) = LocalDay(t) + 1
              /\ LocalMinute(t) = 1410 /\ LocalMinute(u) = 0
           \/ /\ LocalDay(u) = LocalDay(t)
              /\ LocalMinute(t) < 570 /\ LocalMinute(u) < 570
    BY <2>1, <2>2, LocalSteps
  <2>5. /\ LocalMinute(u) \in Int /\ LocalDay(u) \in Int
        /\ u = LocalDay(u) * Day + LocalMinute(u) - EasternOffset(u)
    <3>1. EasternOffset(u) \in {-240, -300}
      BY SMT DEF EasternOffset
    <3> QED BY <3>1, SMT DEF LocalDay, LocalMinute, Local, Day
  <2>6. PICK c : IsDate(c) /\ NumberOf(c) = LocalDay(t)
    BY <2>1, <2>2, LocalDateExists
  <2>7. PICK n \in Int, m \in 0..1410 : n = LocalDay(t) /\ m = LocalMinute(t) /\ m % 30 = 0
    BY <2>4
  <2>8. CASE LocalDay(u) = LocalDay(t) + 1 /\ LocalMinute(t) = 1410 /\ LocalMinute(u) = 0
    <3>1. ~IsOpen(SdkTable, "sdk", u)
      <4>1. PICK e : e = NextDate(c)
        OBVIOUS
      <4>2. IsDate(e) /\ LocalDay(u) = NumberOf(e)
        BY <2>6, <2>8, <4>1, NextDateCounts
      <4> QED BY <2>5, <2>8, <4>2, OpenIs
    <3>2. OpenDays(t) # {} /\ OpenDays(u) # {} /\ Min(OpenDays(t)) = Min(OpenDays(u))
      <4>1. n = NumberOf(c) /\ LocalDay(t) = n /\ LocalDay(u) = n + 1
        BY <2>6, <2>7, <2>8, Zenon
      <4> QED BY <2>6, <2>8, <4>1, NextDayScan
    <3> QED BY <2>3, <3>1, <3>2, SameScan, Zenon
  <2>9. ASSUME LocalDay(u) = LocalDay(t), ~IsOpen(SdkTable, "sdk", u),
               Trades(LocalDay(t)) => (LocalMinute(t) < OpenMinute <=> LocalMinute(u) < OpenMinute)
        PROVE  NextOpen(SdkTable, "sdk", t) = NextOpen(SdkTable, "sdk", u)
    <3>1. OpenDays(t) = OpenDays(u)
      BY <2>9, SameDayScan
    <3> QED BY <2>3, <2>9, <3>1, SameScan, Zenon
  <2>10. CASE /\ LocalDay(u) = LocalDay(t)
              /\ LocalMinute(t) < 570 /\ LocalMinute(u) < 570
    <3>1. ~IsOpen(SdkTable, "sdk", u)
      BY <2>5, <2>6, <2>10, OpenIs
    <3> QED BY <2>4, <2>9, <2>10, <3>1, SMT DEF OpenMinute
  <2>11. CASE /\ LocalDay(u) = LocalDay(t) /\ LocalMinute(u) = LocalMinute(t) + 30
              /\ LocalMinute(t) >= 570
    <3>1. ~IsOpen(SdkTable, "sdk", u)
      BY <2>3, <2>4, <2>5, <2>6, <2>11, OpenIs
    <3> QED BY <2>4, <2>9, <2>11, <3>1, SMT DEF OpenMinute
  <2>12. CASE /\ LocalDay(u) = LocalDay(t) /\ LocalMinute(u) = LocalMinute(t) + 30
              /\ LocalMinute(t) = 540
    <3>1. LocalMinute(u) = OpenMinute
      BY <2>12, SMT DEF OpenMinute
    <3>2. CASE Trades(LocalDay(t))
      <4>1. IsOpen(SdkTable, "sdk", u)
        BY <2>5, <2>6, <2>12, <3>2, OpenIs
      <4>2. NextOpen(SdkTable, "sdk", u) = u
        BY <4>1, NextOpenIs, Zenon
      <4>3. Opening(n) = u
        <5>1. Opening(LocalDay(u)) = u
          BY <2>5, <2>6, <2>12, <3>1, <3>2, OpeningIs
        <5> QED BY <2>7, <2>12, <5>1
      <4>4. PICK T : T = OpenDays(t)
        OBVIOUS
      <4>5. \A x : x \in T <=> /\ x \in n .. n + ScanDays /\ Trades(x)
                               /\ x = n => m < OpenMinute
        BY <2>7, <4>4, Zenon DEF OpenDays, Opens
      <4>6. T \in SUBSET Int /\ n \in T /\ \A x \in T : n <= x
        BY <2>7, <2>12, <3>2, <4>5, ScanAssumption, SMT DEF OpenMinute
      <4>7. Min(T) = n
        BY <4>6, MinIs
      <4> QED BY <2>3, <4>2, <4>3, <4>4, <4>6, <4>7, NextOpenIs, Zenon
    <3>3. CASE ~Trades(LocalDay(t))
      <4>1. ~IsOpen(SdkTable, "sdk", u)
        BY <2>5, <2>6, <2>12, <3>3, OpenIs
      <4> QED BY <2>9, <2>12, <3>3, <4>1
    <3> QED BY <3>2, <3>3
  <2>13. m < 540 \/ m = 540 \/ m >= 570
    BY <2>7, SMT
  <2>14. CASE LocalDay(u) = LocalDay(t) /\ LocalMinute(u) = LocalMinute(t) + 30
    <3>1. CASE m < 540
      <4>1. LocalMinute(t) < 570 /\ LocalMinute(u) < 570
        <5>1. LocalMinute(t) = m /\ LocalMinute(u) = m + 30 /\ m \in Int
          BY <2>7, <2>14
        <5> QED BY <3>1, <5>1, SMT
      <4> QED BY <2>10, <2>14, <4>1
    <3>2. CASE m = 540
      BY <2>7, <2>12, <2>14, <3>2
    <3>3. CASE m >= 570
      BY <2>7, <2>11, <2>14, <3>3
    <3> QED BY <2>13, <3>1, <3>2, <3>3
  <2> QED BY <2>4, <2>8, <2>10, <2>14
<1> QED BY <1>1, WalkInvariant, PTL

=============================================================================
