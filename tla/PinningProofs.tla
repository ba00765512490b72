--------------------------- MODULE PinningProofs ----------------------------
(***************************************************************************)
(* Proofs about Pinning, for any configs, hosts, chains, pins and start:   *)
(* the check of a config, the lapse of its pins, what a handshake accepts, *)
(* and what a caller is told of one that is refused.  The greatest part is *)
(* arithmetic: the code's days from the civil date are what a calendar     *)
(* counts, so that an entry lapses at the midnight of its date.            *)
(***************************************************************************)
EXTENDS Pinning, SumsProofs

-----------------------------------------------------------------------------
(* The config and its entries.                                             *)

\* The lengths of the months by the code's cases and by the calendar's table.
LEMMA MonthsAgree ==
    ASSUME NEW y \in Int, NEW m \in 1 .. 12
    PROVE  DaysInMonth(y, m) = LastDay(y, m)
<1>1. IsLeapYear(y) <=> Leap(y)
  BY DEF IsLeapYear, Leap
<1>2. CASE m = 2
  BY <1>1, <1>2 DEF DaysInMonth, LastDay, MonthLengths
<1>3. CASE m \in {1, 3, 5, 7, 8, 10, 12}
  BY <1>3 DEF DaysInMonth, LastDay, MonthLengths
<1>4. CASE m \in {4, 6, 9, 11}
  BY <1>4 DEF DaysInMonth, LastDay, MonthLengths
<1> QED
  BY <1>2, <1>3, <1>4

\* An entry is decoded exactly when nothing is wrong with it.
LEMMA DecodesUnlessFlawed ==
    ASSUME NEW c \in Configs, NEW i \in DOMAIN c
    PROVE  Decodes(c[i]) <=> ~Flawed(c[i])
<1> DEFINE e == c[i]
           t == e.expiration
<1>1. (\A k \in DOMAIN e.pins : e.pins[k] # Bad) <=> Bad \notin ToSet(e.pins)
  BY DEF ToSet
<1>2. CASE t = Never
  BY <1>1, <1>2 DEF Decodes, Flawed
<1>3. CASE t # Never
  <2>1. t.year \in Int /\ t.month \in Int /\ t.day \in Int
    BY <1>3, ConfigAssumption
  <2>2. t.month \in 1 .. 12 => DaysInMonth(t.year, t.month) = LastDay(t.year, t.month)
    BY <2>1, MonthsAgree
  <2>3. t.month \in 1 .. 12 => LastDay(t.year, t.month) \in Int
    BY DEF LastDay, MonthLengths
  <2>4. ParsesDate(t) <=> t.month \in 1 .. 12 /\ t.day \in 1 .. LastDay(t.year, t.month)
    BY <2>1, <2>2, <2>3 DEF ParsesDate
  <2> QED
    BY <1>1, <1>3, <2>4 DEF Decodes, Flawed
<1> QED
  BY <1>2, <1>3

\* The date of an entry that is decoded is one.
LEMMA DecodedDate ==
    ASSUME NEW c \in Configs, NEW i \in DOMAIN c, Decodes(c[i]), c[i].expiration # Never
    PROVE  IsDate(c[i].expiration)
<1> DEFINE t == c[i].expiration
<1>1. t.year \in Int /\ t.month \in Int /\ t.day \in Int
  BY ConfigAssumption
<1>2. t.month \in 1 .. 12 /\ t.day >= 1 /\ t.day <= DaysInMonth(t.year, t.month)
  BY DEF Decodes, ParsesDate
<1>3. DaysInMonth(t.year, t.month) = LastDay(t.year, t.month)
  BY <1>1, <1>2, MonthsAgree
<1>4. LastDay(t.year, t.month) \in Int
  BY <1>2 DEF LastDay, MonthLengths
<1> QED
  BY <1>1, <1>2, <1>3, <1>4 DEF IsDate

-----------------------------------------------------------------------------
(* Dates.                                                                  *)

DaysAt(t) == DaysFromCivil(t.year, t.month, t.day)

\* Days of s years that begin in March.
MarchYears(s) == 365 * s + s \div 4 - s \div 100 + s \div 400

\* A year is as long as the calendar says: the leap day is in the year before March.
LEMMA YearLength ==
    ASSUME NEW y \in Int
    PROVE  /\ MarchYears(y) \in Int
           /\ MarchYears(y) - MarchYears(y - 1) = IF Leap(y) THEN 366 ELSE 365
<1>1. \A a, b \in Int : a \div 4 \in Int /\ a \div 100 \in Int /\ a \div 400 \in Int
  OBVIOUS
<1>2. MarchYears(y) \in Int /\ MarchYears(y - 1) \in Int
  BY <1>1 DEF MarchYears
<1>3. y \div 4 - (y - 1) \div 4 = IF y % 4 = 0 THEN 1 ELSE 0
  OBVIOUS
<1>4. y \div 100 - (y - 1) \div 100 = IF y % 100 = 0 THEN 1 ELSE 0
  OBVIOUS
<1>5. y \div 400 - (y - 1) \div 400 = IF y % 400 = 0 THEN 1 ELSE 0
  OBVIOUS
<1>6. (y % 400 = 0 => y % 100 = 0) /\ (y % 100 = 0 => y % 4 = 0)
  OBVIOUS
<1> QED
  BY <1>2, <1>3, <1>4, <1>5, <1>6 DEF MarchYears, Leap

\* Later years begin later.
LEMMA YearsAscend ==
    ASSUME NEW a \in Int, NEW b \in Int, a <= b
    PROVE  MarchYears(a) <= MarchYears(b)
<1>1. a \div 4 <= b \div 4 /\ a \div 400 <= b \div 400
  OBVIOUS
<1>2. b \div 100 - a \div 100 <= b - a
  OBVIOUS
<1>3. a \div 4 \in Int /\ b \div 4 \in Int /\ a \div 100 \in Int /\ b \div 100 \in Int
      /\ a \div 400 \in Int /\ b \div 400 \in Int
  OBVIOUS
<1> QED
  BY <1>1, <1>2, <1>3 DEF MarchYears

\* The year in which the March before a date is, and the days from it to the month's
\* first.
MarchYear(y, m) == IF m <= 2 THEN y - 1 ELSE y
MarchDays(m) == (153 * (IF m > 2 THEN m - 3 ELSE m + 9) + 2) \div 5

\* The eras of the code only keep its numbers small.
LEMMA CivilYears ==
    ASSUME NEW y \in Int, NEW m \in 1 .. 12, NEW d \in Int
    PROVE  DaysFromCivil(y, m, d)
           = MarchYears(MarchYear(y, m)) + MarchDays(m) + d - 719469
<1> DEFINE s == MarchYear(y, m)
           era == s \div 400
           yoe == s - era * 400
           mdays == MarchDays(m)
<1>1. s \in Int /\ mdays \in Int
  BY DEF MarchYear, MarchDays
<1>2. DaysFromCivil(y, m, d)
      = era * 146097 + yoe * 365 + yoe \div 4 - yoe \div 100 + (mdays + d - 1) - 719468
  BY DEF DaysFromCivil, MarchYear, MarchDays
<1> HIDE DEF s, mdays
<1>3. era \in Int /\ yoe \in 0 .. 399 /\ s = 400 * era + yoe
  BY <1>1
<1> HIDE DEF era, yoe
<1>4. /\ s \div 4 = 100 * era + yoe \div 4 /\ s \div 100 = 4 * era + yoe \div 100
      /\ s \div 400 = era
  BY <1>3
<1>5. yoe \div 4 \in Int /\ yoe \div 100 \in Int
  BY <1>3
<1>6. MarchYears(s) = era * 146097 + yoe * 365 + yoe \div 4 - yoe \div 100
  BY <1>3, <1>4, <1>5 DEF MarchYears
<1>7. DaysFromCivil(y, m, d) = MarchYears(s) + mdays + d - 719469
  BY <1>1, <1>2, <1>3, <1>5, <1>6
<1> QED
  BY <1>7 DEF s, mdays

\* The day before a month begins, in days from the epoch.
MonthBase(y, m) == DaysFromCivil(y, m, 0)

\* Days before month m in a year with a leap day or without.
DaysBefore(m, leap) ==
    <<0, 31, 59 + leap, 90 + leap, 120 + leap, 151 + leap, 181 + leap, 212 + leap,
      243 + leap, 273 + leap, 304 + leap, 334 + leap>>[m]

LeapDays(y) == IF Leap(y) THEN 1 ELSE 0

\* The first of January, in days from the epoch.
NewYear(y) == MarchYears(y - 1) - 719162

\* The length of a month is how far the next one is.
LEMMA MonthLength ==
    ASSUME NEW y \in Int, NEW m \in 1 .. 12
    PROVE  /\ LastDay(y, m) \in 28 .. 31
           /\ DaysBefore(m, LeapDays(y)) \in 0 .. 335
           /\ m < 12 => DaysBefore(m + 1, LeapDays(y)) = DaysBefore(m, LeapDays(y)) + LastDay(y, m)
           /\ m = 12 => DaysBefore(m, LeapDays(y)) + LastDay(y, m) = 365 + LeapDays(y)
           /\ \A k \in 1 .. 12 : m < k =>
                 DaysBefore(k, LeapDays(y)) >= DaysBefore(m, LeapDays(y)) + LastDay(y, m)
<1>1. LeapDays(y) \in {0, 1} /\ (LeapDays(y) = 1 <=> Leap(y))
  BY DEF LeapDays
<1>2. /\ m = 2 => LastDay(y, m) = 28 + LeapDays(y)
      /\ m \in {4, 6, 9, 11} => LastDay(y, m) = 30
      /\ m \in {1, 3, 5, 7, 8, 10, 12} => LastDay(y, m) = 31
  <2>1. CASE m = 2
    BY <1>1, <2>1 DEF LastDay, MonthLengths
  <2>2. CASE m \in {4, 6, 9, 11}
    BY <2>2 DEF LastDay, MonthLengths
  <2>3. CASE m \in {1, 3, 5, 7, 8, 10, 12}
    BY <2>3 DEF LastDay, MonthLengths
  <2> QED
    BY <2>1, <2>2, <2>3
<1> DEFINE l == LeapDays(y)
           L == LastDay(y, m)
<1> HIDE DEF l, L
<1>3. /\ l \in {0, 1} /\ (m = 2 => L = 28 + l) /\ (m \in {4, 6, 9, 11} => L = 30)
      /\ m \in {1, 3, 5, 7, 8, 10, 12} => L = 31
  BY <1>1, <1>2 DEF l, L
<1>4. /\ L \in 28 .. 31 /\ DaysBefore(m, l) \in 0 .. 335
      /\ m = 12 => DaysBefore(m, l) + L = 365 + l
  BY <1>3 DEF DaysBefore
<1>5. m < 12 => DaysBefore(m + 1, l) = DaysBefore(m, l) + L
  BY <1>3 DEF DaysBefore
<1>6. ASSUME NEW k \in 1 .. 12, m < k PROVE DaysBefore(k, l) >= DaysBefore(m, l) + L
  BY <1>3, <1>6 DEF DaysBefore
<1> QED
  BY <1>4, <1>5, <1>6 DEF l, L

\* A year begins when the last one is over.
LEMMA YearBegins ==
    ASSUME NEW y \in Int
    PROVE  /\ NewYear(y) \in Int /\ NewYear(y + 1) \in Int /\ LeapDays(y) \in {0, 1}
           /\ NewYear(y + 1) = NewYear(y) + 365 + LeapDays(y)
<1>1. MarchYears(y) - MarchYears(y - 1) = IF Leap(y) THEN 366 ELSE 365
  BY YearLength
<1>2. MarchYears(y) \in Int /\ MarchYears(y - 1) \in Int
  BY YearLength
<1>3. (y + 1) - 1 = y
  OBVIOUS
<1> QED
  BY <1>1, <1>2, <1>3 DEF NewYear, LeapDays

AddsUp(y, m, d) == DaysFromCivil(y, m, d) = NewYear(y) + DaysBefore(m, LeapDays(y)) + d - 1

\* The code's count of a date adds up the years, the months and the days.
LEMMA CivilDays ==
    ASSUME NEW y \in Int, NEW m \in 1 .. 12, NEW d \in Int
    PROVE  AddsUp(y, m, d)
<1>1. /\ MarchYears(y) \in Int /\ MarchYears(y - 1) \in Int
      /\ MarchYears(y) = MarchYears(y - 1) + 365 + LeapDays(y)
  <2>1. MarchYears(y) - MarchYears(y - 1) = IF Leap(y) THEN 366 ELSE 365
    BY YearLength
  <2>2. MarchYears(y) \in Int /\ MarchYears(y - 1) \in Int
    BY YearLength
  <2> QED
    BY <2>1, <2>2 DEF LeapDays
<1>2. LeapDays(y) \in {0, 1}
  BY DEF LeapDays
<1> DEFINE l == LeapDays(y)
           s == MarchYear(y, m)
           mdays == MarchDays(m)
<1>3. DaysFromCivil(y, m, d) = MarchYears(s) + mdays + d - 719469
  BY CivilYears, SMT
<1>4. /\ mdays = <<306, 337, 0, 31, 61, 92, 122, 153, 184, 214, 245, 275>>[m]
      /\ s = IF m <= 2 THEN y - 1 ELSE y
  BY SMT DEF MarchDays, MarchYear
<1> HIDE DEF mdays, s, l
<1>5. MarchYears(s) + mdays - 719469 = MarchYears(y - 1) - 719162 + DaysBefore(m, l) - 1
  <2>1. CASE m <= 2
    BY <1>1, <1>2, <1>4, <2>1, SMT DEF l, DaysBefore
  <2>2. CASE m > 2
    BY <1>1, <1>2, <1>4, <2>2, SMT DEF l, DaysBefore
  <2> QED
    BY <2>1, <2>2
<1>6. mdays \in Int /\ DaysBefore(m, l) \in Int
  BY <1>2, <1>4 DEF l, DaysBefore
<1>7. MarchYears(s) \in Int
  BY <1>1, <1>4
<1>8. DaysFromCivil(y, m, d) = NewYear(y) + DaysBefore(m, l) + d - 1
  BY <1>1, <1>3, <1>5, <1>6, <1>7, SMT DEF NewYear
<1> QED
  BY <1>8 DEF l, AddsUp

\* Tomorrow is a date, a day later, and no earlier year.
LEMMA TomorrowIsNext ==
    ASSUME NEW t, IsDate(t)
    PROVE  /\ IsDate(Tomorrow(t)) /\ DaysAt(Tomorrow(t)) = DaysAt(t) + 1
           /\ Tomorrow(t).year >= t.year
<1> DEFINE y == t.year
           m == t.month
           d == t.day
           l == LeapDays(y)
           L == LastDay(y, m)
<1>1. y \in Int /\ m \in 1 .. 12 /\ d \in 1 .. L
  BY DEF IsDate
<1> HIDE DEF y, m, d, l, L
<1>2. /\ L \in 28 .. 31 /\ DaysBefore(m, l) \in 0 .. 335
      /\ m < 12 => DaysBefore(m + 1, l) = DaysBefore(m, l) + L
      /\ m = 12 => DaysBefore(m, l) + L = 365 + l
  <2>1. LastDay(y, m) \in 28 .. 31 /\ DaysBefore(m, LeapDays(y)) \in 0 .. 335
    BY <1>1, MonthLength, Zenon
  <2>2. m < 12 =>
            DaysBefore(m + 1, LeapDays(y)) = DaysBefore(m, LeapDays(y)) + LastDay(y, m)
    BY <1>1, MonthLength, Zenon
  <2>3. m = 12 => DaysBefore(m, LeapDays(y)) + LastDay(y, m) = 365 + LeapDays(y)
    BY <1>1, MonthLength, Zenon
  <2> QED
    BY <2>1, <2>2, <2>3, Zenon DEF l, L
<1>3. DaysAt(t) = NewYear(y) + DaysBefore(m, l) + d - 1 /\ NewYear(y) \in Int
  <2>1. d \in Int
    BY <1>1, <1>2
  <2>2. AddsUp(y, m, d)
    BY <1>1, <2>1, CivilDays, Zenon
  <2>3. NewYear(y) \in Int
    BY <1>1, YearBegins
  <2> QED
    BY <2>2, <2>3 DEF AddsUp, DaysAt, y, m, d, l
<1>4. CASE d < L
  <2>1. Tomorrow(t) = Date(y, m, d + 1)
    BY <1>4 DEF Tomorrow, y, m, d, L
  <2>2. DaysAt(Date(y, m, d + 1)) = NewYear(y) + DaysBefore(m, l) + (d + 1) - 1
    <3>1. d + 1 \in Int
      BY <1>1, <1>2
    <3>2. AddsUp(y, m, d + 1)
      BY <1>1, <3>1, CivilDays, Zenon
    <3> QED
      BY <3>2 DEF AddsUp, DaysAt, Date, l
  <2>3. IsDate(Date(y, m, d + 1)) /\ Date(y, m, d + 1).year = y
    BY <1>1, <1>2, <1>4 DEF IsDate, Date, L
  <2> QED
    BY <1>1, <1>2, <1>3, <2>1, <2>2, <2>3 DEF y
<1>5. CASE d = L /\ m < 12
  <2>1. Tomorrow(t) = Date(y, m + 1, 1)
    BY <1>1, <1>5 DEF Tomorrow, y, m, d, L
  <2>2. DaysAt(Date(y, m + 1, 1)) = NewYear(y) + DaysBefore(m + 1, l) + 1 - 1
    <3>1. m + 1 \in 1 .. 12 /\ 1 \in Int
      BY <1>1, <1>5
    <3>2. AddsUp(y, m + 1, 1)
      BY <1>1, <3>1, CivilDays, Zenon
    <3> QED
      BY <3>2 DEF AddsUp, DaysAt, Date, l
  <2>3. IsDate(Date(y, m + 1, 1)) /\ Date(y, m + 1, 1).year = y
    <3>1. m + 1 \in 1 .. 12 /\ y \in Int
      BY <1>1, <1>5
    <3>2. LastDay(y, m + 1) \in 28 .. 31
      BY <3>1, MonthLength
    <3> QED
      BY <3>1, <3>2 DEF IsDate, Date
  <2> QED
    BY <1>1, <1>2, <1>3, <1>5, <2>1, <2>2, <2>3 DEF y
<1>6. CASE d = L /\ m = 12
  <2>1. Tomorrow(t) = Date(y + 1, 1, 1)
    BY <1>1, <1>6 DEF Tomorrow, y, m, d, L
  <2>2. DaysAt(Date(y + 1, 1, 1)) = NewYear(y + 1)
    <3>1. 1 \in 1 .. 12 /\ 1 \in Int /\ y + 1 \in Int
      BY <1>1
    <3>2. AddsUp(y + 1, 1, 1)
      BY <3>1, CivilDays, Zenon
    <3>3. DaysBefore(1, LeapDays(y + 1)) = 0
      BY DEF DaysBefore
    <3>4. NewYear(y + 1) \in Int
      BY <3>1, YearBegins
    <3> QED
      BY <3>2, <3>3, <3>4 DEF AddsUp, DaysAt, Date
  <2>3. IsDate(Date(y + 1, 1, 1)) /\ Date(y + 1, 1, 1).year = y + 1
    <3>1. 1 \in 1 .. 12 /\ y + 1 \in Int
      BY <1>1
    <3>2. LastDay(y + 1, 1) \in 28 .. 31
      BY <3>1, MonthLength
    <3> QED
      BY <3>1, <3>2 DEF IsDate, Date
  <2>4. NewYear(y + 1) = NewYear(y) + 365 + l
    BY <1>1, YearBegins DEF l
  <2>5. l \in {0, 1}
    BY DEF LeapDays, l
  <2> QED
    BY <1>1, <1>2, <1>3, <1>6, <2>1, <2>2, <2>3, <2>4, <2>5 DEF y
<1>7. d < L \/ (d = L /\ m < 12) \/ (d = L /\ m = 12)
  <2> QED
    BY <1>1, <1>2
<1> QED
  BY <1>4, <1>5, <1>6, <1>7

\* A later year begins after all of an earlier one.
LEMMA NewYearsAscend ==
    ASSUME NEW a \in Int, NEW b \in Int, a < b
    PROVE  NewYear(b) >= NewYear(a) + 365 + LeapDays(a)
<1>1. NewYear(a + 1) = NewYear(a) + 365 + LeapDays(a) /\ NewYear(a) \in Int
  BY YearBegins
<1>2. NewYear(b) \in Int /\ NewYear(a + 1) \in Int
  BY YearBegins
<1>3. MarchYears((a + 1) - 1) <= MarchYears(b - 1)
  BY YearsAscend
<1>4. MarchYears((a + 1) - 1) \in Int /\ MarchYears(b - 1) \in Int
  BY YearLength
<1> QED
  BY <1>1, <1>2, <1>3, <1>4 DEF NewYear

Base(d) == NewYear(d.year)
Before(d) == DaysBefore(d.month, LeapDays(d.year))
Days(d) == LastDay(d.year, d.month)

\* The parts of a date are numbers, of which its count is the sum.
LEMMA DateAdds ==
    ASSUME NEW d, IsDate(d)
    PROVE  /\ d.year \in Int /\ d.month \in 1 .. 12 /\ d.day \in 1 .. Days(d)
           /\ Base(d) \in Int /\ Before(d) \in 0 .. 335 /\ Days(d) \in 28 .. 31
           /\ Before(d) + Days(d) <= 365 + LeapDays(d.year)
           /\ DaysAt(d) = Base(d) + Before(d) + d.day - 1
           /\ LeapDays(d.year) \in {0, 1}
<1> USE DEF Base, Before, Days
<1>1. d.year \in Int /\ d.month \in 1 .. 12 /\ d.day \in 1 .. Days(d)
  BY DEF IsDate
<1>2. Before(d) \in 0 .. 335 /\ Days(d) \in 28 .. 31
  BY <1>1, MonthLength
<1>3. d.day \in Int
  BY <1>1, <1>2
<1>4. Base(d) \in Int /\ DaysAt(d) = Base(d) + Before(d) + d.day - 1
  <2>1. AddsUp(d.year, d.month, d.day)
    BY <1>1, <1>3, CivilDays, Zenon
  <2> QED
    BY <1>1, <2>1, YearBegins DEF AddsUp, DaysAt
<1>5. LeapDays(d.year) \in {0, 1}
  BY DEF LeapDays
<1>6. Before(d) + Days(d) <= 365 + LeapDays(d.year)
  <2>1. CASE d.month = 12
    <3>1. Before(d) + Days(d) = 365 + LeapDays(d.year)
      BY <1>1, <2>1, MonthLength
    <3> QED
      BY <1>5, <3>1
  <2>2. CASE d.month < 12
    <3>1. d.month + 1 \in 1 .. 12 /\ d.month < 12
      BY <1>1, <2>2
    <3>2. DaysBefore(d.month + 1, LeapDays(d.year)) = Before(d) + Days(d)
      BY <1>1, <3>1, MonthLength
    <3>3. DaysBefore(d.month + 1, LeapDays(d.year)) \in 0 .. 335
      BY <1>1, <3>1, MonthLength
    <3> QED
      BY <1>5, <3>2, <3>3
  <2> QED
    BY <1>1, <2>1, <2>2
<1> QED
  BY <1>1, <1>2, <1>4, <1>5, <1>6

\* Of two dates the later one has more days before it.
LEMMA LaterIsMore ==
    ASSUME NEW s, IsDate(s), NEW t, IsDate(t)
    PROVE  /\ DaysAt(s) \in Int /\ DaysAt(t) \in Int
           /\ OnOrAfter(s, t) <=> DaysAt(s) >= DaysAt(t)
<1>1. ASSUME NEW c, IsDate(c), NEW d, IsDate(d), c.year < d.year
      PROVE  DaysAt(c) < DaysAt(d)
  <2>1. Base(d) >= Base(c) + 365 + LeapDays(c.year)
    BY <1>1, DateAdds, NewYearsAscend DEF Base
  <2>2. /\ DaysAt(c) \in Int /\ Base(c) \in Int /\ LeapDays(c.year) \in {0, 1}
        /\ DaysAt(c) < Base(c) + 365 + LeapDays(c.year)
    BY DateAdds, <1>1
  <2>3. DaysAt(d) \in Int /\ Base(d) \in Int /\ DaysAt(d) >= Base(d)
    BY DateAdds, <1>1
  <2> QED
    BY <2>1, <2>2, <2>3
<1>2. ASSUME NEW c, IsDate(c), NEW d, IsDate(d), c.year = d.year, c.month < d.month
      PROVE  DaysAt(c) < DaysAt(d)
  <2>1. Before(d) >= Before(c) + Days(c)
    BY <1>2, DateAdds, MonthLength DEF Before, Days
  <2>2. Base(c) = Base(d)
    BY <1>2 DEF Base
  <2>3. /\ DaysAt(c) \in Int /\ Base(c) \in Int /\ Before(c) \in Int /\ Days(c) \in Int
        /\ DaysAt(c) < Base(c) + Before(c) + Days(c)
    BY DateAdds, <1>2
  <2>4. /\ DaysAt(d) \in Int /\ Base(d) \in Int /\ Before(d) \in Int
        /\ DaysAt(d) >= Base(d) + Before(d)
    BY DateAdds, <1>2
  <2> QED
    BY <2>1, <2>2, <2>3, <2>4
<1>3. ASSUME NEW c, IsDate(c), NEW d, IsDate(d), c.year = d.year, c.month = d.month, c.day < d.day
      PROVE  DaysAt(c) < DaysAt(d)
  <2>1. Base(c) = Base(d) /\ Before(c) = Before(d)
    BY <1>3 DEF Base, Before
  <2> QED
    BY DateAdds, <1>3, <2>1
<1>4. /\ DaysAt(s) \in Int /\ DaysAt(t) \in Int
      /\ s.year \in Int /\ s.month \in Int /\ s.day \in Int
      /\ t.year \in Int /\ t.month \in Int /\ t.day \in Int
  <2> QED
    BY DateAdds
<1>5. CASE OnOrAfter(s, t)
  <2>1. DaysAt(s) >= DaysAt(t)
    <3>1. CASE s.year = t.year /\ s.month = t.month /\ s.day = t.day
      BY <1>4, <3>1 DEF DaysAt
    <3>2. CASE ~(s.year = t.year /\ s.month = t.month /\ s.day = t.day)
      <4>1. \/ t.year < s.year
            \/ t.year = s.year /\ t.month < s.month
            \/ t.year = s.year /\ t.month = s.month /\ t.day < s.day
        BY <1>4, <1>5, <3>2 DEF OnOrAfter
      <4>2. DaysAt(t) < DaysAt(s)
        BY <1>1, <1>2, <1>3, <4>1
      <4> QED
        BY <1>4, <4>2
    <3> QED
      BY <3>1, <3>2
  <2> QED
    BY <1>4, <1>5, <2>1
<1>6. CASE ~OnOrAfter(s, t)
  <2>1. \/ s.year < t.year
        \/ s.year = t.year /\ s.month < t.month
        \/ s.year = t.year /\ s.month = t.month /\ s.day < t.day
    BY <1>4, <1>6 DEF OnOrAfter
  <2>2. DaysAt(s) < DaysAt(t)
    BY <1>1, <1>2, <1>3, <2>1
  <2> QED
    BY <1>4, <1>6, <2>2
<1> QED
  BY <1>5, <1>6

\* What IsExpired compares, in seconds, is which date is later.
LEMMA ExpiresOnDate ==
    ASSUME NEW a \in Nat, NEW b \in Int, NEW k \in 0 .. PerDay - 1
    PROVE  a * PerDay + k >= (IF b * PerDay > 0 THEN b * PerDay ELSE 0) <=> a >= b
<1> DEFINE A == a * PerDay
           B == b * PerDay
<1>1. PerDay \in Nat \ {0} /\ k \in Nat /\ k < PerDay
  BY PerDayAssumption
<1>2. A \in Nat /\ B \in Int
  BY <1>1
<1>3. CASE a >= b
  <2>1. A >= B
    BY <1>1, <1>3
  <2> HIDE DEF A, B
  <2> QED
    BY <1>1, <1>2, <1>3, <2>1 DEF A, B
<1>4. CASE a < b
  <2>1. (a + 1) * PerDay = A + PerDay
    BY <1>1
  <2>2. (a + 1) * PerDay <= B
    BY <1>1, <1>4
  <2>3. (a + 1) * PerDay \in Int
    BY <1>1
  <2>4. B >= A + PerDay
    BY <2>1, <2>2
  <2>5. ~(a >= b)
    BY <1>4
  <2> HIDE DEF A, B
  <2>6. B > 0 /\ ~(A + k >= B)
    BY <1>1, <1>2, <2>4
  <2> QED
    BY <2>5, <2>6 DEF A, B
<1> QED
  BY <1>3, <1>4

\* The calendar's count of the years is the code's.
LEMMA CountedYears == \A n \in Nat : YearDays[n] = NewYear(1970 + n)
<1> DEFINE Years(f) == f = [n \in Nat |-> IF n = 0 THEN 0
                                          ELSE f[n - 1] + (IF Leap(1969 + n) THEN 366 ELSE 365)]
           d == [n \in Nat |-> [x \in Int |-> x + (IF Leap(1969 + n) THEN 366 ELSE 365)]]
<1>1. \E f : Years(f)
  <2>1. d \in [Nat -> [Int -> Int]]
    OBVIOUS
  <2>2. \A n \in Nat, x \in Int : d[n][x] = x + (IF Leap(1969 + n) THEN 366 ELSE 365)
    OBVIOUS
  <2> HIDE DEF d
  <2>3. PICK f \in [Nat -> Int] : Solves(f, 0, d)
    <3>1. 0 \in Int
      OBVIOUS
    <3> QED
      BY <2>1, <3>1, Recursion, Zenon
  <2>4. ASSUME NEW n \in Nat
        PROVE  f[n] = IF n = 0 THEN 0 ELSE f[n - 1] + (IF Leap(1969 + n) THEN 366 ELSE 365)
    <3>1. CASE n = 0
      BY <2>3, <3>1 DEF Solves
    <3>2. CASE n # 0
      <4>1. n \in Nat \ {0} /\ n - 1 \in Nat
        BY <3>2
      <4>2. f[n] = d[n][f[n - 1]] /\ f[n - 1] \in Int
        BY <2>3, <4>1 DEF Solves
      <4> QED
        BY <2>2, <3>2, <4>1, <4>2
    <3> QED
      BY <3>1, <3>2
  <2>5. Years(f)
    BY <2>3, <2>4
  <2> HIDE DEF Years
  <2> QED
    BY <2>5
<1>2. Years(YearDays)
  <2>1. YearDays = CHOOSE f : Years(f)
    BY DEF YearDays
  <2> HIDE DEF Years
  <2> QED
    BY <1>1, <2>1
<1> HIDE DEF d
<1> DEFINE T == {n \in Nat : YearDays[n] = NewYear(1970 + n)}
<1>3. 0 \in T
  <2>1. NewYear(1970) = 0
    BY SMT DEF NewYear, MarchYears
  <2>2. YearDays[0] = 0
    BY <1>2
  <2> QED
    BY <2>1, <2>2
<1>4. ASSUME NEW n \in Nat, n \in T PROVE n + 1 \in T
  <2>1. YearDays[n + 1] = YearDays[n] + (IF Leap(1970 + n) THEN 366 ELSE 365)
    <3>1. n + 1 \in Nat /\ n + 1 # 0 /\ (n + 1) - 1 = n /\ 1969 + (n + 1) = 1970 + n
      OBVIOUS
    <3> QED
      BY <1>2, <3>1
  <2>2. /\ NewYear(1970 + n + 1) = NewYear(1970 + n) + 365 + LeapDays(1970 + n)
        /\ NewYear(1970 + n) \in Int
    BY YearBegins
  <2>3. 1970 + n + 1 = 1970 + (n + 1)
    OBVIOUS
  <2>4. YearDays[n + 1] = NewYear(1970 + (n + 1))
    BY <1>4, <2>1, <2>2, <2>3 DEF LeapDays
  <2> QED
    BY <2>4
<1> HIDE DEF T
<1>5. Nat \subseteq T
  BY <1>3, <1>4, Induction
<1> QED
  BY <1>5 DEF T

\* The calendar's count of the days of a year before a month is the code's.
LEMMA CountedMonths ==
    ASSUME NEW y \in Int, NEW month \in 1 .. 12
    PROVE  Total(SubSeq(MonthDays(y), 1, month - 1)) = DaysBefore(month, LeapDays(y))
<1> DEFINE md == MonthDays(y)
           Upto(n) == Total(SubSeq(md, 1, n))
<1>1. \A m \in 1 .. 12 : LastDay(y, m) \in 28 .. 31
  BY MonthLength
<1>2. md \in Seq(Nat) /\ Len(md) = 12 /\ \A m \in 1 .. 12 : md[m] = LastDay(y, m)
  <2>1. md = [m \in 1 .. 12 |-> LastDay(y, m)]
    BY DEF MonthDays
  <2> QED
    BY <1>1, <2>1
<1> HIDE DEF md
<1>3. ASSUME NEW n \in 0 .. 11 PROVE Upto(n) = DaysBefore(n + 1, LeapDays(y))
  <2> DEFINE T == {k \in Nat : k <= 11 => Upto(k) = DaysBefore(k + 1, LeapDays(y))}
  <2>1. 0 \in T
    <3>1. SubSeq(md, 1, 0) = <<>>
      BY <1>2
    <3>2. Total(<<>>) = 0
      <4>1. <<>> \in Seq(Nat)
        OBVIOUS
      <4> QED
        BY <4>1, TotalTyped, Zenon
    <3>3. DaysBefore(1, LeapDays(y)) = 0
      BY DEF DaysBefore
    <3>4. Upto(0) = 0
      BY <3>1, <3>2, Zenon
    <3> HIDE DEF Upto
    <3>5. 0 + 1 = 1
      OBVIOUS
    <3> QED
      BY <3>3, <3>4, <3>5
  <2>2. ASSUME NEW k \in 1 .. 11, k - 1 \in T PROVE k \in T
    <3>1. k \in 1 .. Len(md)
      BY <1>2
    <3>2. Upto(k) = Upto(k - 1) + md[k]
      BY <1>2, <3>1, TotalUpTo, Zenon
    <3>3. Upto(k - 1) = DaysBefore(k, LeapDays(y)) /\ k \in 1 .. 12 /\ k < 12 /\ k \in Nat
      BY <2>2
    <3>4. DaysBefore(k + 1, LeapDays(y)) = DaysBefore(k, LeapDays(y)) + LastDay(y, k)
      BY <3>3, MonthLength
    <3>5. md[k] = LastDay(y, k)
      BY <1>2, <3>3
    <3> HIDE DEF Upto
    <3> QED
      BY <3>2, <3>3, <3>4, <3>5
  <2> HIDE DEF T
  <2>3. 0 .. 11 \subseteq T
    BY <2>1, <2>2, InductionUpTo
  <2> QED
    BY <2>3 DEF T
<1>4. Upto(month - 1) = DaysBefore(month, LeapDays(y))
  <2>1. month - 1 \in 0 .. 11 /\ (month - 1) + 1 = month
    OBVIOUS
  <2> HIDE DEF Upto
  <2> QED
    BY <1>3, <2>1
<1> QED
  BY <1>4 DEF md

\* The calendar's count of the days to a date is the code's.
LEMMA CountedDays ==
    ASSUME NEW t, IsDate(t), t.year >= 1970
    PROVE  Counted(t) = DaysAt(t)
<1>1. t.year \in Int /\ t.month \in 1 .. 12 /\ t.day \in Int
  <2>1. t.year \in Int /\ t.month \in 1 .. 12 /\ t.day \in 1 .. LastDay(t.year, t.month)
    BY DEF IsDate
  <2>2. LastDay(t.year, t.month) \in 28 .. 31
    BY <2>1, MonthLength
  <2> QED
    BY <2>1, <2>2
<1>2. YearDays[t.year - 1970] = NewYear(t.year)
  <2>1. t.year - 1970 \in Nat /\ 1970 + (t.year - 1970) = t.year
    BY <1>1
  <2> QED
    BY <2>1, CountedYears
<1>3. Total(SubSeq(MonthDays(t.year), 1, t.month - 1)) = DaysBefore(t.month, LeapDays(t.year))
  BY <1>1, CountedMonths
<1>4. AddsUp(t.year, t.month, t.day)
  BY <1>1, CivilDays
<1> QED
  BY <1>2, <1>3, <1>4 DEF AddsUp, Counted, DaysAt

\* The years since the epoch do not count back.
LEMMA DaysSinceEpoch ==
    ASSUME NEW t, IsDate(t), t.year >= 1970
    PROVE  DaysAt(t) \in Nat
<1>1. /\ t.year \in Int /\ t.day \in 1 .. Days(t) /\ Days(t) \in 28 .. 31
      /\ Base(t) \in Int /\ Before(t) \in 0 .. 335
      /\ DaysAt(t) = Base(t) + Before(t) + t.day - 1
  BY DateAdds
<1>2. Base(t) >= 0
  <2>1. MarchYears(1969) <= MarchYears(t.year - 1)
    BY <1>1, YearsAscend
  <2>2. MarchYears(1969) = 719162
    BY SMT DEF MarchYears
  <2>3. MarchYears(t.year - 1) \in Int
    BY <1>1, YearLength
  <2> QED
    BY <2>1, <2>2, <2>3, SMT DEF NewYear, Base
<1> QED
  BY <1>1, <1>2

\* The second of an expiry is a number.
LEMMA SecondsAreCounted ==
    ASSUME NEW t, t.year \in Int, t.month \in Int, t.day \in Int
    PROVE  Seconds(t) \in Nat
<1>1. \A y, m, d \in Int : DaysFromCivil(y, m, d) \in Int
  <2> SUFFICES ASSUME NEW y \in Int, NEW m \in Int, NEW d \in Int
               PROVE  DaysFromCivil(y, m, d) \in Int
    OBVIOUS
  <2> DEFINE s == IF m <= 2 THEN y - 1 ELSE y
             era == s \div 400
             yoe == s - era * 400
             doy == (153 * (IF m > 2 THEN m - 3 ELSE m + 9) + 2) \div 5 + d - 1
  <2>1. s \in Int /\ doy \in Int
    OBVIOUS
  <2>2. era \in Int
    BY <2>1
  <2>3. yoe \in Int
    BY <2>1, <2>2
  <2>4. DaysFromCivil(y, m, d) = era * 146097 + yoe * 365 + yoe \div 4 - yoe \div 100 + doy - 719468
    BY DEF DaysFromCivil
  <2> HIDE DEF s, era, yoe, doy
  <2> QED
    BY <2>1, <2>2, <2>3, <2>4
<1> DEFINE n == DaysFromCivil(t.year, t.month, t.day) * PerDay
<1>2. n \in Int
  <2>1. DaysFromCivil(t.year, t.month, t.day) \in Int
    BY <1>1
  <2>2. \A a \in Int : a * PerDay \in Int
    BY PerDayAssumption
  <2> QED
    BY <2>1, <2>2
<1>3. Seconds(t) = IF n > 0 THEN n ELSE 0
  BY DEF Seconds
<1> HIDE DEF n
<1> QED
  BY <1>2, <1>3

-----------------------------------------------------------------------------
(* The invariant.                                                          *)

\* A built client holds its config's entries decoded, all of them sound.
BuiltInv ==
    /\ config \in Configs /\ built \in {"no", "yes", "rejected"}
    /\ built = "yes" =>
          /\ \A i \in DOMAIN config : Decodes(config[i])
          /\ domains = [i \in DOMAIN config |-> Decoded(config[i])]
    /\ built # "yes" => domains = <<>>
    /\ built = "rejected" => \E i \in DOMAIN config : ~Decodes(config[i])

ClockInv == time \in 0 .. PerDay - 1 /\ age \in 0 .. Ticks /\ now \in Nat

PinInv == BuiltInv /\ ClockInv

LEMMA PinInvariance == Spec => []PinInv
<1>1. Init => PinInv
  <2> SUFFICES ASSUME Init PROVE PinInv
    OBVIOUS
  <2>1. now \in Nat
    <3>1. IsDate(today) /\ today.year >= 1970 /\ now = Counted(today) * PerDay
      BY StartAssumption DEF Init
    <3>2. Counted(today) \in Nat
      BY <3>1, CountedDays, DaysSinceEpoch
    <3> QED
      BY <3>1, <3>2, PerDayAssumption
  <2> QED
    BY <2>1, PerDayAssumption DEF Init, PinInv, BuiltInv, ClockInv
<1>2. PinInv /\ [Next]_vars => PinInv'
  <2> SUFFICES ASSUME PinInv, [Next]_vars PROVE PinInv'
    OBVIOUS
  <2> USE DEF PinInv, BuiltInv, ClockInv
  <2>1. CASE Construct
    BY <2>1 DEF Construct
  <2>2. CASE Tick
    <3>1. time' \in 0 .. PerDay - 1
      BY <2>2, PerDayAssumption DEF Tick
    <3> QED
      BY <2>2, <3>1, PerDayAssumption DEF Tick
  <2>3. CASE Handshake
    BY <2>3 DEF Handshake
  <2>4. CASE UNCHANGED vars
    BY <2>4 DEF vars
  <2> QED
    BY <2>1, <2>2, <2>3, <2>4 DEF Next
<1> QED
  BY <1>1, <1>2, PTL DEF Spec

\* A decoded entry lapses at a number, or never.
LEMMA ExpiryTyped ==
    ASSUME PinInv, built = "yes", NEW i \in DOMAIN domains
    PROVE  domains[i].expires = Never \/ domains[i].expires \in Nat
<1>1. i \in DOMAIN config /\ domains[i] = Decoded(config[i]) /\ config \in Configs
  BY DEF PinInv, BuiltInv
<1>2. CASE config[i].expiration = Never
  BY <1>1, <1>2 DEF Decoded
<1>3. CASE config[i].expiration # Never
  <2>1. Seconds(config[i].expiration) \in Nat
    BY <1>1, <1>3, ConfigAssumption, SecondsAreCounted
  <2> QED
    BY <1>1, <1>3, <2>1 DEF Decoded
<1> QED
  BY <1>2, <1>3

\* The clock agrees with the calendar.
DateInv ==
    /\ IsDate(today) /\ today.year >= 1970
    /\ time \in 0 .. PerDay - 1 /\ now = DaysAt(today) * PerDay + time

LEMMA DateInvariance == Spec => []DateInv
<1>1. Init => DateInv
  <2> SUFFICES ASSUME Init PROVE DateInv
    OBVIOUS
  <2>1. IsDate(today) /\ today.year >= 1970 /\ time = 0 /\ now = Counted(today) * PerDay
    BY StartAssumption DEF Init
  <2>2. Counted(today) = DaysAt(today) /\ DaysAt(today) \in Nat
    BY <2>1, CountedDays, DaysSinceEpoch
  <2>3. DaysAt(today) * PerDay \in Int /\ 0 \in 0 .. PerDay - 1
    BY <2>2, PerDayAssumption
  <2> HIDE DEF DaysAt
  <2>4. now = DaysAt(today) * PerDay + time
    BY <2>1, <2>2, <2>3
  <2> QED
    BY <2>1, <2>3, <2>4 DEF DateInv
<1>2. DateInv /\ [Next]_vars => DateInv'
  <2> SUFFICES ASSUME DateInv, [Next]_vars PROVE DateInv'
    OBVIOUS
  <2>1. CASE Tick
    <3>1. /\ time' = (time + 1) % PerDay /\ now' = now + 1
          /\ today' = IF time' = 0 THEN Tomorrow(today) ELSE today
      BY <2>1 DEF Tick
    <3>2. /\ IsDate(today) /\ today.year >= 1970
          /\ time \in 0 .. PerDay - 1 /\ now = DaysAt(today) * PerDay + time
      BY DEF DateInv
    <3>3. /\ IsDate(Tomorrow(today)) /\ DaysAt(Tomorrow(today)) = DaysAt(today) + 1
          /\ Tomorrow(today).year >= today.year
      BY <3>2, TomorrowIsNext
    <3>4. DaysAt(today) \in Nat
      BY <3>2, DaysSinceEpoch
    <3>5. DaysAt(today)' = DaysAt(today')
      BY DEF DaysAt
    <3> DEFINE n == DaysAt(today)
    <3>6. PerDay \in Nat \ {0} /\ n * PerDay \in Int /\ (n + 1) * PerDay = n * PerDay + PerDay
      BY <3>4, PerDayAssumption
    <3>7. CASE time + 1 = PerDay
      <4>1. time' = 0
        BY <3>1, <3>6, <3>7
      <4>2. today' = Tomorrow(today) /\ DaysAt(today') = n + 1
        BY <3>1, <3>3, <4>1
      <4>3. today.year \in Int /\ Tomorrow(today).year \in Int
        BY <3>2, <3>3 DEF IsDate
      <4>4. IsDate(today') /\ today'.year >= 1970
        BY <3>2, <3>3, <4>2, <4>3
      <4>5. now' = (n + 1) * PerDay + time' /\ time' \in 0 .. PerDay - 1
        <5> HIDE DEF n
        <5>1. now = n * PerDay + time
          BY <3>2 DEF n
        <5> QED
          BY <3>1, <3>2, <3>6, <3>7, <4>1, <5>1
      <4>6. now' = DaysAt(today') * PerDay + time'
        BY <4>2, <4>5
      <4> QED
        BY <4>4, <4>5, <4>6, <3>5 DEF DateInv, IsDate
    <3>8. CASE time + 1 # PerDay
      <4>1. time + 1 \in 1 .. PerDay - 1
        <5> HIDE DEF n
        <5> QED
          BY <3>2, <3>6, <3>8
      <4>2. (time + 1) % PerDay = time + 1
        <5>1. \A a \in Nat, b \in Nat : a < b => a % b = a
          OBVIOUS
        <5> QED
          BY <3>6, <4>1, <5>1
      <4>3. time' = time + 1 /\ time' # 0 /\ time' \in 0 .. PerDay - 1
        BY <3>1, <4>1, <4>2
      <4>4. today' = today
        BY <3>1, <4>3
      <4>5. now' = n * PerDay + time'
        <5> HIDE DEF n
        <5>1. now = n * PerDay + time
          BY <3>2 DEF n
        <5> QED
          BY <3>1, <3>2, <3>6, <4>3, <5>1
      <4> QED
        BY <3>2, <3>5, <4>3, <4>4, <4>5 DEF DateInv, IsDate
    <3> QED
      BY <3>7, <3>8
  <2>2. CASE UNCHANGED <<today, time, now>>
    BY <2>2 DEF DateInv, IsDate, DaysAt
  <2> QED
    BY <2>1, <2>2 DEF Next, Construct, Handshake, vars
<1> QED
  BY <1>1, <1>2, PTL DEF Spec

-----------------------------------------------------------------------------
(* What a handshake accepts.                                               *)

\* An entry is expired from the date in the config on.
ExpiryIsDated ==
    built = "yes" => \A i \in DOMAIN config :
        IsExpired(domains[i], now)
        <=> config[i].expiration # Never /\ OnOrAfter(today, config[i].expiration)

\* By the calendar and the code's count of its days.
LEMMA ExpiryByDate ==
    ASSUME PinInv, DateInv
    PROVE  ExpiryIsDated
<1> SUFFICES ASSUME built = "yes", NEW i \in DOMAIN config
             PROVE  IsExpired(domains[i], now)
                    <=> config[i].expiration # Never /\ OnOrAfter(today, config[i].expiration)
  BY DEF ExpiryIsDated
<1> DEFINE t == config[i].expiration
<1>1. config \in Configs /\ Decodes(config[i]) /\ domains[i] = Decoded(config[i])
  BY DEF PinInv, BuiltInv
<1>2. domains[i].expires = IF t = Never THEN Never ELSE Seconds(t)
  BY <1>1 DEF Decoded
<1>3. CASE t = Never
  BY <1>2, <1>3 DEF IsExpired
<1>4. CASE t # Never
  <2>1. IsDate(t)
    BY <1>1, <1>4, DecodedDate
  <2>2. Seconds(t) # Never
    <3>1. t.year \in Int /\ t.month \in Int /\ t.day \in Int
      BY <1>1, <1>4, ConfigAssumption
    <3>2. Seconds(t) \in Nat
      BY <3>1, SecondsAreCounted
    <3> QED
      BY <3>2, NeverAssumption
  <2>3. IsExpired(domains[i], now) <=> now >= Seconds(t)
    BY <1>2, <1>4, <2>2 DEF IsExpired
  <2>4. /\ IsDate(today) /\ today.year >= 1970
        /\ time \in 0 .. PerDay - 1 /\ now = DaysAt(today) * PerDay + time
    BY DEF DateInv
  <2>5. DaysAt(today) \in Nat
    BY <2>4, DaysSinceEpoch
  <2>6. DaysAt(t) \in Int /\ (OnOrAfter(today, t) <=> DaysAt(today) >= DaysAt(t))
    BY <2>1, <2>4, LaterIsMore
  <2>7. Seconds(t) = IF DaysAt(t) * PerDay > 0 THEN DaysAt(t) * PerDay ELSE 0
    BY DEF Seconds, DaysAt
  <2> HIDE DEF t
  <2>8. now >= Seconds(t) <=> DaysAt(today) >= DaysAt(t)
    BY <2>4, <2>5, <2>6, <2>7, ExpiresOnDate
  <2> QED
    BY <1>4, <2>3, <2>6, <2>8 DEF t
<1> QED
  BY <1>3, <1>4

\* The dot that a subdomain has before the host is where the lengths say.
LEMMA UnderByLength ==
    ASSUME NEW name \in Seq(STRING), NEW host \in Seq(STRING)
    PROVE  Under(name, host)
           <=> LET n == Len(name) - Len(host)
               IN n > 0 /\ SubSeq(name, n + 1, Len(name)) = host /\ name[n] = "."
<1> DEFINE k == Len(name) - Len(host)
<1>1. Len(name) \in Nat /\ Len(host) \in Nat /\ k \in Int /\ DOMAIN name = 1 .. Len(name)
  OBVIOUS
<1>2. ASSUME NEW n \in DOMAIN name, name[n] = ".", SubSeq(name, n + 1, Len(name)) = host
      PROVE  k > 0 /\ SubSeq(name, k + 1, Len(name)) = host /\ name[k] = "."
  <2>1. n \in Nat \ {0} /\ n <= Len(name)
    BY <1>1
  <2>2. Len(SubSeq(name, n + 1, Len(name))) = Len(name) - n
    BY <1>1, <2>1
  <2>3. k = n
    BY <1>1, <1>2, <2>1, <2>2
  <2> QED
    BY <1>2, <2>1, <2>3
<1>3. k > 0 => k \in DOMAIN name
  BY <1>1
<1> HIDE DEF k
<1>4. Under(name, host) => k > 0 /\ SubSeq(name, k + 1, Len(name)) = host /\ name[k] = "."
  BY <1>2, Zenon DEF Under
<1>5. k > 0 /\ SubSeq(name, k + 1, Len(name)) = host /\ name[k] = "." => Under(name, host)
  BY <1>3, Zenon DEF Under
<1> QED
  BY <1>4, <1>5 DEF k

\* A decoded entry matches the names that the entry covers, however it was written.
LEMMA MatchesWhatIsCovered ==
    ASSUME NEW c \in Configs, NEW i \in DOMAIN c, NEW sni \in Names, ~sni.ip
    PROVE  Matches(Decoded(c[i]), Lowered(sni)) <=> Covers(c[i], sni)
<1> DEFINE d == Decoded(c[i])
           host == c[i].host.name
<1>1. d.host = [c[i].host EXCEPT !.as = "plain"] /\ d.sub = c[i].sub
  BY DEF Decoded, Normal
<1>2. DOMAIN c[i].host = {"name", "as"} /\ host \in Seq(STRING) /\ sni.name \in Seq(STRING)
  BY ConfigAssumption, NamesAssumption
<1>3. d.host = [name |-> host, as |-> "plain"]
  BY <1>1, <1>2
<1> HIDE DEF d, host
<1>4. /\ Lowered(sni) = d.host <=> sni.name = host
      /\ Lowered(sni).name = sni.name /\ Lowered(sni).as = d.host.as /\ d.host.name = host
  BY <1>3 DEF Lowered
<1>5. Matches(d, Lowered(sni))
      <=> \/ sni.name = host
          \/ /\ d.sub
             /\ LET n == Len(sni.name) - Len(host)
                IN /\ n > 0 /\ SubSeq(sni.name, n + 1, Len(sni.name)) = host
                   /\ sni.name[n] = "."
  BY <1>4, Zenon DEF Matches
<1>6. Under(sni.name, host)
      <=> LET n == Len(sni.name) - Len(host)
          IN n > 0 /\ SubSeq(sni.name, n + 1, Len(sni.name)) = host /\ sni.name[n] = "."
  BY <1>2, UnderByLength, Zenon
<1>7. Matches(d, Lowered(sni)) <=> sni.name = host \/ (d.sub /\ Under(sni.name, host))
  BY <1>5, <1>6, Zenon
<1> QED
  BY <1>1, <1>7 DEF Covers, d, host

\* The pins that a handshake is held to are those of the entries in force.
LEMMA PinsAreInForce ==
    ASSUME PinInv, ExpiryIsDated, built = "yes", NEW sni \in Names, ~sni.ip
    PROVE  PinsFor(domains, Lowered(sni), now)
           = UNION {ToSet(config[i].pins) : i \in InForce(sni, today)}
<1>1. config \in Configs /\ domains = [i \in DOMAIN config |-> Decoded(config[i])]
  BY DEF PinInv, BuiltInv
<1>2. \A i \in DOMAIN config : Matches(domains[i], Lowered(sni)) <=> Covers(config[i], sni)
  BY <1>1, MatchesWhatIsCovered
<1>3. {j \in DOMAIN domains : Matches(domains[j], Lowered(sni)) /\ ~IsExpired(domains[j], now)}
      = InForce(sni, today)
  BY <1>1, <1>2 DEF InForce, ExpiryIsDated
<1>4. \A i \in DOMAIN config : domains[i].pins = config[i].pins
  BY <1>1 DEF Decoded
<1>5. InForce(sni, today) \subseteq DOMAIN config
  BY DEF InForce
<1> QED
  BY <1>3, <1>4, <1>5 DEF PinsFor

\* A handshake of a built client is accepted as PinsHold says.
LEMMA VerifyHolds ==
    ASSUME PinInv, ExpiryIsDated, built = "yes",
           NEW sni \in Names, NEW chain \in Chains, NEW verdict \in Verdicts
    PROVE  Verify(domains, sni, chain, verdict, now) = NoRustls
           <=> verdict = NoRustls /\ (InForce(sni, today) # {} => Satisfies(chain, sni, today))
<1> DEFINE pins == PinsFor(domains, Lowered(sni), now)
<1>1. Rustls("General", TRUE) # NoRustls
  BY DEF Rustls, NoRustls
<1>2. Verify(domains, sni, chain, verdict, now) = NoRustls
      <=> verdict = NoRustls /\ (sni.ip \/ pins = {} \/ MatchesPins(chain, pins))
  BY <1>1 DEF Verify
<1>3. CASE sni.ip
  <2>1. InForce(sni, today) = {}
    BY <1>3 DEF InForce, Covers
  <2> QED
    BY <1>2, <1>3, <2>1
<1>4. CASE ~sni.ip
  <2>1. pins = UNION {ToSet(config[i].pins) : i \in InForce(sni, today)}
    BY <1>4, PinsAreInForce
  <2> HIDE DEF pins
  <2>2. \A i \in InForce(sni, today) : ToSet(config[i].pins) # {}
    <3> SUFFICES ASSUME NEW i \in InForce(sni, today) PROVE ToSet(config[i].pins) # {}
      OBVIOUS
    <3>1. i \in DOMAIN config /\ config \in Configs /\ Decodes(config[i])
      BY DEF InForce, PinInv, BuiltInv
    <3>2. 1 \in DOMAIN config[i].pins
      BY <3>1, ConfigAssumption DEF Decodes
    <3>3. config[i].pins[1] \in ToSet(config[i].pins)
      BY <3>2 DEF ToSet
    <3> QED
      BY <3>3
  <2>3. InForce(sni, today) = {} => pins = {}
    BY <2>1
  <2>4. InForce(sni, today) # {} => pins # {}
    <3> SUFFICES ASSUME NEW i \in InForce(sni, today) PROVE pins # {}
      OBVIOUS
    <3>1. PICK x : x \in ToSet(config[i].pins)
      BY <2>2
    <3> QED
      BY <2>1, <3>1
  <2>5. MatchesPins(chain, pins) <=> Satisfies(chain, sni, today)
    BY <2>1 DEF MatchesPins, Satisfies
  <2> QED
    BY <1>2, <1>4, <2>3, <2>4, <2>5
<1> QED
  BY <1>3, <1>4

-----------------------------------------------------------------------------
(* What a caller is told.                                                  *)

\* The first place of a search that finds something, and of one that does not.
LEMMA First ==
    ASSUME NEW I \in SUBSET Nat
    PROVE  /\ \A n \in I : (\A i \in I : n <= i) => (IF I # {} THEN Min(I) ELSE 0) = n
           /\ I = {} => (IF I # {} THEN Min(I) ELSE 0) = 0
<1> SUFFICES ASSUME NEW n \in I, \A i \in I : n <= i PROVE Min(I) = n
  OBVIOUS
<1>1. \E x \in I : \A y \in I : x <= y
  OBVIOUS
<1>2. Min(I) \in I /\ \A y \in I : Min(I) <= y
  BY <1>1 DEF Min
<1>3. Min(I) \in Nat /\ n \in Nat /\ Min(I) <= n /\ n <= Min(I)
  BY <1>2
<1> QED
  BY <1>3

\* b is s with w in front.
Leads(w, s, b) ==
    Len(b) = Len(s) + 1 /\ b[1] = w /\ \A i \in 1 .. Len(s) : b[i + 1] = s[i]

\* A link in front of a chain.
LEMMA Prefixed ==
    ASSUME NEW S, NEW s \in Seq(S), NEW w \in S
    PROVE  Leads(w, s, <<w>> \o s)
<1>1. <<w>> \in Seq(S) /\ Len(<<w>>) = 1 /\ <<w>>[1] = w
  OBVIOUS
<1> QED
  BY <1>1 DEF Leads

\* A rustls error that is a source is classified as what it is, by either walk.
LEMMA TypedIsTold ==
    ASSUME NEW e, NEW url, NEW c, c = Typed(e, url)
    PROVE  MapReqwestErr(c) = ClassifyRustls(e) /\ ClassifyErrChain(Boxed(c)) = ClassifyRustls(e)
<1> DEFINE b == Boxed(c)
           Decides(link) == IsRustls(link) \/ (link.as = "reqwest" /\ link.timedOut)
<1>1. /\ Len(c) = 3 /\ ~IsRustls(c[1]) /\ ~IsRustls(c[2]) /\ IsRustls(c[3])
      /\ Head(c).timedOut = FALSE /\ c[3].rustls = e
  BY DEF Typed, Outermost, Wrapper, Link, IsRustls
<1>2. Len(b) = 4 /\ b[1] = Wrapper({}) /\ b[2] = c[1] /\ b[3] = c[2] /\ b[4] = c[3]
  <2> DEFINE w == Wrapper({})
             S == {w, c[1], c[2], c[3]}
  <2>1. c \in Seq(S) /\ w \in S /\ Len(c) = 3
    <3>1. c = <<c[1], c[2], c[3]>>
      BY DEF Typed
    <3>2. <<c[1], c[2], c[3]>> \in Seq(S)
      OBVIOUS
    <3> QED
      BY <1>1, <3>1, <3>2
  <2> HIDE DEF w, S
  <2>2. Leads(w, c, <<w>> \o c)
    BY <2>1, Prefixed, Zenon
  <2>3. b = <<w>> \o c
    BY Zenon DEF Boxed, w
  <2> HIDE DEF b
  <2>4. Len(b) = Len(c) + 1 /\ b[1] = w /\ \A i \in 1 .. Len(c) : b[i + 1] = c[i]
    BY <2>2, <2>3, Zenon DEF Leads
  <2>5. b[1 + 1] = c[1] /\ b[2 + 1] = c[2] /\ b[3 + 1] = c[3]
    BY <2>1, <2>4
  <2> QED
    BY <2>1, <2>4, <2>5 DEF w
<1>3. /\ Len(b) = 4 /\ ~Decides(b[1]) /\ ~Decides(b[2]) /\ ~Decides(b[3]) /\ Decides(b[4])
      /\ b[4] = c[3]
  BY <1>2 DEF Typed, Outermost, Wrapper, Link, IsRustls
<1> HIDE DEF b
<1>4. SelectInSeq(c, IsRustls) = 3
  <2> DEFINE I == {i \in 1 .. Len(c) : IsRustls(c[i])}
  <2>1. I = {3}
    BY <1>1
  <2> HIDE DEF I
  <2>2. (IF I # {} THEN Min(I) ELSE 0) = 3
    BY <2>1, First
  <2> QED
    BY <2>2 DEF SelectInSeq, I
<1>5. MapReqwestErr(c) = ClassifyRustls(e)
  BY <1>1, <1>4 DEF MapReqwestErr
<1>6. SelectInSeq(b, Decides) = 4
  <2> DEFINE I == {i \in 1 .. Len(b) : Decides(b[i])}
  <2> HIDE DEF Decides
  <2>1. I = {4}
    BY <1>3
  <2> HIDE DEF I
  <2>2. (IF I # {} THEN Min(I) ELSE 0) = 4
    BY <2>1, First
  <2> USE DEF Decides
  <2> QED
    BY <2>2 DEF SelectInSeq, I
<1>7. ClassifyErrChain(b) = ClassifyRustls(e)
  BY <1>1, <1>3, <1>6 DEF ClassifyErrChain
<1> QED
  BY <1>5, <1>7 DEF b

\* One inside an io::Error is told by its text on the plain backend, whatever the URL.
LEMMA WrappedIsTold ==
    ASSUME NEW e, NEW url, NEW c, c = Wrapped(e, url)
    PROVE  MapReqwestErr(c) = ByText(Text(e))
<1> DEFINE Tells(link) == ByText(Seen(link, Head(c).url)) # "Network"
<1>1. /\ Len(c) = 3 /\ ~IsRustls(c[1]) /\ ~IsRustls(c[2]) /\ ~IsRustls(c[3])
      /\ Head(c).timedOut = FALSE /\ Head(c).url = url
  BY DEF Wrapped, Outermost, Wrapper, Link, IsRustls
<1>2. Seen(c[1], url) = {} /\ Seen(c[2], url) = {} /\ Seen(c[3], url) = Text(e)
  <2>1. /\ c[1].says = {} /\ c[1].url = url /\ c[2].says = {} /\ c[2].url = {}
        /\ c[3].says = Text(e) /\ c[3].url = {}
    BY DEF Wrapped, Outermost, Wrapper, Link
  <2> QED
    BY <2>1 DEF Seen
<1>3. ByText({}) = "Network"
  BY DEF ByText
<1>4. ~Tells(c[1]) /\ ~Tells(c[2]) /\ (Tells(c[3]) <=> ByText(Text(e)) # "Network")
  BY <1>1, <1>2, <1>3
<1>5. SelectInSeq(c, IsRustls) = 0
  <2> DEFINE I == {i \in 1 .. Len(c) : IsRustls(c[i])}
  <2>1. I = {}
    BY <1>1
  <2> HIDE DEF I
  <2>2. (IF I # {} THEN Min(I) ELSE 0) = 0
    BY <2>1
  <2> QED
    BY <2>2 DEF SelectInSeq, I
<1>6. SelectInSeq(c, Tells) = IF ByText(Text(e)) # "Network" THEN 3 ELSE 0
  <2> DEFINE I == {i \in 1 .. Len(c) : Tells(c[i])}
  <2> HIDE DEF Tells
  <2>1. I = IF ByText(Text(e)) # "Network" THEN {3} ELSE {}
    BY <1>1, <1>4
  <2> HIDE DEF I
  <2>2. (IF I # {} THEN Min(I) ELSE 0) = IF ByText(Text(e)) # "Network" THEN 3 ELSE 0
    BY <2>1, First
  <2> USE DEF Tells
  <2> QED
    BY <2>2 DEF SelectInSeq, I
<1>7. CASE ByText(Text(e)) = "Network"
  BY <1>1, <1>5, <1>6, <1>7 DEF MapReqwestErr
<1>8. CASE ByText(Text(e)) # "Network"
  BY <1>1, <1>2, <1>5, <1>6, <1>8 DEF MapReqwestErr
<1> QED
  BY <1>7, <1>8

\* A chain of a reqwest error and one that says nothing: the time-out decides, by any
\* way.
LEMMA SilentIsTold ==
    ASSUME NEW timedOut \in BOOLEAN, NEW url,
           NEW c, c = <<Outermost(timedOut, url), Wrapper({})>>
    PROVE  LET fault == IF timedOut THEN "Timeout" ELSE "Network"
           IN MapReqwestErr(c) = fault /\ ClassifyErrChain(Boxed(c)) = fault /\ MapMidBodyErr(c) = fault
<1> DEFINE b == Boxed(c)
           Decides(link) == IsRustls(link) \/ (link.as = "reqwest" /\ link.timedOut)
           Tells(link) == ByText(Seen(link, Head(c).url)) # "Network"
<1>1. /\ Len(c) = 2 /\ ~IsRustls(c[1]) /\ ~IsRustls(c[2])
      /\ Head(c).timedOut = timedOut /\ Head(c).url = url
  BY DEF Outermost, Wrapper, Link, IsRustls
<1>2. Len(b) = 3 /\ b[1] = Wrapper({}) /\ b[2] = c[1] /\ b[3] = c[2]
  <2> DEFINE w == Wrapper({})
             S == {w, c[1], c[2]}
  <2>1. c \in Seq(S) /\ w \in S /\ Len(c) = 2
    OBVIOUS
  <2> HIDE DEF w, S
  <2>2. Leads(w, c, <<w>> \o c)
    BY <2>1, Prefixed, Zenon
  <2>3. b = <<w>> \o c
    BY Zenon DEF Boxed, w
  <2> HIDE DEF b
  <2>4. Len(b) = Len(c) + 1 /\ b[1] = w /\ \A i \in 1 .. Len(c) : b[i + 1] = c[i]
    BY <2>2, <2>3, Zenon DEF Leads
  <2>5. b[1 + 1] = c[1] /\ b[2 + 1] = c[2]
    BY <2>1, <2>4
  <2> QED
    BY <2>1, <2>4, <2>5 DEF w
<1>3. Len(b) = 3 /\ ~Decides(b[1]) /\ (Decides(b[2]) <=> timedOut) /\ ~Decides(b[3]) /\ ~IsRustls(b[2])
  BY <1>2 DEF Outermost, Wrapper, Link, IsRustls
<1>4. ~Tells(c[1]) /\ ~Tells(c[2])
  <2>1. c[1].says = {} /\ c[1].url = url /\ c[2].says = {} /\ c[2].url = {}
    BY DEF Outermost, Wrapper, Link
  <2>2. Seen(c[1], url) = {} /\ Seen(c[2], url) = {}
    BY <2>1 DEF Seen
  <2>3. ByText({}) = "Network"
    BY DEF ByText
  <2> QED
    BY <1>1, <2>2, <2>3
<1> HIDE DEF b
<1>5. SelectInSeq(c, IsRustls) = 0
  <2> DEFINE I == {i \in 1 .. Len(c) : IsRustls(c[i])}
  <2>1. I = {}
    BY <1>1
  <2> HIDE DEF I
  <2>2. (IF I # {} THEN Min(I) ELSE 0) = 0
    BY <2>1
  <2> QED
    BY <2>2 DEF SelectInSeq, I
<1>6. SelectInSeq(c, Tells) = 0
  <2> DEFINE I == {i \in 1 .. Len(c) : Tells(c[i])}
  <2> HIDE DEF Tells
  <2>1. I = {}
    BY <1>1, <1>4
  <2> HIDE DEF I
  <2>2. (IF I # {} THEN Min(I) ELSE 0) = 0
    BY <2>1
  <2> USE DEF Tells
  <2> QED
    BY <2>2 DEF SelectInSeq, I
<1>7. MapReqwestErr(c) = IF timedOut THEN "Timeout" ELSE "Network"
  BY <1>1, <1>5, <1>6 DEF MapReqwestErr
<1>8. SelectInSeq(b, Decides) = IF timedOut THEN 2 ELSE 0
  <2> DEFINE I == {i \in 1 .. Len(b) : Decides(b[i])}
  <2> HIDE DEF Decides
  <2>1. I = IF timedOut THEN {2} ELSE {}
    BY <1>3
  <2> HIDE DEF I
  <2>2. (IF I # {} THEN Min(I) ELSE 0) = IF timedOut THEN 2 ELSE 0
    BY <2>1, First
  <2> USE DEF Decides
  <2> QED
    BY <2>2 DEF SelectInSeq, I
<1>9. ClassifyErrChain(b) = IF timedOut THEN "Timeout" ELSE "Network"
  BY <1>3, <1>8 DEF ClassifyErrChain
<1>10. MapMidBodyErr(c) = IF timedOut THEN "Timeout" ELSE "Network"
  BY <1>1 DEF MapMidBodyErr
<1> QED
  BY <1>7, <1>9, <1>10 DEF b

\* What the last handshake ended with: the error of the platform's verdict, the one a
\* pin gives, or none.
ShakeInv ==
    shake # Never =>
        \/ Accepted(shake)
        \/ shake.verdict \in Verdicts \ {NoRustls} /\ shake.error = shake.verdict
        \/ shake.verdict = NoRustls /\ shake.error = Rustls("General", TRUE)

LEMMA ShakeInvariance == Spec => []ShakeInv
<1>1. Init => ShakeInv
  BY DEF Init, ShakeInv
<1>2. ShakeInv /\ [Next]_vars => ShakeInv'
  <2> SUFFICES ASSUME ShakeInv, [Next]_vars PROVE ShakeInv'
    OBVIOUS
  <2>1. CASE Handshake
    <3>1. PICK sni \in Names, chain \in Chains, verdict \in Verdicts :
             shake' = [sni |-> sni, chain |-> chain, verdict |-> verdict, on |-> today,
                       error |-> Verify(domains, sni, chain, verdict, now)]
      BY <2>1 DEF Handshake
    <3>2. shake'.verdict = verdict /\ shake'.error = Verify(domains, sni, chain, verdict, now)
      BY <3>1
    <3> QED
      BY <3>2 DEF ShakeInv, Accepted, Verify
  <2>2. CASE UNCHANGED shake
    BY <2>2 DEF ShakeInv, Accepted
  <2> QED
    BY <2>1, <2>2 DEF Next, Construct, Tick, vars
<1> QED
  BY <1>1, <1>2, PTL DEF Spec

\* Each error is classified as its cause, and by its text too where that is not Tls.
LEMMA CausesDiffer ==
    ASSUME ShakeInv, shake # Never, ~Accepted(shake)
    PROVE  /\ ClassifyRustls(shake.error) = Cause(shake)
           /\ Cause(shake) # "Tls" => ByText(Text(shake.error)) = Cause(shake)
<1>1. CASE shake.verdict = NoRustls
  <2>1. shake.error.variant = "General" /\ shake.error.marked = TRUE
    BY <1>1 DEF ShakeInv, Rustls
  <2>2. Cause(shake) = "PinningFailure"
    BY <1>1 DEF Cause, NoRustls
  <2>3. ClassifyRustls(shake.error) = "PinningFailure" /\ "pinning failure" \in Text(shake.error)
    BY <2>1 DEF ClassifyRustls, Text
  <2> QED
    BY <2>2, <2>3 DEF ByText
<1>2. CASE shake.verdict = Rustls("InvalidCertificate", FALSE)
  <2>1. /\ shake.verdict # NoRustls /\ shake.verdict.variant = "InvalidCertificate"
        /\ shake.verdict.marked = FALSE
    BY <1>2 DEF Rustls, NoRustls
  <2>2. shake.error = shake.verdict
    BY <2>1 DEF ShakeInv
  <2> QED
    BY <2>1, <2>2 DEF Cause, ClassifyRustls, ByText, Text
<1>3. CASE shake.verdict = Rustls("General", FALSE)
  <2>1. /\ shake.verdict # NoRustls /\ shake.verdict.variant = "General"
        /\ shake.verdict.marked = FALSE
    BY <1>3 DEF Rustls, NoRustls
  <2>2. shake.error = shake.verdict
    BY <2>1 DEF ShakeInv
  <2> QED
    BY <2>1, <2>2 DEF Cause, ClassifyRustls
<1> QED
  BY <1>1, <1>2, <1>3 DEF ShakeInv, Verdicts

-----------------------------------------------------------------------------
(* The theorems.                                                           *)

\* The state of a client keeps its types; its clock stands at a second of a day.
THEOREM TypeCorrect == Spec => []TypeOK
<1>1. PinInv => TypeOK
  <2> SUFFICES ASSUME PinInv PROVE TypeOK
    OBVIOUS
  <2>1. \A i \in DOMAIN domains : domains[i].expires = Never \/ domains[i].expires \in Nat
    <3>1. CASE built = "yes"
      BY <3>1, ExpiryTyped
    <3>2. CASE built # "yes"
      BY <3>2 DEF PinInv, BuiltInv
    <3> QED
      BY <3>1, <3>2
  <2> QED
    BY <2>1 DEF TypeOK, PinInv, BuiltInv, ClockInv
<1> QED
  BY <1>1, PinInvariance, PTL

\* A client is built exactly when nothing is wrong with any entry, for any config
\* (pinning.rs:209-279).
THEOREM ConfigsChecked == Spec => []ConfigChecked
<1>1. PinInv => ConfigChecked
  BY DecodesUnlessFlawed DEF PinInv, BuiltInv, ConfigChecked
<1> QED
  BY <1>1, PinInvariance, PTL

\* A name whose pins have lapsed stays without, for any names and however long the
\* program runs (pinning.rs:79-86, 104-118).
THEOREM LapseForGood == Spec => PinsLapseForGood
<1>1. PinInv /\ [Next]_vars =>
         [\A sni \in Names :
            built = "yes" /\ PinsFor(domains, Lowered(sni), now) = {}
            => PinsFor(domains', Lowered(sni), now') = {}]_vars
  <2> SUFFICES ASSUME PinInv, Next, NEW sni \in Names, built = "yes",
                      PinsFor(domains, Lowered(sni), now) = {}
               PROVE  PinsFor(domains', Lowered(sni), now') = {}
    OBVIOUS
  <2> DEFINE name == Lowered(sni)
  <2>1. domains' = domains /\ now \in Nat /\ now' \in Nat /\ now' >= now
    BY DEF Next, Construct, Tick, Handshake, PinInv, ClockInv
  <2>2. \A i \in DOMAIN domains : IsExpired(domains[i], now) => IsExpired(domains[i], now')
    BY <2>1, ExpiryTyped DEF IsExpired
  <2>3. PinsFor(domains, name, now') \subseteq PinsFor(domains, name, now)
    BY <2>2 DEF PinsFor
  <2> QED
    BY <2>1, <2>3
<1> QED
  BY <1>1, PinInvariance, PTL DEF Spec, PinsLapseForGood

\* Pins hold, for any config, names, chains and start: a host is reached exactly as
\* the entries say whose date is not yet, by the calendar (pinning.rs:11-32, 68-138,
\* 168-207).
THEOREM PinsAreHeld == Spec => []PinsHold
<1>1. Init => PinsHold
  BY DEF Init, PinsHold
<1>2. PinInv /\ DateInv /\ PinsHold /\ [Next]_vars => PinsHold'
  <2> SUFFICES ASSUME PinInv, DateInv, PinsHold, [Next]_vars PROVE PinsHold'
    OBVIOUS
  <2>1. CASE Handshake
    <3>1. PICK sni \in Names, chain \in Chains, verdict \in Verdicts :
             shake' = [sni |-> sni, chain |-> chain, verdict |-> verdict, on |-> today,
                       error |-> Verify(domains, sni, chain, verdict, now)]
      BY <2>1 DEF Handshake
    <3>2. built = "yes" /\ config' = config
      BY <2>1 DEF Handshake
    <3>3. Verify(domains, sni, chain, verdict, now) = NoRustls
          <=> verdict = NoRustls /\ (InForce(sni, today) # {} => Satisfies(chain, sni, today))
      BY <3>2, ExpiryByDate, VerifyHolds
    <3>4. /\ shake'.sni = sni /\ shake'.chain = chain /\ shake'.verdict = verdict
          /\ shake'.on = today /\ shake'.error = Verify(domains, sni, chain, verdict, now)
      BY <3>1
    <3> QED
      BY <3>2, <3>3, <3>4 DEF PinsHold, Accepted, InForce, Satisfies
  <2>2. CASE UNCHANGED <<shake, config>>
    BY <2>2 DEF PinsHold, Accepted, InForce, Satisfies
  <2> QED
    BY <2>1, <2>2 DEF Next, Construct, Tick, vars
<1> QED
  BY <1>1, <1>2, PinInvariance, DateInvariance, PTL DEF Spec

\* Refused handshakes are told as what they were on the plain backend, and those whose
\* error is a source of the chain by either walk; a time-out and a lost connection as
\* such on both: for any config, names, chains and clock (client.rs:630-717, tls.rs).
THEOREM CausesTold == Spec => []CausesAreTold
<1>1. ShakeInv => CausesAreTold
  <2> SUFFICES ASSUME ShakeInv, shake # Never, ~Accepted(shake) PROVE CausesAreTold
    BY DEF CausesAreTold
  <2> DEFINE e == shake.error
             cause == Cause(shake)
             Faulted(chain) ==
                 LET fault == IF chain[1].timedOut THEN "Timeout" ELSE "Network"
                 IN /\ MapReqwestErr(chain) = fault
                    /\ MapMiddlewareErr(TRUE, Boxed(chain)) = fault
                    /\ MapMidBodyErr(chain) = fault
                    /\ MapError[fault] # "serverCertificateUntrusted"
  <2>1. ClassifyRustls(e) = cause /\ (cause # "Tls" => ByText(Text(e)) = cause)
    BY CausesDiffer
  <2>2. cause # "Tls" <=> MapError[cause] = "serverCertificateUntrusted"
    <3>1. cause \in {"PinningFailure", "TrustVerification", "Tls"}
      BY DEF Cause
    <3> HIDE DEF cause
    <3> QED
      BY <3>1 DEF MapError
  <2> HIDE DEF cause
  <2>3. ASSUME NEW url \in Urls
        PROVE  /\ MapReqwestErr(Typed(e, url)) = cause
               /\ MapMiddlewareErr(TRUE, Boxed(Typed(e, url))) = cause
    BY <2>1, TypedIsTold DEF MapMiddlewareErr
  <2>4. ASSUME NEW url \in Urls, cause # "Tls"
        PROVE  /\ MapReqwestErr(Wrapped(e, url)) = cause
               /\ MapMiddlewareErr(FALSE, Wrapped(e, url)) = cause
    BY <2>1, <2>4, WrappedIsTold DEF MapMiddlewareErr
  <2>5. ASSUME NEW url \in Urls PROVE Faulted(TimedOut(url))
    <3>1. TimedOut(url)[1].timedOut = TRUE
      BY DEF TimedOut, Outermost, Link
    <3>2. /\ MapReqwestErr(TimedOut(url)) = "Timeout"
          /\ ClassifyErrChain(Boxed(TimedOut(url))) = "Timeout"
          /\ MapMidBodyErr(TimedOut(url)) = "Timeout"
      BY SilentIsTold DEF TimedOut
    <3> QED
      BY <3>1, <3>2 DEF MapMiddlewareErr, MapError
  <2>6. ASSUME NEW url \in Urls PROVE Faulted(Reset(url))
    <3>1. Reset(url)[1].timedOut = FALSE
      BY DEF Reset, Outermost, Link
    <3>2. /\ MapReqwestErr(Reset(url)) = "Network"
          /\ ClassifyErrChain(Boxed(Reset(url))) = "Network"
          /\ MapMidBodyErr(Reset(url)) = "Network"
      BY SilentIsTold DEF Reset
    <3> QED
      BY <3>1, <3>2 DEF MapMiddlewareErr, MapError
  <2> HIDE DEF Faulted
  <2>7. ASSUME NEW url \in Urls PROVE \A chain \in {TimedOut(url), Reset(url)} : Faulted(chain)
    BY <2>5, <2>6
  <2> USE DEF cause, Faulted
  <2> QED
    BY <2>2, <2>3, <2>4, <2>7, Zenon DEF CausesAreTold
<1> QED
  BY <1>1, ShakeInvariance, PTL
=============================================================================
