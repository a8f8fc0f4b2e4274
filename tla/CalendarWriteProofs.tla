------------------------- MODULE CalendarWriteProofs -------------------------
(***************************************************************************)
(* Proofs about the two modules of calendar_write.                         *)
(*                                                                         *)
(* Rescheduling, for every set of days and patterns: weekly, monthly and   *)
(* yearly patterns move exactly, the patterns same_pattern equates         *)
(* schedule the same days, and the range of a series begins on its first   *)
(* day.  Monthly and yearly patterns rest on facts of the Gregorian        *)
(* calendar: each day has its year and month (YearIsFound, MonthIsFound),  *)
(* so a few days on within a month the date is a few days on (InMonth).    *)
(*                                                                         *)
(* EventUpdate, for any zones, patterns, occurrences and number of edits:  *)
(* its inductive invariant, from which its safety properties follow.       *)
(***************************************************************************)
EXTENDS Rescheduling, EventUpdate, TLAPS

USE DEF ReschedulingAssumption

-----------------------------------------------------------------------------
(* Arithmetic of weeks.                                                    *)

LEMMA WeekdayShift ==
  ASSUME NEW d \in Int, NEW delta \in Int, NEW w \in 0..6
  PROVE  (d + delta) % 7 = (w + delta) % 7 <=> d % 7 = w
  BY SMTT(30)

\* A boundary that moves with the day leaves the number of weeks between two
\* days as it was.
LEMMA WeekShift ==
  ASSUME NEW d \in Int, NEW s \in Int, NEW delta \in Int, NEW b \in 0..6
  PROVE  Week(d + delta, (b + delta) % 7) - Week(s + delta, (b + delta) % 7)
           = Week(d, b) - Week(s, b)
<1> DEFINE k == (b + delta) \div 7
<1>1. k \in Int /\ (b + delta) % 7 = b + delta - 7 * k
  BY SMTT(30)
<1>2. \A x \in Int : Week(x + delta, (b + delta) % 7) = Week(x, b) + k
  <2> TAKE x \in Int
  <2>1. (x + delta) - ((b + delta) % 7) = (x - b) + 7 * k
    BY <1>1
  <2>2. ((x - b) + 7 * k) \div 7 = (x - b) \div 7 + k
    BY <1>1, SMTT(30)
  <2> QED BY <2>1, <2>2 DEF Week
<1>3. Week(d, b) \in Int /\ Week(s, b) \in Int
  BY DEF Week
<1> QED BY <1>1, <1>2, <1>3

LEMMA IntervalType ==
  ASSUME NEW p \in Pattern
  PROVE  /\ Interval(p) \in Nat /\ Interval(p) > 0
         /\ FirstDay(p) \in 0..6
         /\ WeekBoundary(p) \in (0..6) \cup {Omitted}
         /\ WeekBoundary(p) = Omitted <=> Interval(p) = 1
  BY DEF Pattern, Interval, FirstDay, WeekBoundary, Sunday, Omitted

LEMMA ModuloOne ==
  ASSUME NEW x \in Int
  PROVE  x % 1 = 0
  BY SMTT(30)

-----------------------------------------------------------------------------
(* What Graph fills in, and what same_pattern leaves out, schedules nothing. *)

LEMMA StoredOccurs ==
  ASSUME NEW p \in Pattern, NEW s \in Int, NEW d \in Int
  PROVE  /\ Stored(p) \in Pattern
         /\ Stored(p).first # Omitted /\ Stored(p).interval > 0
         /\ Occurs(Stored(p), s, d) <=> Occurs(p, s, d)
<1>1. /\ Stored(p) \in Pattern
      /\ Stored(p).first = FirstDay(p) /\ Stored(p).interval = Interval(p)
      /\ Stored(p).kind = p.kind /\ Stored(p).days = p.days
      /\ Stored(p).dom = p.dom /\ Stored(p).month = p.month /\ Stored(p).index = p.index
  BY IntervalType DEF Stored, Pattern
<1>2. FirstDay(Stored(p)) = FirstDay(p) /\ Interval(Stored(p)) = Interval(p)
  BY <1>1, IntervalType DEF FirstDay, Interval, Omitted
<1>3. Occurs(Stored(p), s, d) <=> Occurs(p, s, d)
  BY <1>1, <1>2 DEF Occurs
<1> QED BY <1>1, <1>3, IntervalType DEF Omitted

\* Weeks that are counted one by one need no boundary.
LEMMA WeeklyOccurs ==
  ASSUME NEW p \in Pattern, p.kind = "weekly", NEW s \in Int, NEW d \in Int
  PROVE  Occurs(p, s, d) <=>
           /\ d >= s
           /\ Weekday(d) \in p.days
           /\ WeekBoundary(p) # Omitted =>
                (Week(d, WeekBoundary(p)) - Week(s, WeekBoundary(p))) % Interval(p) = 0
<1>1. CASE WeekBoundary(p) = Omitted
  <2>1. Interval(p) = 1 /\ FirstDay(p) \in 0..6
    BY <1>1, IntervalType
  <2>2. Week(d, FirstDay(p)) - Week(s, FirstDay(p)) \in Int
    BY <2>1 DEF Week
  <2>3. (Week(d, FirstDay(p)) - Week(s, FirstDay(p))) % Interval(p) = 0
    BY <2>1, <2>2, ModuloOne
  <2> QED BY <1>1, <2>3 DEF Occurs
<1>2. CASE WeekBoundary(p) # Omitted
  <2>1. WeekBoundary(p) = FirstDay(p)
    BY <1>2 DEF WeekBoundary
  <2> QED BY <1>2, <2>1 DEF Occurs
<1> QED BY <1>1, <1>2

\* same_pattern: "Whether two Graph patterns schedule the same days."
THEOREM SamePatternSameDays ==
  ASSUME NEW p \in Pattern, NEW q \in Pattern, SamePattern(p, q),
         NEW s \in Int, NEW d \in Int
  PROVE  Occurs(p, s, d) <=> Occurs(q, s, d)
<1>1. CASE p.kind = "weekly"
  BY <1>1, WeeklyOccurs DEF SamePattern
<1>2. CASE p.kind # "weekly"
  BY <1>2 DEF SamePattern, Occurs, Pattern, Kind
<1> QED BY <1>1, <1>2

-----------------------------------------------------------------------------
(***************************************************************************)
(* The calendar.  Date finds the year of a day by divisions that are exact *)
(* for the lengths of centuries and leap years (YearIsFound), and every    *)
(* day is day doy of a year, 100 * c + 4 * k + r in its era (DayHasDate).  *)
(* So a month has its days 1 to 28 one after another (InMonth), and days   *)
(* of one month are as far apart as their numbers (OfOneMonth).            *)
(***************************************************************************)

\* Divisions by the lengths of the calendar's cycles, from their bounds.
LEMMA ByEra == \A a, q \in Int : 0 <= a - 146097 * q /\ a - 146097 * q < 146097
                 => a \div 146097 = q /\ a % 146097 = a - 146097 * q
  BY SMT

LEMMA ByFullEra == \A a, q \in Int : 0 <= a - 146096 * q /\ a - 146096 * q < 146096 => a \div 146096 = q
  BY SMT

LEMMA ByCentury == \A a, q \in Int : 0 <= a - 36524 * q /\ a - 36524 * q < 36524 => a \div 36524 = q
  BY SMT

LEMMA ByFourYears == \A a, q \in Int : 0 <= a - 1460 * q /\ a - 1460 * q < 1460 => a \div 1460 = q
  BY SMT

LEMMA ByYear == \A a, q \in Int : 0 <= a - 365 * q /\ a - 365 * q < 365 => a \div 365 = q
  BY SMT

LEMMA ByHundred == \A a, q \in Int : 0 <= a - 100 * q /\ a - 100 * q < 100 => a \div 100 = q
  BY SMT

LEMMA ByFour == \A a, q \in Int : 0 <= a - 4 * q /\ a - 4 * q < 4 => a \div 4 = q
  BY SMT

\* The days of a year, from 1 March, before its month m.
Months(m) == (153 * m + 2) \div 5

\* Day doy of the year 100 * c + 4 * k + r of an era of 400 years.
IsDay(c, k, r, doy) ==
  /\ c \in 0..3 /\ k \in 0..24 /\ r \in 0..3 /\ doy \in 0..365
  /\ doy = 365 => r = 3 /\ (k = 24 => c = 3)

DayOfEra(c, k, r, doy) == 36524 * c + 1461 * k + 365 * r + doy

\* As Date finds it.
YearOfEra(doe) == (doe - doe \div 1460 + doe \div 36524 - doe \div 146096) \div 365

\* Date finds the year, and the day in it, from the day of the era.
LEMMA YearIsFound ==
  ASSUME NEW c, NEW k, NEW r, NEW doy, IsDay(c, k, r, doy)
  PROVE  LET doe == DayOfEra(c, k, r, doy)
             yoe == YearOfEra(doe) IN
         /\ doe \in Int /\ 0 <= doe /\ doe <= 146096
         /\ yoe = 100 * c + 4 * k + r
         /\ doe - (365 * yoe + yoe \div 4 - yoe \div 100) = doy
<1> DEFINE doe == DayOfEra(c, k, r, doy)
           y   == 100 * c + 4 * k + r
           e   == IF 24 * c + k + 365 * r + doy >= 1460 THEN 1 ELSE 0
           f   == IF doe = 146096 THEN 1 ELSE 0
<1>1. /\ c \in Int /\ 0 <= c /\ c <= 3 /\ k \in Int /\ 0 <= k /\ k <= 24
      /\ r \in Int /\ 0 <= r /\ r <= 3 /\ doy \in Int /\ 0 <= doy /\ doy <= 365
      /\ (doy = 365 => r = 3 /\ (k = 24 => c = 3))
  BY DEF IsDay
<1>2. doe = 36524 * c + 1461 * k + 365 * r + doy /\ doe \in Int /\ 0 <= doe /\ doe <= 146096
  BY <1>1 DEF DayOfEra
<1>3. /\ y = 100 * c + 4 * k + r /\ y \in Int
      /\ (e = 1 /\ 24 * c + k + 365 * r + doy >= 1460) \/ (e = 0 /\ 24 * c + k + 365 * r + doy < 1460)
      /\ (f = 1 /\ doe = 146096) \/ (f = 0 /\ doe # 146096)
  BY <1>1
<1> HIDE DEF doe, y, e, f
<1>4. e \in Int /\ f \in Int
  BY <1>3
<1>5. doe \div 1460 = 25 * c + k + e
  <2> DEFINE q == 25 * c + k + e
  <2>1. doe \in Int /\ q \in Int /\ 0 <= doe - 1460 * q /\ doe - 1460 * q < 1460
    BY <1>1, <1>2, <1>3
  <2> HIDE DEF q
  <2>2. doe \div 1460 = q
    BY <2>1, ByFourYears
  <2> QED BY <2>2 DEF q
<1>6. doe \div 36524 = c + f
  <2> DEFINE q == c + f
  <2>1. doe \in Int /\ q \in Int /\ 0 <= doe - 36524 * q /\ doe - 36524 * q < 36524
    BY <1>1, <1>2, <1>3
  <2> HIDE DEF q
  <2>2. doe \div 36524 = q
    BY <2>1, ByCentury
  <2> QED BY <2>2 DEF q
<1>7. doe \div 146096 = f
  <2> DEFINE q == f
  <2>1. doe \in Int /\ q \in Int /\ 0 <= doe - 146096 * q /\ doe - 146096 * q < 146096
    BY <1>2, <1>3
  <2> HIDE DEF q
  <2>2. doe \div 146096 = q
    BY <2>1, ByFullEra
  <2> QED BY <2>2 DEF q
<1>8. YearOfEra(doe) = y
  <2> DEFINE n == doe - (25 * c + k + e) + (c + f) - f
  <2>1. n \in Int /\ y \in Int /\ 0 <= n - 365 * y /\ n - 365 * y < 365
    BY <1>1, <1>2, <1>3
  <2>2. YearOfEra(doe) = n \div 365
    BY <1>5, <1>6, <1>7 DEF YearOfEra
  <2> HIDE DEF n
  <2>3. n \div 365 = y
    BY <2>1, ByYear
  <2> QED BY <2>2, <2>3
<1>9. y \div 4 = 25 * c + k
  <2> DEFINE q == 25 * c + k
  <2>1. y \in Int /\ q \in Int /\ 0 <= y - 4 * q /\ y - 4 * q < 4
    BY <1>1, <1>3
  <2> HIDE DEF q
  <2>2. y \div 4 = q
    BY <2>1, ByFour
  <2> QED BY <2>2 DEF q
<1>10. y \div 100 = c
  <2> DEFINE q == c
  <2>1. y \in Int /\ q \in Int /\ 0 <= y - 100 * q /\ y - 100 * q < 100
    BY <1>1, <1>3
  <2> HIDE DEF q
  <2>2. y \div 100 = q
    BY <2>1, ByHundred
  <2> QED BY <2>2 DEF q
<1>11. doe - (365 * y + (25 * c + k) - c) = doy
  BY <1>1, <1>2, <1>3
<1> SUFFICES /\ doe \in Int /\ 0 <= doe /\ doe <= 146096
             /\ YearOfEra(doe) = y
             /\ doe - (365 * YearOfEra(doe) + YearOfEra(doe) \div 4 - YearOfEra(doe) \div 100) = doy
  BY DEF doe, y
<1>12. doe \in Int /\ 0 <= doe /\ doe <= 146096
  BY <1>2
<1> QED BY <1>8, <1>9, <1>10, <1>11, <1>12

\* Every day of an era is a day of one of its years.
LEMMA DaysHaveDates ==
  ASSUME NEW doe \in Int, 0 <= doe, doe <= 146096
  PROVE  \E c, k, r, doy \in Int : IsDay(c, k, r, doy) /\ doe = DayOfEra(c, k, r, doy)
<1>1. doe \in Int /\ 0 <= doe /\ doe <= 146096
  OBVIOUS
<1>2. PICK c \in Int : 0 <= c /\ c <= 3 /\ 0 <= doe - 36524 * c
                       /\ (doe - 36524 * c < 36524 \/ (c = 3 /\ doe - 36524 * c <= 36524))
  <2>1. CASE doe < 36524
    BY <1>1, <2>1, 0 \in Int
  <2>2. CASE 36524 <= doe /\ doe < 73048
    BY <1>1, <2>2, 1 \in Int
  <2>3. CASE 73048 <= doe /\ doe < 109572
    BY <1>1, <2>3, 2 \in Int
  <2>4. CASE 109572 <= doe
    BY <1>1, <2>4, 3 \in Int
  <2> QED BY <1>1, <2>1, <2>2, <2>3, <2>4
<1> DEFINE x == doe - 36524 * c
<1>3. x \in Int /\ 0 <= x /\ (x < 36524 \/ (c = 3 /\ x <= 36524))
  BY <1>1, <1>2
<1> HIDE DEF x
<1>4. PICK k \in Int : k = x \div 1461
  BY <1>3
<1>5. 0 <= k /\ k <= 24 /\ 0 <= x - 1461 * k /\ x - 1461 * k < 1461
  BY <1>3, <1>4
<1> DEFINE y == x - 1461 * k
<1>6. y \in Int /\ 0 <= y /\ y < 1461 /\ (k = 24 /\ y = 1460 => c = 3)
  BY <1>3, <1>4, <1>5
<1> HIDE DEF y
<1>7. PICK r \in Int : 0 <= r /\ r <= 3 /\ 0 <= y - 365 * r /\ (y - 365 * r < 365 \/ (r = 3 /\ y - 365 * r = 365))
  <2>1. CASE y < 365
    BY <1>6, <2>1, 0 \in Int
  <2>2. CASE 365 <= y /\ y < 730
    BY <1>6, <2>2, 1 \in Int
  <2>3. CASE 730 <= y /\ y < 1095
    BY <1>6, <2>3, 2 \in Int
  <2>4. CASE 1095 <= y
    BY <1>6, <2>4, 3 \in Int
  <2> QED BY <1>6, <2>1, <2>2, <2>3, <2>4
<1> DEFINE doy == y - 365 * r
<1>8. IsDay(c, k, r, doy)
  BY <1>2, <1>5, <1>6, <1>7 DEF IsDay
<1>9. doe = DayOfEra(c, k, r, doy)
  BY <1>1, <1>2, <1>4, <1>7 DEF DayOfEra, x, y
<1>10. doy \in Int
  BY <1>6, <1>7
<1> HIDE DEF doy
<1> QED BY <1>2, <1>4, <1>7, <1>8, <1>9, <1>10

LEMMA ByMonth == \A a, q \in Int : 0 <= a - 153 * q /\ a - 153 * q < 153 => a \div 153 = q
  BY SMT

MonthOfYear(doy) == (5 * doy + 2) \div 153

LEMMA MonthBounds ==
  ASSUME NEW m \in Int, 0 <= m, m <= 11
  PROVE  LET s == Months(m) IN
         /\ s \in Int /\ 0 <= s /\ s <= 337
         /\ 153 * m - 2 <= 5 * s /\ 5 * s <= 153 * m + 2
  BY SMT DEF Months

\* A day of the year is one of the 31 first of its month, and the month has the
\* days 1 to 28.
LEMMA MonthIsFound ==
  ASSUME NEW doy \in Int, 0 <= doy, doy <= 365
  PROVE  LET m == MonthOfYear(doy) IN
         /\ m \in Int /\ 0 <= m /\ m <= 11
         /\ Months(m) \in Int /\ 0 <= doy - Months(m) /\ doy - Months(m) <= 30
         /\ \A b \in 1..28 : LET e == Months(m) + b - 1 IN
              e \in Int /\ 0 <= e /\ e <= 364 /\ MonthOfYear(e) = m
<1> DEFINE m == MonthOfYear(doy)
<1>1. m \in Int /\ 0 <= m /\ m <= 11 /\ 153 * m <= 5 * doy + 2 /\ 5 * doy + 2 < 153 * m + 153
  BY SMT DEF MonthOfYear
<1> HIDE DEF m
<1> DEFINE s == Months(m)
<1>2. /\ s \in Int /\ 0 <= s /\ s <= 337
      /\ 153 * m - 2 <= 5 * s /\ 5 * s <= 153 * m + 2
  BY <1>1, MonthBounds
<1> HIDE DEF s
<1>3. 0 <= doy - s /\ doy - s <= 30
  BY <1>1, <1>2
<1>4. ASSUME NEW b \in 1..28 PROVE LET e == s + b - 1 IN
        e \in Int /\ 0 <= e /\ e <= 364 /\ MonthOfYear(e) = m
  <2> DEFINE e == s + b - 1
             a == 5 * e + 2
  <2>1. e \in Int /\ 0 <= e /\ e <= 364
    BY <1>2
  <2>2. a \in Int /\ m \in Int /\ 0 <= a - 153 * m /\ a - 153 * m < 153
    BY <1>1, <1>2
  <2> HIDE DEF a
  <2>3. a \div 153 = m
    BY <2>2, ByMonth
  <2> QED BY <2>1, <2>3 DEF MonthOfYear, a
<1> QED BY <1>1, <1>2, <1>3, <1>4 DEF m, s

\* Date in terms of the parts.
DateIn(era, doe) ==
  LET yoe == YearOfEra(doe)
      doy == doe - (365 * yoe + yoe \div 4 - yoe \div 100)
      m   == MonthOfYear(doy)
  IN [year  |-> 400 * era + yoe + (IF m < 10 THEN 0 ELSE 1),
      month |-> IF m < 10 THEN m + 3 ELSE m - 9,
      dom   |-> doy - Months(m) + 1]

LEMMA DateParts ==
  ASSUME NEW d
  PROVE  Date(d) = DateIn((d + 719472) \div 146097, (d + 719472) % 146097)
  BY SMTT(60) DEF Date, DateIn, YearOfEra, MonthOfYear, Months

DateOf(year, m, dom) ==
  [year  |-> year + (IF m < 10 THEN 0 ELSE 1),
   month |-> IF m < 10 THEN m + 3 ELSE m - 9,
   dom   |-> dom]

\* The date of a day is that of its year and its day in it.
LEMMA DateOfDay ==
  ASSUME NEW d \in Int, NEW era \in Int, NEW c, NEW k, NEW r, NEW doy, IsDay(c, k, r, doy),
         d + 719472 = 146097 * era + DayOfEra(c, k, r, doy)
  PROVE  LET m == MonthOfYear(doy) IN
         Date(d) = DateOf(400 * era + (100 * c + 4 * k + r), m, doy - Months(m) + 1)
<1> DEFINE doe == DayOfEra(c, k, r, doy)
           yoe == YearOfEra(doe)
           y   == 100 * c + 4 * k + r
           z   == d + 719472
<1>1. /\ doe \in Int /\ 0 <= doe /\ doe <= 146096
      /\ yoe = y
      /\ doe - (365 * yoe + yoe \div 4 - yoe \div 100) = doy
  BY YearIsFound, SMT
<1>2. z \in Int /\ z = 146097 * era + doe
  BY SMT
<1> HIDE DEF doe, y, z
<1>3. z \div 146097 = era /\ z % 146097 = doe
  <2>1. z \in Int /\ 0 <= z - 146097 * era /\ z - 146097 * era < 146097
    BY <1>1, <1>2, SMT
  <2>2. z - 146097 * era = doe
    BY <1>1, <1>2, SMT
  <2>3. z \div 146097 = era
    BY <2>1, ByEra, SMT
  <2>4. z % 146097 = z - 146097 * era
    BY <2>1, ByEra, SMT
  <2> QED BY <2>2, <2>3, <2>4, SMT
<1>4. Date(d) = DateIn(z \div 146097, z % 146097)
  BY DateParts, SMT DEF z
<1>5. DateIn(era, doe) = DateOf(400 * era + y, MonthOfYear(doy), doy - Months(MonthOfYear(doy)) + 1)
  BY <1>1, SMTT(30) DEF DateIn, DateOf
<1>6. Date(d) = DateOf(400 * era + y, MonthOfYear(doy), doy - Months(MonthOfYear(doy)) + 1)
  BY <1>3, <1>4, <1>5, SMT
<1> QED BY <1>6, SMT DEF y

\* Day d is day doy of its year, and of month m that begins on day s of it.
IsDate(d, era, c, k, r, doy, m, s) ==
  /\ IsDay(c, k, r, doy) /\ d + 719472 = 146097 * era + DayOfEra(c, k, r, doy)
  /\ m = MonthOfYear(doy) /\ 0 <= m /\ m <= 11
  /\ s = Months(m) /\ 0 <= doy - s /\ doy - s <= 30
  /\ Date(d) = DateOf(400 * era + (100 * c + 4 * k + r), m, doy - s + 1)

LEMMA DayHasDate ==
  ASSUME NEW d \in Int
  PROVE  \E era, c, k, r, doy, m, s \in Int : IsDate(d, era, c, k, r, doy, m, s)
<1> DEFINE z == d + 719472
<1>1. z \in Int
  BY SMT
<1> HIDE DEF z
<1>2. PICK era \in Int, doe \in Int : 0 <= doe /\ doe <= 146096 /\ z = 146097 * era + doe
  <2> DEFINE q == z \div 146097
             o == z - 146097 * q
  <2>1. q \in Int /\ 146097 * q <= z /\ z < 146097 * q + 146097
    BY <1>1, SMT
  <2> HIDE DEF q
  <2>2. o \in Int /\ 0 <= o /\ o <= 146096 /\ z = 146097 * q + o
    BY <1>1, <2>1, SMT
  <2> HIDE DEF o
  <2> QED BY <2>1, <2>2, SMT
<1>3. PICK c, k, r, doy \in Int : IsDay(c, k, r, doy) /\ doe = DayOfEra(c, k, r, doy)
  BY <1>2, DaysHaveDates, SMT
<1>4. d + 719472 = 146097 * era + DayOfEra(c, k, r, doy)
  BY <1>2, <1>3, SMT DEF z
<1>5. 0 <= doy /\ doy <= 365
  BY <1>3 DEF IsDay
<1> DEFINE m == MonthOfYear(doy)
           s == Months(m)
<1>6. m \in Int /\ 0 <= m /\ m <= 11 /\ s \in Int /\ 0 <= doy - s /\ doy - s <= 30
  BY <1>5, MonthIsFound, SMT
<1>7. Date(d) = DateOf(400 * era + (100 * c + 4 * k + r), m, doy - s + 1)
  BY <1>3, <1>4, DateOfDay, SMT
<1>8. m = MonthOfYear(doy) /\ s = Months(m)
  OBVIOUS
<1> HIDE DEF m, s
<1>9. IsDate(d, era, c, k, r, doy, m, s)
  BY <1>3, <1>4, <1>6, <1>7, <1>8, SMT DEF IsDate
<1> QED BY <1>6, <1>9, Zenon

\* The days that every month has.
CommonDay == 1..28

AsFar(d, e, a, b) == e - d = b - a

\* A month has the days from 1 to 28, one after another.
LEMMA InMonth ==
  ASSUME NEW d \in Int, NEW b \in CommonDay, NEW e \in Int, AsFar(d, e, Date(d).dom, b)
  PROVE  Date(e).year = Date(d).year /\ Date(e).month = Date(d).month /\ Date(e).dom = b
<1>1. PICK era, c, k, r, doy, m, s \in Int : IsDate(d, era, c, k, r, doy, m, s)
  BY DayHasDate
<1>2. /\ IsDay(c, k, r, doy) /\ d + 719472 = 146097 * era + DayOfEra(c, k, r, doy)
      /\ m = MonthOfYear(doy) /\ 0 <= m /\ m <= 11
      /\ s = Months(m) /\ 0 <= doy - s /\ doy - s <= 30
      /\ Date(d) = DateOf(400 * era + (100 * c + 4 * k + r), m, doy - s + 1)
  BY <1>1 DEF IsDate
<1> DEFINE x == s + b - 1
           y == 400 * era + (100 * c + 4 * k + r)
<1>3. x \in Int /\ 0 <= x /\ x <= 364 /\ MonthOfYear(x) = m
  <2>1. 0 <= doy /\ doy <= 365
    BY <1>2, SMT DEF IsDay
  <2>2. \A i \in 1..28 : LET o == Months(MonthOfYear(doy)) + i - 1 IN
          o \in Int /\ 0 <= o /\ o <= 364 /\ MonthOfYear(o) = MonthOfYear(doy)
    BY <2>1, MonthIsFound, Zenon
  <2>3. m = MonthOfYear(doy) /\ s = Months(MonthOfYear(doy))
    BY <1>2, SMT
  <2> QED BY <2>2, <2>3, SMT DEF CommonDay
<1>4. IsDay(c, k, r, x)
  <2>1. c \in 0..3 /\ k \in 0..24 /\ r \in 0..3
    BY <1>2 DEF IsDay
  <2>2. x \in 0..365 /\ x # 365
    BY <1>3
  <2> HIDE DEF x
  <2> QED BY <2>1, <2>2 DEF IsDay
<1>5. Date(d).dom = doy - s + 1
  BY <1>2, SMT DEF DateOf
<1>6. e + 719472 = 146097 * era + DayOfEra(c, k, r, x)
  <2>1. e = d + b - (doy - s + 1) /\ b \in Int
    BY <1>2, <1>5, SMT DEF AsFar, CommonDay
  <2>2. c \in Int /\ k \in Int /\ r \in Int /\ doy \in Int
    BY <1>2
  <2> QED BY <1>2, <2>1, <2>2, SMT DEF DayOfEra
<1>7. y \in Int /\ x - s + 1 = b
  BY <1>2, SMT DEF CommonDay
<1>8. Date(e) = DateOf(y, m, x - s + 1)
  BY <1>2, <1>3, <1>4, <1>6, DateOfDay, SMT
<1>9. Date(d) = DateOf(y, m, doy - s + 1)
  BY <1>2
<1> HIDE DEF x, y
<1>10. Date(e) = DateOf(y, m, b)
  BY <1>7, <1>8
<1> QED BY <1>9, <1>10, SMT DEF DateOf

\* Two days of one month are as far apart as their numbers in it.
LEMMA OfOneMonth ==
  ASSUME NEW d \in Int, NEW e \in Int, MonthNo(d) = MonthNo(e)
  PROVE  /\ Date(e).year = Date(d).year /\ Date(e).month = Date(d).month
         /\ e - d = Date(e).dom - Date(d).dom
<1>1. PICK era, c, k, r, doy, m, s \in Int : IsDate(d, era, c, k, r, doy, m, s)
  BY DayHasDate
<1>2. /\ IsDay(c, k, r, doy) /\ d + 719472 = 146097 * era + DayOfEra(c, k, r, doy)
      /\ m = MonthOfYear(doy) /\ 0 <= m /\ m <= 11
      /\ s = Months(m) /\ 0 <= doy - s /\ doy - s <= 30
      /\ Date(d) = DateOf(400 * era + (100 * c + 4 * k + r), m, doy - s + 1)
  BY <1>1 DEF IsDate
<1>3. PICK era2, c2, k2, r2, doy2, m2, s2 \in Int : IsDate(e, era2, c2, k2, r2, doy2, m2, s2)
  BY DayHasDate
<1>4. /\ IsDay(c2, k2, r2, doy2) /\ e + 719472 = 146097 * era2 + DayOfEra(c2, k2, r2, doy2)
      /\ m2 = MonthOfYear(doy2) /\ 0 <= m2 /\ m2 <= 11
      /\ s2 = Months(m2) /\ 0 <= doy2 - s2 /\ doy2 - s2 <= 30
      /\ Date(e) = DateOf(400 * era2 + (100 * c2 + 4 * k2 + r2), m2, doy2 - s2 + 1)
  BY <1>3 DEF IsDate
<1> DEFINE y == 400 * era + (100 * c + 4 * k + r)
           y2 == 400 * era2 + (100 * c2 + 4 * k2 + r2)
<1>5. y \in Int /\ y2 \in Int
  BY <1>2, <1>4, SMT
<1>6. Date(d) = DateOf(y, m, doy - s + 1) /\ Date(e) = DateOf(y2, m2, doy2 - s2 + 1)
  BY <1>2, <1>4
<1> HIDE DEF y, y2
<1>7. /\ Date(d).year = y + (IF m < 10 THEN 0 ELSE 1) /\ Date(d).month = (IF m < 10 THEN m + 3 ELSE m - 9)
      /\ Date(d).dom = doy - s + 1
  BY <1>6, SMT DEF DateOf
<1>8. /\ Date(e).year = y2 + (IF m2 < 10 THEN 0 ELSE 1) /\ Date(e).month = (IF m2 < 10 THEN m2 + 3 ELSE m2 - 9)
      /\ Date(e).dom = doy2 - s2 + 1
  BY <1>6, SMT DEF DateOf
<1>9. y = y2 /\ m = m2
  <2>1. 12 * Date(d).year + Date(d).month = 12 * Date(e).year + Date(e).month
    BY DEF MonthNo
  <2>2. 0 <= m /\ m <= 11 /\ 0 <= m2 /\ m2 <= 11
    BY <1>2, <1>4
  <2>3. 12 * y + m + 3 = 12 * y2 + m2 + 3
    BY <1>5, <1>7, <1>8, <2>1, <2>2, SMT
  <2> QED BY <1>5, <2>2, <2>3, SMT
<1>10. era = era2 /\ c = c2 /\ k = k2 /\ r = r2 /\ s = s2
  <2>1. /\ 0 <= c /\ c <= 3 /\ 0 <= k /\ k <= 24 /\ 0 <= r /\ r <= 3
        /\ 0 <= c2 /\ c2 <= 3 /\ 0 <= k2 /\ k2 <= 24 /\ 0 <= r2 /\ r2 <= 3
    BY <1>2, <1>4 DEF IsDay
  <2>2. 400 * era + (100 * c + 4 * k + r) = 400 * era2 + (100 * c2 + 4 * k2 + r2)
    BY <1>9 DEF y, y2
  <2>3. era = era2
    BY <2>1, <2>2, SMT
  <2>4. c = c2
    BY <2>1, <2>2, <2>3, SMT
  <2>5. k = k2 /\ r = r2
    BY <2>1, <2>2, <2>3, <2>4, SMT
  <2> QED BY <1>2, <1>4, <1>9, <2>3, <2>4, <2>5
<1>11. e - d = doy2 - doy
  <2>1. /\ d + 719472 = 146097 * era + (36524 * c + 1461 * k + 365 * r + doy)
        /\ e + 719472 = 146097 * era2 + (36524 * c2 + 1461 * k2 + 365 * r2 + doy2)
    BY <1>2, <1>4, SMT DEF DayOfEra
  <2> QED BY <1>10, <2>1, SMT
<1> QED BY <1>7, <1>8, <1>9, <1>10, <1>11, SMT

LEMMA DomBounds ==
  ASSUME NEW d \in Int
  PROVE  Date(d).dom \in Int /\ 1 <= Date(d).dom /\ Date(d).dom <= 31
<1>1. PICK era, c, k, r, doy, m, s \in Int : IsDate(d, era, c, k, r, doy, m, s)
  BY DayHasDate
<1>2. Date(d).dom = doy - s + 1 /\ 0 <= doy - s /\ doy - s <= 30
  BY <1>1, SMT DEF IsDate, DateOf
<1> QED BY <1>2, SMT

-----------------------------------------------------------------------------
(* move_pattern.                                                           *)

LEMMA DailyMoveIsExact ==
  ASSUME NEW p \in Pattern, p.kind = "daily",
         NEW old \in Int, NEW new \in Int, NEW d \in Int
  PROVE  Occurs(Moved(p, old, new), new, d + (new - old)) <=> Occurs(p, old, d)
<1>1. Moved(p, old, new) = p
  BY DEF Moved
<1>2. (d + (new - old)) - new = d - old /\ (d + (new - old) >= new <=> d >= old)
  OBVIOUS
<1> QED BY <1>1, <1>2 DEF Occurs

LEMMA ShiftedType ==
  ASSUME NEW p \in Pattern, NEW delta \in Int
  PROVE  /\ Shifted(p, delta) \in Pattern
         /\ Shifted(p, delta).kind = p.kind
         /\ Shifted(p, delta).days = {(w + delta) % 7 : w \in p.days}
         /\ Interval(Shifted(p, delta)) = Interval(p)
         /\ WeekBoundary(Shifted(p, delta)) =
              IF WeekBoundary(p) = Omitted THEN Omitted ELSE (WeekBoundary(p) + delta) % 7
<1> DEFINE first == IF WeekBoundary(p) = Omitted THEN p.first
                                                 ELSE (WeekBoundary(p) + delta) % 7
           days == {(w + delta) % 7 : w \in p.days}
<1>1. days \in SUBSET (0..6)
  <2>1. \A w \in 0..6 : (w + delta) % 7 \in 0..6
    BY SMTT(30)
  <2> QED BY <2>1 DEF Pattern
<1>2. first \in (0..6) \cup {Omitted}
  <2>1. WeekBoundary(p) # Omitted => WeekBoundary(p) \in 0..6
    BY IntervalType
  <2>2. \A w \in 0..6 : (w + delta) % 7 \in 0..6
    BY SMTT(30)
  <2> QED BY <2>1, <2>2 DEF Pattern
<1>3. Shifted(p, delta) = [p EXCEPT !.days = days, !.first = first]
  BY DEF Shifted
<1>4. /\ Shifted(p, delta) \in Pattern
      /\ Shifted(p, delta).kind = p.kind
      /\ Shifted(p, delta).days = days
      /\ Shifted(p, delta).first = first
      /\ Shifted(p, delta).interval = p.interval
  BY <1>1, <1>2, <1>3 DEF Pattern
<1>5. Interval(Shifted(p, delta)) = Interval(p)
  BY <1>4 DEF Interval
<1>6. WeekBoundary(Shifted(p, delta)) =
        IF WeekBoundary(p) = Omitted THEN Omitted ELSE (WeekBoundary(p) + delta) % 7
  <2>1. CASE WeekBoundary(p) = Omitted
    BY <1>5, <2>1, IntervalType DEF WeekBoundary, FirstDay, Omitted, Sunday
  <2>2. CASE WeekBoundary(p) # Omitted
    <3>1. first = (WeekBoundary(p) + delta) % 7 /\ WeekBoundary(p) \in 0..6
      BY <2>2, IntervalType
    <3>2. first \in 0..6
      BY <3>1, SMTT(30)
    <3>3. Interval(p) > 1
      BY <2>2, IntervalType
    <3>4. FirstDay(Shifted(p, delta)) = first
      BY <1>4, <3>2 DEF FirstDay, Omitted
    <3> QED BY <1>5, <2>2, <3>1, <3>3, <3>4, IntervalType DEF WeekBoundary
  <2> QED BY <2>1, <2>2
<1> QED BY <1>4, <1>5, <1>6

\* A weekly series moves whole, by any number of days and at any interval.
THEOREM WeeklyMoveIsExact ==
  ASSUME NEW p \in Pattern, p.kind = "weekly",
         NEW old \in Int, NEW new \in Int, NEW d \in Int
  PROVE  Occurs(Moved(p, old, new), new, d + (new - old)) <=> Occurs(p, old, d)
<1> DEFINE delta == new - old
           q == Shifted(p, delta)
<1>0. delta \in Int /\ new = old + delta
  OBVIOUS
<1>1. CASE old = new
  BY <1>1 DEF Moved
<1>2. CASE old # new
  <2>1. Moved(p, old, new) = q
    BY <1>2 DEF Moved
  <2> HIDE DEF delta
  <2>2. /\ q \in Pattern /\ q.kind = "weekly" /\ Interval(q) = Interval(p)
        /\ q.days = {(w + delta) % 7 : w \in p.days}
        /\ WeekBoundary(q) =
             IF WeekBoundary(p) = Omitted THEN Omitted ELSE (WeekBoundary(p) + delta) % 7
    BY <1>0, ShiftedType
  <2>3. d + delta >= new <=> d >= old
    BY <1>0
  <2>4. Weekday(d + delta) \in q.days <=> Weekday(d) \in p.days
    <3>1. p.days \subseteq 0..6
      BY DEF Pattern
    <3>2. \A w \in p.days : (d + delta) % 7 = (w + delta) % 7 <=> d % 7 = w
      <4> TAKE w \in p.days
      <4>1. w \in 0..6
        BY <3>1
      <4> QED BY <1>0, <4>1, WeekdayShift
    <3> QED BY <2>2, <3>2 DEF Weekday
  <2>5. WeekBoundary(p) # Omitted =>
          /\ WeekBoundary(q) # Omitted
          /\ Week(d + delta, WeekBoundary(q)) - Week(new, WeekBoundary(q))
               = Week(d, WeekBoundary(p)) - Week(old, WeekBoundary(p))
    <3>1. HAVE WeekBoundary(p) # Omitted
    <3>2. WeekBoundary(p) \in 0..6 /\ WeekBoundary(q) = (WeekBoundary(p) + delta) % 7
      BY <2>2, <3>1, IntervalType
    <3>3. WeekBoundary(q) \in 0..6
      BY <1>0, <3>2, SMTT(30)
    <3>4. Week(d + delta, WeekBoundary(q)) - Week(old + delta, WeekBoundary(q))
            = Week(d, WeekBoundary(p)) - Week(old, WeekBoundary(p))
      BY <1>0, <3>2, WeekShift
    <3> QED BY <1>0, <3>3, <3>4 DEF Omitted
  <2>6. Occurs(q, new, d + delta) <=>
           /\ d + delta >= new
           /\ Weekday(d + delta) \in q.days
           /\ WeekBoundary(q) # Omitted =>
                (Week(d + delta, WeekBoundary(q)) - Week(new, WeekBoundary(q))) % Interval(q) = 0
    <3> HIDE DEF q
    <3>1. q \in Pattern /\ q.kind = "weekly" /\ d + delta \in Int
      BY <1>0, <2>2
    <3> QED BY <3>1, WeeklyOccurs
  <2>7. Occurs(p, old, d) <=>
           /\ d >= old
           /\ Weekday(d) \in p.days
           /\ WeekBoundary(p) # Omitted =>
                (Week(d, WeekBoundary(p)) - Week(old, WeekBoundary(p))) % Interval(p) = 0
    BY WeeklyOccurs
  <2>8. Occurs(q, new, d + delta) <=> Occurs(p, old, d)
    BY <2>2, <2>3, <2>4, <2>5, <2>6, <2>7
  <2> QED BY <2>1, <2>8 DEF delta
<1> QED BY <1>1, <1>2

\* A day of the month that every month has is never taken for another.
LEMMA OnItsDay ==
  ASSUME NEW d \in Int, NEW a \in CommonDay
  PROVE  OnDayOfMonth(d, a) <=> Date(d).dom = a
<1>1. Date(d).dom \in Int /\ 1 <= Date(d).dom
  BY DomBounds
<1>2. ASSUME Date(d).dom < a PROVE ~IsLastOfMonth(d)
  <2> DEFINE b == Date(d).dom + 1
             e == d + 1
  <2>1. b \in CommonDay /\ e \in Int /\ AsFar(d, e, Date(d).dom, b)
    BY <1>1, <1>2 DEF CommonDay, AsFar
  <2> HIDE DEF b, e
  <2>2. Date(e).year = Date(d).year /\ Date(e).month = Date(d).month
    BY <2>1, InMonth
  <2> QED BY <2>2 DEF IsLastOfMonth, MonthNo, e
<1> QED BY <1>2 DEF OnDayOfMonth

\* The n-th of a month is as far from the m-th as n from m.
LEMMA DaysMoveInMonth ==
  ASSUME NEW a \in CommonDay, NEW b \in CommonDay, NEW d \in Int, NEW e \in Int,
         AsFar(d, e, a, b)
  PROVE  /\ Date(d).dom = a <=> Date(e).dom = b
         /\ Date(d).dom = a => Date(e).year = Date(d).year /\ Date(e).month = Date(d).month
<1>1. ASSUME Date(d).dom = a
      PROVE  Date(e).year = Date(d).year /\ Date(e).month = Date(d).month /\ Date(e).dom = b
  BY <1>1, InMonth
<1>2. ASSUME Date(e).dom = b PROVE Date(d).dom = a
  <2>1. AsFar(e, d, Date(e).dom, a)
    BY <1>2 DEF CommonDay, AsFar
  <2> QED BY <2>1, InMonth
<1> QED BY <1>1, <1>2

\* A monthly or yearly pattern that moves within the month moves exactly,
\* between days that every month has.
THEOREM DateMoveIsExact ==
  ASSUME NEW p \in Pattern, p.kind \in {"absoluteMonthly", "absoluteYearly"},
         NEW old \in Int, NEW new \in Int, NEW d \in Int,
         Movable(p, old, new), MonthNo(new) = MonthNo(old),
         Date(old).dom <= 28, Date(new).dom <= 28
  PROVE  Occurs(Moved(p, old, new), new, d + (new - old)) <=> Occurs(p, old, d)
<1>1. CASE old = new
  <2>1. Moved(p, old, new) = p
    BY <1>1 DEF Moved
  <2>2. d + (new - old) = d
    BY <1>1
  <2> QED BY <1>1, <2>1, <2>2
<1>2. CASE old # new
  <2> DEFINE a == Date(old).dom
             b == Date(new).dom
             e == d + (new - old)
             q == Moved(p, old, new)
  <2>1. a \in CommonDay /\ b \in CommonDay
    <3>1. /\ Date(old).dom \in Int /\ 1 <= Date(old).dom
          /\ Date(new).dom \in Int /\ 1 <= Date(new).dom
      BY DomBounds
    <3> QED BY <3>1 DEF CommonDay
  <2>2. /\ Date(new).year = Date(old).year /\ Date(new).month = Date(old).month
        /\ new - old = b - a
    BY OfOneMonth
  <2>3. e \in Int /\ e - d = b - a /\ (e >= new <=> d >= old)
    BY <2>2
  <2>4. p.dom = a /\ (p.kind = "absoluteYearly" => p.month = Date(old).month)
    BY <1>2 DEF Movable
  <2>5. /\ q.kind = p.kind /\ q.interval = p.interval /\ q.dom = b
        /\ p.kind = "absoluteYearly" => q.month = p.month
    <3>1. CASE p.kind = "absoluteMonthly"
      <4>1. q = [p EXCEPT !.dom = b]
        BY <1>2, <3>1, Zenon DEF Moved
      <4> QED BY <3>1, <4>1 DEF Pattern
    <3>2. CASE p.kind = "absoluteYearly"
      <4>1. q = [p EXCEPT !.dom = b, !.month = Date(new).month]
        BY <1>2, <3>2, Zenon DEF Moved
      <4> QED BY <2>2, <2>4, <3>2, <4>1 DEF Pattern
    <3> QED BY <3>1, <3>2
  <2> HIDE DEF a, b, e, q
  <2>6. /\ Date(d).dom = a <=> Date(e).dom = b
        /\ Date(d).dom = a => Date(e).year = Date(d).year /\ Date(e).month = Date(d).month
    <3>1. e \in Int /\ AsFar(d, e, a, b)
      BY <2>3 DEF AsFar
    <3> QED BY <2>1, <3>1, DaysMoveInMonth
  <2>7. (OnDayOfMonth(d, a) <=> Date(d).dom = a) /\ (OnDayOfMonth(e, b) <=> Date(e).dom = b)
    BY <2>1, <2>3, OnItsDay
  <2>8. Interval(q) = Interval(p)
    BY <2>5 DEF Interval
  <2>9. Occurs(q, new, e) <=> Occurs(p, old, d)
    <3>1. CASE p.kind = "absoluteMonthly"
      BY <2>2, <2>3, <2>4, <2>5, <2>6, <2>7, <2>8, <3>1 DEF Occurs, MonthNo
    <3>2. CASE p.kind = "absoluteYearly"
      BY <2>2, <2>3, <2>4, <2>5, <2>6, <2>7, <2>8, <3>2 DEF Occurs
    <3> QED BY <3>1, <3>2
  <2> QED BY <2>9 DEF e, q
<1> QED BY <1>1, <1>2

-----------------------------------------------------------------------------
(* The specification.                                                      *)

LEMMA DateType ==
  ASSUME NEW d \in Int
  PROVE  Date(d).year \in Int /\ Date(d).month \in Int /\ Date(d).dom \in Int
  BY DEF Date

LEMMA PlainType ==
  ASSUME NEW k \in Kind, NEW n \in Nat, NEW days \in SUBSET (0..6),
         NEW dom \in Int, NEW month \in Int
  PROVE  Plain(k, n, days, dom, month) \in Pattern
  BY DEF Plain, Pattern, Omitted

LEMMA ShorthandType ==
  ASSUME NEW d \in Int,
         NEW n \in {"daily", "weekdays", "weekly", "monthly", "yearly"}
  PROVE  Shorthand(n, d) \in Pattern
<1>1. Weekday(d) \in 0..6
  BY SMTT(30) DEF Weekday
<1>2. {"daily", "weekly", "absoluteMonthly", "absoluteYearly"} \subseteq Kind
  BY DEF Kind
<1>3. /\ Date(d).dom \in Int /\ Date(d).month \in Int
      /\ {} \in SUBSET (0..6) /\ 0..4 \in SUBSET (0..6) /\ {Weekday(d)} \in SUBSET (0..6)
  BY <1>1, DateType
<1>4. /\ Plain("daily", 1, {}, 0, 0) \in Pattern
      /\ Plain("weekly", 1, 0..4, 0, 0) \in Pattern
      /\ Plain("weekly", 1, {Weekday(d)}, 0, 0) \in Pattern
  BY <1>2, <1>3, PlainType
<1>5. /\ Plain("absoluteMonthly", 1, {}, Date(d).dom, 0) \in Pattern
      /\ Plain("absoluteYearly", 1, {}, Date(d).dom, Date(d).month) \in Pattern
  BY <1>2, <1>3, PlainType
<1>6. /\ Shorthand("daily", d) = Plain("daily", 1, {}, 0, 0)
      /\ Shorthand("weekdays", d) = Plain("weekly", 1, 0..4, 0, 0)
      /\ Shorthand("weekly", d) = Plain("weekly", 1, {Weekday(d)}, 0, 0)
      /\ Shorthand("monthly", d) = Plain("absoluteMonthly", 1, {}, Date(d).dom, 0)
      /\ Shorthand("yearly", d) = Plain("absoluteYearly", 1, {}, Date(d).dom, Date(d).month)
  BY DEF Shorthand
<1> QED BY <1>4, <1>5, <1>6

LEMMA MovedType ==
  ASSUME NEW p \in Pattern, NEW old \in Int, NEW new \in Int
  PROVE  Moved(p, old, new) \in Pattern /\ Moved(p, old, new).kind = p.kind
<1>1. CASE old = new \/ p.kind = "daily"
  BY <1>1 DEF Moved
<1>2. CASE old # new /\ p.kind = "weekly"
  BY <1>2, ShiftedType DEF Moved
<1>3. CASE old # new /\ p.kind \notin {"daily", "weekly"}
  <2>1. /\ [p EXCEPT !.dom = Date(new).dom] \in Pattern
        /\ [p EXCEPT !.dom = Date(new).dom, !.month = Date(new).month] \in Pattern
    BY DateType DEF Pattern
  <2>2. \/ Moved(p, old, new) = [p EXCEPT !.dom = Date(new).dom]
        \/ Moved(p, old, new) = [p EXCEPT !.dom = Date(new).dom, !.month = Date(new).month]
    BY <1>3, Zenon DEF Moved
  <2> QED BY <2>1, <2>2 DEF Pattern
<1> QED BY <1>1, <1>2, <1>3

LEMMA PayloadsType ==
  ASSUME master \in Series, NEW date \in Int, NEW p \in Payloads(date)
  PROVE  p \in Pattern
<1>1. master.pattern \in Pattern /\ [master.pattern EXCEPT !.first = Omitted] \in Pattern
  BY DEF Series, Pattern
<1>2. Asked \subseteq Pattern
  BY ReschedulingAssumption
<1>3. \A n \in {"daily", "weekdays", "weekly", "monthly", "yearly"} : Shorthand(n, date) \in Pattern
  BY ShorthandType
<1> QED BY <1>1, <1>2, <1>3 DEF Payloads

\* A start argument has dates, and the date it is read as in a zone that
\* resolves is its own.
LEMMA StartArgDates ==
  ASSUME NEW s \in StartArg, NEW zone
  PROVE  /\ s.local \in Int /\ EventStartDate(s, zone) \in Int
         /\ EventStartDate(s, "iana") = s.local
<1>1. Day \subseteq Int /\ Offset \subseteq Int
  BY ReschedulingAssumption
<1> QED BY <1>1 DEF StartArg, EventStartDate

\* What the runs check, as one predicate; it is inductive.
IInv == TypeOK /\ StartsOnItsDay /\ MovesByDays /\ MovesByDates /\ EchoAsksForSameDays

LEMMA WriteType ==
  ASSUME NEW zone \in ZoneKind, NEW start \in Int, NEW range \in Int, NEW p \in Pattern,
         Write(zone, start, range, p)
  PROVE  /\ master' \in Series
         /\ master'.pattern.first # Omitted /\ master'.pattern.interval > 0
         /\ master'.zone = zone /\ master'.start = start /\ master'.range = range
         /\ master'.pattern = Stored(p)
<1>1. Stored(p) \in Pattern /\ Stored(p).first # Omitted /\ Stored(p).interval > 0
  BY StoredOccurs, 0 \in Int
<1> QED BY <1>1 DEF Write, Series

LEMMA RefuseKeeps ==
  ASSUME IInv, Refuse
  PROVE  IInv'
<1>1. call' = [how |-> "refused"] /\ master' = master
  BY DEF Refuse
<1>2. call'.how = "refused" /\ call' \in Calls
  BY <1>1 DEF Calls
<1> QED BY <1>1, <1>2 DEF IInv, TypeOK, StartsOnItsDay, MovesByDays, MovesByDates,
            EchoAsksForSameDays

LEMMA GiveKeeps ==
  ASSUME NEW zone \in ZoneKind, NEW start \in Int, NEW range \in Int, NEW p \in Pattern,
         zone = "iana" => range = start,
         Give(zone, start, range, p)
  PROVE  IInv'
<1>1. call' = [how |-> "given"] /\ Write(zone, start, range, p)
  BY DEF Give
<1>2. call'.how = "given" /\ call' \in Calls
  BY <1>1 DEF Calls
<1>3. /\ master' \in Series
      /\ master'.pattern.first # Omitted /\ master'.pattern.interval > 0
      /\ master'.zone = zone /\ master'.start = start /\ master'.range = range
  BY <1>1, WriteType
<1> QED BY <1>2, <1>3 DEF IInv, TypeOK, StartsOnItsDay, MovesByDays, MovesByDates,
            EchoAsksForSameDays

LEMMA MoveKeeps ==
  ASSUME NEW zone \in ZoneKind, NEW start \in Int, NEW range \in Int, NEW p \in Pattern,
         zone = "iana" => range = start,
         IInv, SamePattern(p, master.pattern), Movable(p, master.range, range),
         Move(zone, start, range, p)
  PROVE  IInv'
<1> DEFINE q == Moved(p, master.range, range)
<1>1. master \in Series /\ master.pattern \in Pattern /\ master.range \in Int
  BY DEF IInv, TypeOK, Series
<1>2. /\ call' = [how |-> "moved", asked |-> p, before |-> master]
      /\ Write(zone, start, range, q)
  BY DEF Move
<1>3. call' \in Calls
  BY <1>1, <1>2 DEF Calls
<1>4. q \in Pattern /\ q.kind = p.kind
  BY <1>1, MovedType
<1> HIDE DEF q
<1>5. /\ master' \in Series
      /\ master'.pattern.first # Omitted /\ master'.pattern.interval > 0
      /\ master'.zone = zone /\ master'.start = start /\ master'.range = range
      /\ master'.pattern = Stored(q)
  BY <1>2, <1>4, WriteType
<1>6. call'.before = master /\ call'.asked = p
  BY <1>2
<1>7. Stored(q).kind = p.kind
  BY <1>4 DEF Stored, Pattern
<1>8. Window \subseteq Int
  BY ReschedulingAssumption
<1>9. EchoAsksForSameDays'
  <2>1. \A d \in Window : Occurs(p, master.range, d) <=> Occurs(master.pattern, master.range, d)
    BY <1>1, <1>8, SamePatternSameDays
  <2> QED BY <1>6, <2>1 DEF EchoAsksForSameDays
<1>10. MovesByDays'
  <2>1. SUFFICES ASSUME p.kind \in {"daily", "weekly"}, NEW d \in Window
                 PROVE  Occurs(master'.pattern, master'.range, d + (master'.range - master.range))
                          <=> Occurs(master.pattern, master.range, d)
    BY <1>5, <1>6, <1>7 DEF MovesByDays, MovedExactly, Delta
  <2>2. d \in Int /\ d + (range - master.range) \in Int
    BY <1>1, <1>8
  <2>3. Occurs(Stored(q), range, d + (range - master.range))
          <=> Occurs(q, range, d + (range - master.range))
    BY <1>4, <2>2, StoredOccurs
  <2>4. Occurs(q, range, d + (range - master.range)) <=> Occurs(p, master.range, d)
    BY <1>1, <2>1, <2>2, DailyMoveIsExact, WeeklyMoveIsExact DEF q
  <2>5. Occurs(p, master.range, d) <=> Occurs(master.pattern, master.range, d)
    BY <1>1, <2>2, SamePatternSameDays
  <2> QED BY <1>5, <2>3, <2>4, <2>5
<1>11. MovesByDates'
  <2>1. SUFFICES ASSUME p.kind \in {"absoluteMonthly", "absoluteYearly"},
                        MonthNo(range) = MonthNo(master.range),
                        Date(range).dom <= 28, Date(master.range).dom <= 28, NEW d \in Window
                 PROVE  Occurs(master'.pattern, master'.range, d + (master'.range - master.range))
                          <=> Occurs(master.pattern, master.range, d)
    BY <1>5, <1>6, <1>7 DEF MovesByDates, MovedExactly, Delta
  <2>2. d \in Int /\ d + (range - master.range) \in Int
    BY <1>1, <1>8
  <2>3. Occurs(Stored(q), range, d + (range - master.range))
          <=> Occurs(q, range, d + (range - master.range))
    BY <1>4, <2>2, StoredOccurs
  <2>4. Occurs(q, range, d + (range - master.range)) <=> Occurs(p, master.range, d)
    BY <1>1, <2>1, <2>2, DateMoveIsExact DEF q
  <2>5. Occurs(p, master.range, d) <=> Occurs(master.pattern, master.range, d)
    BY <1>1, <2>2, SamePatternSameDays
  <2> QED BY <1>5, <2>3, <2>4, <2>5
<1> QED BY <1>3, <1>5, <1>9, <1>10, <1>11 DEF IInv, TypeOK, StartsOnItsDay

LEMMA FollowNewStartKeeps ==
  ASSUME IInv, NEW s \in StartArg, NEW zone \in ZoneKind, NEW p \in Pattern,
         FollowNewStart(s, zone, p)
  PROVE  IInv'
<1> DEFINE date == EventStartDate(s, zone)
<1>1. /\ s.local \in Int /\ date \in Int
      /\ zone = "iana" => date = s.local
  BY StartArgDates
<1>2. \/ Give(zone, s.local, date, p)
      \/ /\ SamePattern(p, master.pattern) /\ Movable(p, master.range, date)
         /\ Move(zone, s.local, date, p)
      \/ Refuse
  BY DEF FollowNewStart
<1> HIDE DEF date
<1> QED BY <1>1, <1>2, GiveKeeps, MoveKeeps, RefuseKeeps

\* IInv holds initially and every call keeps it.
THEOREM InductiveInvariant == Spec => []IInv
<1>1. Init => IInv
  <2> SUFFICES ASSUME Init PROVE IInv
    OBVIOUS
  <2>1. \A p \in Asked : /\ Stored(p) \in Pattern
                         /\ Stored(p).first # Omitted /\ Stored(p).interval > 0
    BY StoredOccurs, ReschedulingAssumption, 0 \in Int
  <2>2. master \in Series /\ master.pattern.first # Omitted /\ master.pattern.interval > 0
    BY <2>1, ReschedulingAssumption DEF Init, Series
  <2>3. master.range = master.start /\ call = [how |-> "none"]
    BY DEF Init
  <2>4. call.how = "none" /\ call \in Calls
    BY <2>3 DEF Calls
  <2> QED BY <2>2, <2>3, <2>4 DEF IInv, TypeOK, StartsOnItsDay, MovesByDays, MovesByDates,
            EchoAsksForSameDays
<1>2. IInv /\ [Next]_vars => IInv'
  <2> SUFFICES ASSUME IInv, [Next]_vars PROVE IInv'
    OBVIOUS
  <2>1. /\ master \in Series /\ master.zone \in ZoneKind /\ master.start \in Int
        /\ master.pattern \in Pattern
    BY DEF IInv, TypeOK, Series
  <2>2. ASSUME NEW s \in StartArg, NEW given, CreateEvent(s, given) PROVE IInv'
    <3>1. s.local \in Int /\ EventStartDate(s, "iana") = s.local
      BY StartArgDates
    <3>2. PICK p \in Payloads(s.local) : Give("iana", s.local, s.local, p) \/ Refuse
      BY <2>2, <3>1 DEF CreateEvent
    <3>3. p \in Pattern /\ "iana" \in ZoneKind
      BY <2>1, <3>1, PayloadsType DEF ZoneKind
    <3> QED BY <3>1, <3>2, <3>3, GiveKeeps, RefuseKeeps
  <2>3. ASSUME NEW s \in StartArg, NEW zone \in ZoneKind, UpdateWithStart(s, zone) PROVE IInv'
    <3>1. PICK p \in Payloads(EventStartDate(s, zone)) : FollowNewStart(s, zone, p) \/ Refuse
      BY <2>3 DEF UpdateWithStart
    <3>2. p \in Pattern
      BY <2>1, StartArgDates, PayloadsType
    <3> QED BY <3>1, <3>2, FollowNewStartKeeps, RefuseKeeps
  <2>4. ASSUME NEW s \in StartArg, ResendRecurrence(s) PROVE IInv'
    BY <2>1, <2>4, FollowNewStartKeeps DEF ResendRecurrence, ZoneKind
  <2>5. ASSUME NEW given, UpdateWithoutStart(given) PROVE IInv'
    <3>1. PICK date \in StoredDates(master) : \E p \in Payloads(date) :
             Give(master.zone, master.start, date, p) \/ Refuse
      BY <2>5 DEF UpdateWithoutStart
    <3>2. PICK p \in Payloads(date) : Give(master.zone, master.start, date, p) \/ Refuse
      BY <3>1
    <3>3. date \in Int /\ (master.zone = "iana" => date = master.start)
      BY <2>1 DEF StoredDates
    <3>4. p \in Pattern
      BY <2>1, <3>3, PayloadsType
    <3> QED BY <2>1, <3>2, <3>3, <3>4, GiveKeeps, RefuseKeeps
  <2>6. CASE UNCHANGED vars
    BY <2>6 DEF vars, IInv, TypeOK, StartsOnItsDay, MovesByDays, MovesByDates, MovedExactly,
                Delta, EchoAsksForSameDays
  <2> QED BY <2>2, <2>3, <2>4, <2>5, <2>6 DEF Next
<1> QED BY <1>1, <1>2, PTL DEF Spec

\* Every field keeps its type, for any days, offsets and patterns.
COROLLARY TypeCorrect == Spec => []TypeOK
<1>1. IInv => TypeOK
  BY DEF IInv
<1> QED BY <1>1, InductiveInvariant, PTL

\* A daily or weekly series is moved whole, on every day compared: with Window
\* the integers, on every day there is.
COROLLARY DaysMoveExactly == Spec => []MovesByDays
<1>1. IInv => MovesByDays
  BY DEF IInv
<1> QED BY <1>1, InductiveInvariant, PTL

\* A monthly or yearly series moved within the month, between days every month
\* has, is moved whole.
COROLLARY DatesMoveExactly == Spec => []MovesByDates
<1>1. IInv => MovesByDates
  BY DEF IInv
<1> QED BY <1>1, InductiveInvariant, PTL

\* Only a pattern that schedules the series' own days is taken for its own.
COROLLARY EchoesAreEchoes == Spec => []EchoAsksForSameDays
<1>1. IInv => EchoAsksForSameDays
  BY DEF IInv
<1> QED BY <1>1, InductiveInvariant, PTL

\* In a zone that resolves the range begins on the event's own first day.
COROLLARY RangesStartOnTheirDay == Spec => []StartsOnItsDay
<1>1. IInv => StartsOnItsDay
  BY DEF IInv
<1> QED BY <1>1, InductiveInvariant, PTL
-----------------------------------------------------------------------------
(***************************************************************************)
(* EventUpdate.  The argument: a series' PATCH carries the change key of   *)
(* the first read (PinInv).  Graph takes it only while that key is the     *)
(* event's, and then nothing has happened since: the event is as it was    *)
(* read, and no occurrence has been edited since the check found none      *)
(* (FreshInv).                                                             *)
(***************************************************************************)
USE EventAssumption DEF EventAssumption, NoKey

\* In the initial states nothing has been read.
LEMMA UpdateInitInv == UpdateInit => UpdateInv
  <1> SUFFICES ASSUME UpdateInit PROVE UpdateInv
    OBVIOUS
  <1>1. event \in Event({0}) /\ changes \in IF event.series THEN SUBSET Occurrence ELSE {{}}
    BY DEF UpdateInit
  <1>2. event \in Event(Nat) /\ event.key = 0
    BY <1>1 DEF Event
  <1>3. /\ seen = NoRead /\ pin = NoKey /\ sends = 0 /\ edits = 0 /\ args \in Args
        /\ pc \in {"read", "patch"} /\ (pc = "patch" <=> ~Reshapes)
    BY DEF UpdateInit
  <1>4. seen.series = FALSE /\ seen.key = NoKey
    BY <1>3 DEF NoRead
  <1>5. UpdateTypeOK
    <2>1. changes \subseteq Occurrence /\ (~event.series => changes = {})
      <3>1. CASE event.series
        BY <1>1, <3>1
      <3>2. CASE ~event.series
        BY <1>1, <3>2
      <3> QED
        BY <3>1, <3>2
    <2> QED
      <3>1. seen \in [series : BOOLEAN, zone : Zone \cup {Custom}, pattern : Recurrence \cup {NoPattern},
                      allDay : BOOLEAN, key : Nat \cup {NoKey}]
        BY <1>3 DEF NoRead
      <3>2. sends \in 0..MaxSends /\ edits \in 0..MaxEdits /\ pin \in Nat \cup {NoKey}
        BY <1>3
      <3> QED
        BY <1>2, <1>3, <2>1, <3>1, <3>2 DEF UpdateTypeOK
  <1>6. PinInv /\ FreshInv
    BY <1>2, <1>3, <1>4 DEF PinInv, FreshInv, Checked, Reshapes
  <1>7. ZoneInv /\ ZoneChangeIsSendable
    BY <1>3 DEF ZoneInv, ZoneChangeIsSendable, Checked, Reshapes
  <1> QED
    BY <1>5, <1>6, <1>7 DEF UpdateInv

\* What an edit by another client makes of the event.
LEMMA EditedFields ==
  ASSUME event \in Event(Nat), NEW p \in Recurrence \cup {NoPattern},
         NEW z \in Zone \cup {Custom}, event.allDay => z = UTC, EditedTo(p, z)
  PROVE  /\ event' \in Event(Nat)
         /\ event'.key = event.key + 1 /\ event'.allDay = event.allDay
         /\ event'.series = (p # NoPattern)
  <1>1. event.allDay \in BOOLEAN /\ event.key + 1 \in Nat
    BY DEF Event
  <1> QED
    BY <1>1 DEF Event, EditedTo

\* An edit by another client moves the event's key beyond the one that was read.
LEMMA OthersStep ==
  ASSUME UpdateInv, EditByOthers, event' \in Event(Nat), event'.key = event.key + 1,
         event'.allDay = event.allDay, changes' \subseteq Occurrence,
         ~event'.series => changes' = {}
  PROVE  UpdateInv'
  <1>1. UpdateTypeOK'
    BY DEF UpdateInv, UpdateTypeOK, EditByOthers
  <1>2. event.key \in Nat /\ seen.key \in Nat \cup {-1}
    BY DEF UpdateInv, UpdateTypeOK, Event
  <1>3. PinInv' /\ FreshInv'
    BY <1>2 DEF UpdateInv, PinInv, FreshInv, EditByOthers, Checked, Reshapes
  <1>4. ZoneInv' /\ ZoneChangeIsSendable'
    BY DEF UpdateInv, ZoneInv, ZoneChangeIsSendable, EditByOthers, Checked,
       StartZone, AllDay,
       SeenAsSeries
  <1> QED
    BY <1>1, <1>3, <1>4 DEF UpdateInv

\* What the first read returns, and where the call goes from there.
LEMMA ReadStep ==
  ASSUME UpdateInv, Read
  PROVE  UpdateInv'
  <1>1. PICK k : k \in {event.key, NoKey} /\ seen' = [event EXCEPT !.key = k]
    BY DEF Read
  <1>2. /\ event \in Event(Nat) /\ pc = "read" /\ pc' = AfterRead(seen')
        /\ UNCHANGED <<event, changes, args, pin, sends, edits>>
    BY DEF UpdateInv, UpdateTypeOK, Read, world
  <1>3. Reshapes
    BY <1>2 DEF UpdateInv, PinInv
  <1>4. /\ event.key \in Nat /\ k \in Nat \cup {NoKey} /\ k <= event.key
        /\ seen'.series = event.series /\ seen'.zone = event.zone /\ seen'.allDay = event.allDay
        /\ seen'.pattern = event.pattern /\ seen'.key = k
    <2>1. event.key \in Nat /\ k \in Nat \cup {NoKey} /\ k <= event.key
      BY <1>1, <1>2 DEF Event
    <2>2. seen'.series = event.series /\ seen'.zone = event.zone
      BY <1>1, <1>2 DEF Event
    <2>3. seen'.allDay = event.allDay /\ seen'.pattern = event.pattern
      BY <1>1, <1>2 DEF Event
    <2>4. seen'.key = k
      BY <1>1, <1>2 DEF Event
    <2> QED
      BY <2>1, <2>2, <2>3, <2>4
  <1>5. pc' \in {"refused", "occurrences", "localize", "patch"}
    BY <1>2 DEF AfterRead, AfterChecks
  <1>6. UpdateTypeOK'
    BY <1>1, <1>2, <1>4, <1>5 DEF UpdateInv, UpdateTypeOK, Event
  <1>7. Checked' => ~event.series /\ ~ZoneRefused(seen')
    BY <1>2, <1>4 DEF Checked, AfterRead, AfterChecks
  <1>8. PinInv'
    <2>1. seen'.key <= event'.key /\ pc' # "read" /\ Reshapes' /\ (Checked' => ~seen'.series)
      BY <1>2, <1>3, <1>4, <1>5, <1>7 DEF Reshapes
    <2> QED
      BY <2>1 DEF PinInv
  <1>9. FreshInv'
    <2>1. k = event.key => seen' = event
      BY <1>1, <1>2 DEF Event
    <2> QED
      BY <1>2, <1>4, <1>7, <2>1 DEF FreshInv
  <1>10. ZoneInv' /\ ZoneChangeIsSendable'
    BY <1>2, <1>4, <1>5, <1>7 DEF ZoneInv, ZoneChangeIsSendable, ZoneRefused,
       StartZone, AllDay,
       Checked
  <1> QED
    BY <1>6, <1>8, <1>9, <1>10 DEF UpdateInv

\* A step of the call on an event that it has read and that stays as it is.
LEMMA CheckStep ==
  ASSUME UpdateInv, UNCHANGED <<event, changes, args, seen, sends, edits>>,
         \/ ReadOccurrences
         \/ ReadLocalStart
         \/ Fails
         \/ PatchConflicts
  PROVE  UpdateInv'
  <1> USE DEF world
  <1>1. CASE ReadOccurrences
    <2>1. /\ pc = "occurrences"
          /\ \/ changes = {} /\ pc' = AfterChecks(seen) /\ pin' = seen.key
             \/ pc' = "refused" /\ pin' = pin
      BY <1>1 DEF ReadOccurrences
    <2>2. pc' \in {"refused", "localize", "patch"} /\ (Checked' => ~ZoneRefused(seen))
      BY <2>1 DEF AfterChecks, Checked
    <2>3. UpdateTypeOK'
      BY <2>1, <2>2 DEF UpdateInv, UpdateTypeOK
    <2>4. PinInv' /\ FreshInv'
      BY <2>1, <2>2 DEF UpdateInv, PinInv, FreshInv, Checked, Reshapes
    <2>5. ZoneInv' /\ ZoneChangeIsSendable'
      BY <2>1, <2>2 DEF UpdateInv, ZoneInv, ZoneChangeIsSendable, ZoneRefused,
         StartZone, AllDay,
         Checked
    <2> QED
      BY <2>3, <2>4, <2>5 DEF UpdateInv
  <1>2. CASE ReadLocalStart \/ Fails \/ PatchConflicts
    <2>1. /\ pin' = pin /\ pc' \in {"patch", "refused", "raised", "conflict"}
          /\ Checked' => Checked
      BY <1>2 DEF ReadLocalStart, Fails, PatchConflicts, Checked
    <2>2. UpdateTypeOK'
      BY <2>1 DEF UpdateInv, UpdateTypeOK
    <2>3. PinInv' /\ FreshInv'
      BY <2>1 DEF UpdateInv, PinInv, FreshInv, Checked, Reshapes
    <2>4. ZoneInv' /\ ZoneChangeIsSendable'
      BY <2>1 DEF UpdateInv, ZoneInv, ZoneChangeIsSendable, StartZone, AllDay,
         Checked
    <2> QED
      BY <2>2, <2>3, <2>4 DEF UpdateInv
  <1> QED
    BY <1>1, <1>2

\* What a PATCH that Graph takes finds, if the call read a series and its key:
\* the event as it was read, without edited or deleted occurrences.
LEMMA TakenIsFresh ==
  ASSUME UpdateInv, pc = "patch", Taken, SeenAsSeries
  PROVE  Reshapes /\ seen = event /\ changes = {}
  <1>1. Reshapes /\ pin = seen.key
    BY DEF UpdateInv, PinInv, Checked, SeenAsSeries
  <1>2. seen.key = event.key
    BY <1>1 DEF Taken, SeenAsSeries
  <1> QED
    BY <1>1, <1>2 DEF UpdateInv, FreshInv, Checked, SeenAsSeries

\* A series' new zone travels with its recurrence.
LEMMA SeriesIsSendable ==
  ASSUME UpdateInv, pc = "patch", Taken, SeenAsSeries
  PROVE  ~Unsendable
  <1>1. seen = event /\ event.series /\ event \in Event(Nat) /\ args \in Args
    BY TakenIsFresh DEF SeenAsSeries, UpdateInv, UpdateTypeOK
  <1>2. SUFFICES ASSUME Unsendable PROVE FALSE
    OBVIOUS
  <1>3. args.times # "none" /\ args.rec = NoPattern /\ ~Resent(seen)
    BY <1>1, <1>2 DEF Unsendable, HasStart, Sent, Event
  <1>4. Usable(event.zone) = StartZone(event)
    BY <1>1, <1>2, <1>3 DEF Resent, Unsendable
  <1>5. StartZone(event) # NoZone
    BY <1>1, <1>3 DEF UpdateInv, ZoneInv, Checked
  <1> QED
    BY <1>1, <1>2, <1>4, <1>5 DEF Usable, Unsendable

\* The event that a PATCH makes is an event.
LEMMA PatchedType ==
  ASSUME UpdateInv, pc = "patch"
  PROVE  /\ Patched \in Event(Nat)
         /\ Patched.key = event.key + 1
         /\ Patched.allDay = AllDay(event)
         /\ ~Patched.series => Restores \/ changes = {}
  <1>1. event \in Event(Nat) /\ args \in Args
    BY DEF UpdateInv, UpdateTypeOK
  <1>2. Sent(seen) \in Recurrence \cup {NoPattern}
    BY <1>1 DEF UpdateInv, UpdateTypeOK, Sent, Args
  <1>3. AllDay(event) \in BOOLEAN
    BY <1>1 DEF AllDay, Event
  <1>4. HasStart => /\ StartZone(seen) \in Zone \cup {Custom}
                    /\ AllDay(event) => StartZone(seen) = UTC
    <2>1. SUFFICES ASSUME HasStart
                   PROVE  /\ StartZone(seen) \in Zone \cup {Custom}
                          /\ AllDay(event) => StartZone(seen) = UTC
      OBVIOUS
    <2>2. StartZone(seen) # NoZone /\ AllDay(seen) = AllDay(event)
      BY <2>1 DEF UpdateInv, ZoneInv, Checked, HasStart
    <2> QED
      BY <1>1, <2>2 DEF UpdateInv, UpdateTypeOK, StartZone, Usable, Args,
         EventAssumption
  <1>5. ~HasStart => (AllDay(event) => event.zone = UTC)
    BY <1>1 DEF HasStart, AllDay, Args, Event
  <1> DEFINE z == IF HasStart THEN StartZone(seen) ELSE event.zone
             p == IF args.remove THEN NoPattern
                  ELSE IF Sent(seen) # NoPattern THEN Sent(seen) ELSE event.pattern
             m == ~args.remove /\ (event.series \/ Sent(seen) # NoPattern)
  <1>6. z \in Zone \cup {Custom} /\ (AllDay(event) => z = UTC)
    <2>1. event.zone \in Zone \cup {Custom}
      BY <1>1 DEF Event
    <2>2. CASE HasStart
      BY <1>4, <2>2
    <2>3. CASE ~HasStart
      BY <1>5, <2>1, <2>3
    <2> QED BY <2>2, <2>3
  <1>7. p \in Recurrence \cup {NoPattern} /\ m \in BOOLEAN /\ (m <=> p # NoPattern)
    BY <1>1, <1>2 DEF Event, Args
  <1>8. Patched = [series |-> m, zone |-> z, pattern |-> p, allDay |-> AllDay(event),
                   key |-> event.key + 1]
    BY DEF Patched
  <1>9. event.key + 1 \in Nat
    BY <1>1 DEF Event
  <1> HIDE DEF z, p, m
  <1>10. Patched \in Event(Nat) /\ Patched.key = event.key + 1 /\ Patched.allDay = AllDay(event)
    BY <1>3, <1>6, <1>7, <1>8, <1>9 DEF Event
  <1>11. ~Patched.series => Restores \/ changes = {}
    <2>1. Patched.pattern = p /\ Patched.series = m
      BY <1>8
    <2>2. ~event.series => changes = {}
      BY DEF UpdateInv, UpdateTypeOK
    <2> QED
      BY <1>1, <1>7, <2>1, <2>2 DEF Restores, Event
  <1> QED
    BY <1>10, <1>11

LEMMA PatchStep == UpdateInv /\ Patch => UpdateInv'
  <1> SUFFICES ASSUME UpdateInv, Patch PROVE UpdateInv'
    OBVIOUS
  <1>1. CASE PatchConflicts
    BY <1>1, CheckStep DEF PatchConflicts, world
  <1>2. CASE PatchInvalid
    <2>1. pc = "patch" /\ pc' = "invalid" /\ ~SeenAsSeries
          /\ UNCHANGED <<event, changes, args, seen, pin, sends, edits>>
      BY <1>2, SeriesIsSendable DEF PatchInvalid, world
    <2> QED
      BY <2>1 DEF UpdateInv, UpdateTypeOK, PinInv, FreshInv, ZoneInv,
         ZoneChangeIsSendable, SeenAsSeries,
         Checked, Reshapes, StartZone, AllDay
  <1>3. CASE PatchTakesEffect
    <2>1. /\ pc = "patch" /\ event' = Patched
          /\ changes' = IF Restores THEN {} ELSE changes
          /\ UNCHANGED <<args, seen, pin, edits>>
          /\ pc' \in {"updated", "patch", "raised"}
          /\ \/ sends' = sends
             \/ sends + 1 < MaxSends /\ sends' = sends + 1
      BY <1>3 DEF PatchTakesEffect, SendAgain
    <2>2. /\ event' \in Event(Nat) /\ event'.key = event.key + 1
          /\ event'.allDay = AllDay(event)
          /\ ~event'.series => changes' = {}
      BY <2>1, PatchedType
    <2>3. UpdateTypeOK'
      BY <2>1, <2>2 DEF UpdateInv, UpdateTypeOK
    <2>4. event.key \in Nat /\ seen.key \in Nat \cup {-1}
      BY DEF UpdateInv, UpdateTypeOK, Event
    <2>5. PinInv' /\ FreshInv'
      BY <2>1, <2>2, <2>4 DEF UpdateInv, PinInv, FreshInv, Checked, Reshapes
    <2>6. ZoneInv' /\ ZoneChangeIsSendable'
      BY <2>1, <2>2 DEF UpdateInv, ZoneInv, ZoneChangeIsSendable, StartZone,
         AllDay, Checked
    <2> QED
      BY <2>3, <2>5, <2>6 DEF UpdateInv
  <1>4. CASE PatchUnavailable
    <2>1. /\ pc = "patch" /\ pc' = "patch" /\ sends + 1 < MaxSends /\ sends' = sends + 1
          /\ UNCHANGED <<event, changes, args, seen, pin, edits>>
      BY <1>4 DEF PatchUnavailable, SendAgain, world
    <2> QED
      BY <2>1 DEF UpdateInv, UpdateTypeOK, PinInv, FreshInv, ZoneInv,
         ZoneChangeIsSendable, Checked,
         Reshapes, StartZone, AllDay, EventAssumption, SeenAsSeries
  <1> QED
    BY <1>1, <1>2, <1>3, <1>4 DEF Patch

(***************************************************************************)
(* The theorems.                                                           *)
(***************************************************************************)

\* IInv, on which the properties rest, holds in every reachable state.
THEOREM UpdateInvariant == UpdateSpec => []UpdateInv
  <1>1. UpdateInv /\ [UpdateNext]_updateVars => UpdateInv'
    <2> SUFFICES ASSUME UpdateInv, [UpdateNext]_updateVars PROVE UpdateInv'
      OBVIOUS
    <2>1. /\ event \in Event(Nat) /\ changes \subseteq Occurrence
          /\ event.pattern \in Recurrence \cup {NoPattern} /\ event.zone \in Zone \cup {Custom}
          /\ event.allDay => event.zone = UTC
          /\ event.series => event.pattern # NoPattern
      BY DEF UpdateInv, UpdateTypeOK, Event
    <2>2. ASSUME NEW o \in Occurrence, EditOccurrence(o) PROVE UpdateInv'
      BY <2>1, <2>2, EditedFields, OthersStep DEF EditOccurrence
    <2>3. ASSUME NEW p \in Recurrence, Repattern(p) PROVE UpdateInv'
      BY <2>1, <2>3, EditedFields, OthersStep DEF Repattern
    <2>4. CASE Collapse
      BY <2>1, <2>4, EditedFields, OthersStep DEF Collapse
    <2>5. ASSUME NEW z \in Zone \cup {Custom}, Rezone(z) PROVE UpdateInv'
      BY <2>1, <2>5, EditedFields, OthersStep DEF Rezone
    <2>6. CASE Read
      BY <2>6, ReadStep
    <2>7. CASE ReadOccurrences \/ ReadLocalStart \/ Fails
      BY <2>7, CheckStep DEF ReadOccurrences, ReadLocalStart, Fails, world
    <2>8. CASE Patch
      BY <2>8, PatchStep
    <2>9. CASE UNCHANGED updateVars
      BY <2>9 DEF updateVars, UpdateInv, UpdateTypeOK, PinInv, FreshInv, ZoneInv,
         ZoneChangeIsSendable,
         SeenAsSeries, Checked, Reshapes, StartZone, AllDay
    <2> QED
      BY <2>2, <2>3, <2>4, <2>5, <2>6, <2>7, <2>8, <2>9 DEF UpdateNext
  <1> QED
    BY <1>1, UpdateInitInv, PTL DEF UpdateSpec

\* Every variable keeps its type; in particular the event never gets a zone
\* that Graph would not store.
THEOREM UpdateTypeCorrect == UpdateSpec => []UpdateTypeOK
  <1>1. UpdateInv => UpdateTypeOK
    BY DEF UpdateInv
  <1> QED
    BY <1>1, UpdateInvariant, PTL

\* Graph never answers 400 because a series' recurrence was left at home.
THEOREM ZoneChangesAreSendable == UpdateSpec => []ZoneChangeIsSendable
  <1>1. UpdateInv => ZoneChangeIsSendable
    BY DEF UpdateInv
  <1> QED
    BY <1>1, UpdateInvariant, PTL

\* The steps of the call that change the event are PATCHes that take effect.
LEMMA OnlyThePatchWrites ==
  ASSUME UpdateInv, [UpdateNext]_updateVars, ByTheCall, event' # event \/ changes' # changes
  PROVE  PatchTakesEffect
  <1>1. edits \in Nat
    BY DEF UpdateInv, UpdateTypeOK
  <1>2. ~EditByOthers
    BY <1>1 DEF ByTheCall, EditByOthers
  <1> QED
    BY <1>2 DEF UpdateNext, updateVars, world, Patch, EditOccurrence, Repattern,
       Collapse, Rezone, Read,
       ReadOccurrences, ReadLocalStart, Fails, PatchConflicts, PatchInvalid,
       PatchUnavailable

\* A change to a series' times or pattern discards no occurrence that somebody
\* has edited or deleted, at whatever moment they did.
THEOREM OccurrencesAreKept == UpdateSpec => SeriesKeepsOccurrences
  <1>1. ASSUME UpdateInv, [UpdateNext]_updateVars, ByTheCall, SeenAsSeries, Reshapes PROVE changes' = changes
    <2>1. SUFFICES ASSUME changes' # changes PROVE FALSE
      OBVIOUS
    <2>2. PatchTakesEffect
      BY <1>1, <2>1, OnlyThePatchWrites
    <2>3. changes = {}
      BY <1>1, <2>2, TakenIsFresh DEF PatchTakesEffect
    <2> QED
      BY <2>1, <2>2, <2>3 DEF PatchTakesEffect
  <1>2. UpdateInv /\ [UpdateNext]_updateVars => [ByTheCall /\ SeenAsSeries /\ Reshapes => changes' = changes]_updateVars
    BY <1>1
  <1> QED
    BY <1>2, UpdateInvariant, PTL DEF UpdateSpec, SeriesKeepsOccurrences

\* The pattern and the zone a series gets are those it has, or those asked for.
THEOREM ChangesAreAsAsked == UpdateSpec => SeriesChangedAsAsked
  <1> DEFINE AsAsked ==
        /\ \/ event'.pattern \in {event.pattern, args.rec}
           \/ args.remove /\ event'.pattern = NoPattern
        /\ \/ event'.zone \in {event.zone, args.zone}
           \/ args.allDay = "yes" /\ event'.zone = UTC
  <1>1. ASSUME UpdateInv, [UpdateNext]_updateVars, ByTheCall, SeenAsSeries PROVE AsAsked
    <2>1. CASE event' = event
      BY <2>1
    <2>2. CASE event' # event
      <3>1. PatchTakesEffect
        BY <1>1, <2>2, OnlyThePatchWrites
      <3>2. event' = Patched /\ seen = event
        BY <1>1, <3>1, TakenIsFresh DEF PatchTakesEffect
      <3>3. event \in Event(Nat)
        BY <1>1 DEF UpdateInv, UpdateTypeOK
      <3>4. event'.pattern = IF args.remove THEN NoPattern
                             ELSE IF Sent(event) # NoPattern THEN Sent(event) ELSE event.pattern
        BY <3>2 DEF Patched
      <3>5. Sent(event) \in {event.pattern, args.rec}
        BY DEF Sent
      <3>6. event'.zone = IF HasStart THEN StartZone(event) ELSE event.zone
        BY <3>2 DEF Patched
      <3>7. HasStart => StartZone(event) # NoZone
        BY <1>1, <3>1, <3>2 DEF UpdateInv, ZoneInv, Checked, HasStart,
           PatchTakesEffect
      <3>8. HasStart => \/ StartZone(event) \in {event.zone, args.zone}
                        \/ args.allDay = "yes" /\ StartZone(event) = UTC
        <4>1. (args.allDay # "yes" /\ AllDay(event)) => event.zone = UTC
          BY <3>3 DEF AllDay, Event
        <4>2. StartZone(event) \in {UTC, args.zone, event.zone, NoZone}
          BY DEF StartZone, Usable
        <4>3. StartZone(event) \notin {args.zone, event.zone, NoZone} => AllDay(event)
          BY DEF StartZone, Usable
        <4> QED BY <3>7, <4>1, <4>2, <4>3
      <3> QED
        BY <3>4, <3>5, <3>6, <3>8
    <2> QED
      BY <2>1, <2>2
  <1>2. UpdateInv /\ [UpdateNext]_updateVars => [ByTheCall /\ SeenAsSeries => AsAsked]_updateVars
    BY <1>1
  <1> QED
    BY <1>2, UpdateInvariant, PTL DEF UpdateSpec, SeriesChangedAsAsked
=============================================================================
