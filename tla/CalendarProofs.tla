--------------------------- MODULE CalendarProofs ---------------------------
(***************************************************************************)
(* The calendar of the code against the reference: the years and months    *)
(* the code counts off are as long as those the reference counts by leap   *)
(* days, in every year of the Gregorian calendar, and the reference gives  *)
(* every day one date.                                                     *)
(***************************************************************************)
EXTENDS Calendar, TLAPS

(* A year adds a leap day where the code says so: divisors of the year     *)
(* before are those of the year, but for the one it completes.             *)
LEMMA QuotientSteps ==
  ASSUME NEW y \in Nat, y >= 1, NEW d \in {4, 100, 400}
  PROVE  y \div d = (y - 1) \div d + (IF y % d = 0 THEN 1 ELSE 0)
  OBVIOUS

LEMMA LeapDay ==
  ASSUME NEW y \in Nat, y >= 1
  PROVE  LeapDaysBefore(y + 1) = LeapDaysBefore(y) + (IF is_leap_year(y) THEN 1 ELSE 0)
  <1>1. /\ y \div 4 = (y - 1) \div 4 + (IF y % 4 = 0 THEN 1 ELSE 0)
        /\ y \div 100 = (y - 1) \div 100 + (IF y % 100 = 0 THEN 1 ELSE 0)
        /\ y \div 400 = (y - 1) \div 400 + (IF y % 400 = 0 THEN 1 ELSE 0)
    BY QuotientSteps
  <1>2. /\ y % 400 = 0 => y % 100 = 0
        /\ y % 100 = 0 => y % 4 = 0
    OBVIOUS
  <1>3. (y + 1) - 1 = y
    OBVIOUS
  <1>4. /\ y \div 4 \in Int /\ y \div 100 \in Int /\ y \div 400 \in Int
        /\ (y - 1) \div 4 \in Int /\ (y - 1) \div 100 \in Int /\ (y - 1) \div 400 \in Int
    OBVIOUS
  <1> DEFINE a == (y - 1) \div 4
             b == (y - 1) \div 100
             c == (y - 1) \div 400
  <1>5. LeapDaysBefore(y + 1) = (y \div 4 - y \div 100) + y \div 400
    BY <1>3 DEF LeapDaysBefore
  <1>6. LeapDaysBefore(y) = (a - b) + c
    BY DEF LeapDaysBefore
  <1> HIDE DEF a, b, c
  <1>7. QED
    BY <1>1, <1>2, <1>4, <1>5, <1>6 DEF is_leap_year, a, b, c

(* days_in_year is the distance of two New Year's Days.                    *)
THEOREM YearLength ==
  ASSUME NEW y \in Nat, y >= 1
  PROVE  NewYear(y + 1) = NewYear(y) + days_in_year(y)
  <1>1. LeapDaysBefore(y) \in Int /\ LeapDaysBefore(1970) \in Int
    BY DEF LeapDaysBefore
  <1>2. QED
    BY <1>1, LeapDay DEF NewYear, days_in_year

(* month_lengths is the distance of two first days of a month; the first   *)
(* month begins with the year, and a thirteenth would with the next.       *)
THEOREM MonthLength ==
  ASSUME NEW y \in Nat, y >= 1
  PROVE  /\ FirstDay(y, 1) = NewYear(y) /\ FirstDay(y, 13) = NewYear(y + 1)
         /\ \A m \in 1 .. 12 : FirstDay(y, m + 1) = FirstDay(y, m) + month_lengths(y)[m]
  <1>1. /\ LeapDaysBefore(y) \in Int /\ LeapDaysBefore(y + 1) \in Int
        /\ LeapDaysBefore(1970) \in Int
    BY DEF LeapDaysBefore
  <1>2. NewYear(y) \in Int
    BY <1>1 DEF NewYear
  <1>3. FirstDay(y, 1) = NewYear(y) /\ FirstDay(y, 13) = NewYear(y + 1)
    BY <1>1, <1>2, YearLength, LeapDay DEF FirstDay, CommonDays, days_in_year
  <1>4. ASSUME NEW m \in 1 .. 12
        PROVE  FirstDay(y, m + 1) = FirstDay(y, m) + month_lengths(y)[m]
    BY <1>1, <1>2, LeapDay DEF FirstDay, CommonDays, month_lengths
  <1>5. QED
    BY <1>3, <1>4

----------------------------------------------------------------------------
(* Quotients ascend, no faster than what is divided.                       *)
LEMMA QuotientsAscend ==
  ASSUME NEW x \in Nat, NEW z \in Nat, x <= z, NEW d \in {4, 100, 400}
  PROVE  /\ x \div d \in Int /\ z \div d \in Int
         /\ x \div d <= z \div d /\ z \div d - x \div d <= z - x
  <1>1. CASE d = 4
    BY <1>1
  <1>2. CASE d = 100
    BY <1>2
  <1>3. CASE d = 400
    BY <1>3
  <1>4. QED
    BY <1>1, <1>2, <1>3

(* A later year begins when the earlier one is over.                       *)
LEMMA YearsAscend ==
  ASSUME NEW y \in Nat, NEW z \in Nat, y >= 1, y < z
  PROVE  NewYear(y + 1) <= NewYear(z)
  <1> DEFINE a == y \div 4
             b == y \div 100
             c == y \div 400
             p == (z - 1) \div 4
             q == (z - 1) \div 100
             r == (z - 1) \div 400
             l == LeapDaysBefore(1970)
  <1>1. z - 1 \in Nat /\ y <= z - 1 /\ l \in Int
    BY DEF LeapDaysBefore
  <1>2. /\ a \in Int /\ b \in Int /\ c \in Int /\ p \in Int /\ q \in Int /\ r \in Int
        /\ a <= p /\ q - b <= (z - 1) - y /\ c <= r
    BY <1>1, QuotientsAscend
  <1>3. (y + 1) - 1 = y
    OBVIOUS
  <1>4. LeapDaysBefore(y + 1) = (a - b) + c /\ LeapDaysBefore(z) = (p - q) + r
    BY <1>3 DEF LeapDaysBefore
  <1> HIDE DEF a, b, c, p, q, r, l
  <1>5. /\ NewYear(y + 1) = 365 * ((y + 1) - 1970) + ((a - b) + c) - l
        /\ NewYear(z) = 365 * (z - 1970) + ((p - q) + r) - l
    BY <1>4 DEF NewYear, l
  <1>6. QED
    BY <1>1, <1>2, <1>5

(* A month is over before a later one of its year begins.                  *)
LEMMA MonthsAscend ==
  ASSUME NEW y \in Nat, y >= 1, NEW m \in 1 .. 12, NEW k \in 1 .. 13, m < k
  PROVE  /\ FirstDay(y, m) \in Int /\ FirstDay(y, k) \in Int
         /\ FirstDay(y, m + 1) <= FirstDay(y, k)
  <1> DEFINE first == NewYear(y)
             leap == IF is_leap_year(y) THEN 1 ELSE 0
  <1>1. first \in Int /\ leap \in {0, 1}
    BY DEF NewYear, LeapDaysBefore
  <1>2. LeapDaysBefore(y + 1) - LeapDaysBefore(y) = leap
    <2>1. LeapDaysBefore(y) \in Int
      BY DEF LeapDaysBefore
    <2>2. QED
      BY <2>1, LeapDay
  <1>3. \A i \in 1 .. 13 :
          FirstDay(y, i) = first + CommonDays[i] + (IF i > 2 THEN leap ELSE 0)
    BY <1>2 DEF FirstDay
  <1> HIDE DEF first, leap
  <1>4. QED
    BY <1>1, <1>3 DEF CommonDays

(* A day has one date: the reference leaves no choice for what a copy is   *)
(* signed with.                                                            *)
THEOREM OneDate ==
  ASSUME NEW n \in Int, NEW y \in Nat, NEW z \in Nat, y >= 1, z >= 1,
         NEW m, NEW k, NEW d, NEW e, DateOf(n, y, m, d), DateOf(n, z, k, e)
  PROVE  y = z /\ m = k /\ d = e
  <1>1. /\ m \in 1 .. 12 /\ FirstDay(y, m) <= n /\ n < FirstDay(y, m + 1)
        /\ k \in 1 .. 12 /\ FirstDay(z, k) <= n /\ n < FirstDay(z, k + 1)
        /\ d = n - FirstDay(y, m) + 1 /\ e = n - FirstDay(z, k) + 1
    BY DEF DateOf
  (* The day lies in the year of its date.                                 *)
  <1>2. ASSUME NEW x \in Nat, x >= 1, NEW i \in 1 .. 12,
               FirstDay(x, i) <= n, n < FirstDay(x, i + 1)
        PROVE  /\ NewYear(x) \in Int /\ NewYear(x + 1) \in Int
               /\ NewYear(x) <= n /\ n < NewYear(x + 1)
    <2>1. FirstDay(x, 1) = NewYear(x) /\ FirstDay(x, 13) = NewYear(x + 1)
      BY <1>2, MonthLength
    <2>2. /\ FirstDay(x, 1) \in Int /\ FirstDay(x, 13) \in Int
          /\ FirstDay(x, i) \in Int /\ FirstDay(x, i + 1) \in Int
          /\ FirstDay(x, 2) \in Int
      <3>1. \A j \in 2 .. 13 : FirstDay(x, j) \in Int /\ FirstDay(x, 1) \in Int
        BY <1>2, MonthsAscend
      <3>2. i + 1 \in 2 .. 13 /\ (i = 1 \/ i \in 2 .. 13)
        OBVIOUS
      <3>3. QED
        BY <3>1, <3>2
    <2>3. FirstDay(x, i + 1) <= FirstDay(x, 13)
      BY <1>2, MonthsAscend
    <2>4. FirstDay(x, 1) <= FirstDay(x, i)
      <3>1. FirstDay(x, 1) <= FirstDay(x, 2)
        <4>1. 1 \in 1 .. 12 /\ month_lengths(x)[1] = 31 /\ 1 + 1 = 2
          BY DEF month_lengths
        <4>2. FirstDay(x, 2) = FirstDay(x, 1) + 31
          BY <1>2, <4>1, MonthLength
        <4>3. QED
          BY <2>2, <4>2
      <3>2. i > 1 => FirstDay(x, 2) <= FirstDay(x, i)
        <4>1. i > 1 => FirstDay(x, 1 + 1) <= FirstDay(x, i)
          BY <1>2, MonthsAscend
        <4>2. QED
          BY <4>1
      <3>3. QED
        BY <2>2, <3>1, <3>2
    <2>5. QED
      BY <1>2, <2>1, <2>2, <2>3, <2>4
  <1>3. y = z
    <2>1. ~(y < z) /\ ~(z < y)
      <3>1. y < z => NewYear(y + 1) <= NewYear(z)
        BY YearsAscend
      <3>2. z < y => NewYear(z + 1) <= NewYear(y)
        BY YearsAscend
      <3>3. /\ NewYear(y) \in Int /\ NewYear(y + 1) \in Int
            /\ NewYear(y) <= n /\ n < NewYear(y + 1)
        BY <1>1, <1>2
      <3>4. /\ NewYear(z) \in Int /\ NewYear(z + 1) \in Int
            /\ NewYear(z) <= n /\ n < NewYear(z + 1)
        BY <1>1, <1>2
      <3>5. QED
        BY <3>1, <3>2, <3>3, <3>4
    <2>2. QED
      BY <2>1
  <1>4. m = k
    <2>1. /\ FirstDay(y, m) \in Int /\ FirstDay(y, k) \in Int
          /\ FirstDay(y, m + 1) \in Int /\ FirstDay(y, k + 1) \in Int
      <3>1. m + 1 \in 1 .. 13 /\ k + 1 \in 1 .. 13 /\ m < m + 1 /\ k < k + 1
        BY <1>1
      <3>2. QED
        BY <1>1, <3>1, MonthsAscend
    <2>2. m < k => FirstDay(y, m + 1) <= FirstDay(y, k)
      BY <1>1, MonthsAscend
    <2>3. k < m => FirstDay(y, k + 1) <= FirstDay(y, m)
      BY <1>1, MonthsAscend
    <2>4. QED
      BY <1>1, <1>3, <2>1, <2>2, <2>3
  <1>5. QED
    BY <1>1, <1>3, <1>4
============================================================================
