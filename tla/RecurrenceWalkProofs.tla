------------------------- MODULE RecurrenceWalkProofs -------------------------
(***************************************************************************)
(* Proofs about the calendar engine, for every rule, every source task and *)
(* every day from 1970 on: the next occurrence is the earliest scheduled   *)
(* day, a rule stops exactly at its end, and a delay counts from the       *)
(* completion.                                                             *)
(***************************************************************************)
EXTENDS RecurrenceWalk, WellFoundedInduction, TLAPS

----------------------------------------------------------------------------
(* Arithmetic with a divisor that is not known. *)
LEMMA Division ==
  ASSUME NEW x \in Int, NEW i \in Nat \ {0}
  PROVE  /\ x \div i \in Int /\ i * (x \div i) <= x /\ x < i * (x \div i) + i
         /\ x >= 0 => x \div i >= 0
OBVIOUS

LEMMA Multiples ==
  ASSUME NEW p \in Int, NEW q \in Int, NEW i \in Nat \ {0}
  PROVE  /\ i * p \in Int /\ (p < q <=> i * p < i * q) /\ (p < q => i * p + i <= i * q)
         /\ i * (p + 1) = i * p + i /\ p * i = i * p
  OBVIOUS

LEMMA Remainder ==
  ASSUME NEW x \in Int, NEW i \in Nat \ {0}
  PROVE  /\ x % i = 0 => x = i * (x \div i)
         /\ \A q \in Int : x = i * q => x % i = 0 /\ x \div i = q
  OBVIOUS

(* Sets of integers with a lower bound have a least element. *)
LEMMA LeastOne ==
  ASSUME NEW days \in SUBSET Int, days # {}, NEW low \in Int, \A n \in days : low <= n
  PROVE  /\ Earliest(days) \in days /\ \A n \in days : Earliest(days) <= n
<1> DEFINE shifted == { n - low : n \in days }
<1>1. shifted \subseteq Nat /\ shifted # {}
  <2>1. \A n \in days : n - low \in Nat
    OBVIOUS
  <2>2. PICK n \in days : TRUE
    OBVIOUS
  <2>3. QED
    BY <2>1, <2>2
<1> HIDE DEF shifted
<1>2. PICK k \in shifted : \A j \in shifted : ~ (<<j, k>> \in OpToRel(<, Nat))
  BY <1>1, NatLessThanWellFounded, WFMin, Zenon
<1>3. \A j \in shifted : k <= j
  <2>1. \A a, b \in Nat : a < b => <<a, b>> \in OpToRel(<, Nat)
    BY DEF OpToRel
  <2>2. ASSUME NEW j \in shifted PROVE k <= j
    <3>1. j \in Nat /\ k \in Nat
      BY <1>1
    <3>2. ~ (j < k)
      BY <1>2, <2>1, <3>1, Zenon
    <3>3. QED
      BY <3>1, <3>2
  <2>3. QED
    BY <2>2
<1>4. PICK m \in days : k = m - low
  BY DEF shifted
<1>5. \A n \in days : m <= n
  BY <1>3, <1>4 DEF shifted
<1>6. \E x \in days : \A y \in days : x <= y
  BY <1>5
<1>7. Earliest(days) = Min(days)
  BY DEF Earliest
<1>8. QED
  BY <1>6, <1>7 DEF Min

----------------------------------------------------------------------------
(* Years and months. *)
LEMMA NextYear ==
  ASSUME NEW y \in Int
  PROVE  /\ NewYear(y) \in Int
         /\ NewYear(y + 1) = NewYear(y) + (IF IsLeapYear(y) THEN 366 ELSE 365)
BY DEF NewYear, IsLeapYear

LEMMA YearsApart ==
  ASSUME NEW y \in Int, NEW z \in Int, y <= z
  PROVE  365 * (z - y) <= NewYear(z) - NewYear(y) /\ NewYear(z) - NewYear(y) <= 366 * (z - y)
<1> DEFINE p == y - 1
           q == z - 1
<1>1. p \in Int /\ q \in Int /\ p <= q /\ q - p = z - y
  OBVIOUS
<1>2. NewYear(z) - NewYear(y) = 365 * (q - p) + (q \div 4 - p \div 4) - (q \div 100 - p \div 100) + (q \div 400 - p \div 400)
  BY DEF NewYear
<1> HIDE DEF p, q
<1>3. p \div 4 <= q \div 4 /\ q \div 4 - p \div 4 <= q - p
  BY <1>1
<1>4. \A x \in Int : x \div 100 = (x \div 4) \div 25 /\ x \div 400 = (x \div 100) \div 4
  OBVIOUS
<1>5. /\ q \div 100 - p \div 100 >= 0 /\ q \div 100 - p \div 100 <= q \div 4 - p \div 4
      /\ q \div 400 - p \div 400 >= 0 /\ q \div 400 - p \div 400 <= q \div 100 - p \div 100
  <2>1. \A a, b \in Int : a <= b => b \div 25 - a \div 25 >= 0 /\ b \div 25 - a \div 25 <= b - a
    OBVIOUS
  <2>2. \A a, b \in Int : a <= b => b \div 4 - a \div 4 >= 0 /\ b \div 4 - a \div 4 <= b - a
    OBVIOUS
  <2>3. p \div 4 \in Int /\ q \div 4 \in Int /\ p \div 100 \in Int /\ q \div 100 \in Int
    BY <1>1
  <2>4. QED
    <3>1. p \div 100 = (p \div 4) \div 25 /\ q \div 100 = (q \div 4) \div 25
      BY <1>1, <1>4
    <3>2. p \div 400 = (p \div 100) \div 4 /\ q \div 400 = (q \div 100) \div 4
      BY <1>1, <1>4
    <3>3. q \div 100 - p \div 100 >= 0 /\ q \div 100 - p \div 100 <= q \div 4 - p \div 4
      BY <1>3, <2>1, <2>3, <3>1
    <3>4. p \div 100 <= q \div 100
      BY <2>3, <3>3
    <3>5. q \div 400 - p \div 400 >= 0 /\ q \div 400 - p \div 400 <= q \div 100 - p \div 100
      BY <2>2, <2>3, <3>2, <3>4
    <3>6. QED
      BY <3>3, <3>5
<1>6. /\ q \div 4 - p \div 4 \in Int /\ q \div 100 - p \div 100 \in Int /\ q \div 400 - p \div 400 \in Int
  BY <1>1
<1>7. QED
  BY <1>1, <1>2, <1>3, <1>5, <1>6

LEMMA Epoch == NewYear(1970) = 0
BY DEF NewYear

(* The year a day is in. *)
InYear(n, y) == NewYear(y) <= n /\ n < NewYear(y + 1)

LEMMA OneYear ==
  ASSUME NEW n \in Int, NEW y \in Int, NEW z \in Int, InYear(n, y), InYear(n, z)
  PROVE  y = z
<1>1. ASSUME NEW a \in Int, NEW b \in Int, InYear(n, a), InYear(n, b), a < b PROVE FALSE
  <2>1. NewYear(a + 1) <= NewYear(b)
    <3>1. a + 1 \in Int /\ a + 1 <= b /\ 365 * (b - (a + 1)) >= 0
      BY <1>1
    <3>2. 365 * (b - (a + 1)) <= NewYear(b) - NewYear(a + 1)
      BY <3>1, YearsApart
    <3>3. NewYear(b) \in Int /\ NewYear(a + 1) \in Int
      BY <3>1, NextYear
    <3>4. QED
      BY <3>1, <3>2, <3>3
  <2>2. QED
    BY <1>1, <2>1, NextYear DEF InYear
<1>2. QED
  BY <1>1

LEMMA YearOfDay ==
  ASSUME NEW n \in Nat
  PROVE  \E y \in (1969 + n \div 366)..(1971 + n \div 365) : InYear(n, y) /\ y >= 1970
<1> DEFINE later == { y \in Nat : y >= 1970 /\ n < NewYear(y + 1) }
<1>1. 1970 + n \in later
  <2>1. PICK z \in Nat : z = (1970 + n) + 1
    OBVIOUS
  <2>2. 365 * (z - 1970) <= NewYear(z) - NewYear(1970) /\ NewYear(z) \in Int
    BY <2>1, YearsApart, NextYear
  <2>3. n < NewYear(z)
    BY <2>1, <2>2, Epoch
  <2>4. QED
    BY <2>1, <2>3
<1>2. PICK y \in later : \A z \in later : y <= z
  <2>1. later \in SUBSET Int /\ \A z \in later : 0 <= z
    OBVIOUS
  <2> HIDE DEF later
  <2>2. later # {}
    BY <1>1
  <2>3. Earliest(later) \in later /\ \A z \in later : Earliest(later) <= z
    BY <2>1, <2>2, LeastOne
  <2>4. QED
    BY <2>3
<1>3. NewYear(y) <= n
  <2>1. CASE y = 1970
    BY <2>1, Epoch
  <2>2. CASE y > 1970
    <3>1. y - 1 \notin later
      BY <1>2, <2>2
    <3>2. y - 1 \in Nat /\ y - 1 >= 1970 /\ (y - 1) + 1 = y
      BY <2>2
    <3>3. QED
      BY <3>1, <3>2, NextYear
  <2>3. QED
    BY <2>1, <2>2
<1>4. InYear(n, y) /\ y \in Nat /\ y >= 1970
  BY <1>2, <1>3 DEF InYear
<1>5. 365 * (y - 1970) <= n /\ n < 366 * (y - 1969)
  <2>1. PICK z \in Nat : z = y + 1
    BY <1>4
  <2>2. 365 * (y - 1970) <= NewYear(y) - NewYear(1970)
    BY <1>4, YearsApart
  <2>3. NewYear(z) - NewYear(1970) <= 366 * (z - 1970)
    <3>1. 1970 <= z /\ z \in Int /\ 1970 \in Int
      BY <1>4, <2>1
    <3>2. QED
      BY <3>1, YearsApart
  <2>4. NewYear(y) \in Int /\ NewYear(z) \in Int
    BY <1>4, <2>1, NextYear
  <2>5. NewYear(y) <= n /\ n < NewYear(z)
    BY <1>4, <2>1 DEF InYear
  <2>6. QED
    BY <1>4, <2>1, <2>2, <2>4, <2>5, <2>3, Epoch
<1>6. QED
  BY <1>4, <1>5

(* The months of a year follow each other. *)
YearLength(y) == IF IsLeapYear(y) THEN 366 ELSE 365

LEMMA MonthTable ==
  ASSUME NEW y \in Int, NEW leap \in 0..1, leap = IF IsLeapYear(y) THEN 1 ELSE 0
  PROVE  /\ DaysBefore(y, 1) = 0 /\ DaysInMonth(y, 1) = 31
         /\ DaysBefore(y, 2) = 31 /\ DaysInMonth(y, 2) = 28 + leap
         /\ DaysBefore(y, 3) = 59 + leap /\ DaysInMonth(y, 3) = 31
         /\ DaysBefore(y, 4) = 90 + leap /\ DaysInMonth(y, 4) = 30
         /\ DaysBefore(y, 5) = 120 + leap /\ DaysInMonth(y, 5) = 31
         /\ DaysBefore(y, 6) = 151 + leap /\ DaysInMonth(y, 6) = 30
         /\ DaysBefore(y, 7) = 181 + leap /\ DaysInMonth(y, 7) = 31
         /\ DaysBefore(y, 8) = 212 + leap /\ DaysInMonth(y, 8) = 31
         /\ DaysBefore(y, 9) = 243 + leap /\ DaysInMonth(y, 9) = 30
         /\ DaysBefore(y, 10) = 273 + leap /\ DaysInMonth(y, 10) = 31
         /\ DaysBefore(y, 11) = 304 + leap /\ DaysInMonth(y, 11) = 30
         /\ DaysBefore(y, 12) = 334 + leap /\ DaysInMonth(y, 12) = 31
BY DEF DaysBefore, DaysInMonth

LEMMA Months ==
  ASSUME NEW y \in Int
  PROVE  /\ \A m \in 1..12 : DaysBefore(y, m) \in Nat /\ DaysInMonth(y, m) \in 28..31
         /\ \A m \in 1..12 : DaysBefore(y, m) + DaysInMonth(y, m) <= YearLength(y)
         /\ \A m, l \in 1..12 : m < l => DaysBefore(y, m) + DaysInMonth(y, m) <= DaysBefore(y, l)
         /\ \A r \in 0..(YearLength(y) - 1) :
              \E m \in 1..12 : DaysBefore(y, m) <= r /\ r < DaysBefore(y, m) + DaysInMonth(y, m)
<1>1. PICK leap \in 0..1 : leap = IF IsLeapYear(y) THEN 1 ELSE 0
  OBVIOUS
<1>2. YearLength(y) = 365 + leap
  BY <1>1 DEF YearLength
<1>3. \A m \in 1..12 : m \in {1, 2, 3, 4, 5, 6, 7, 8, 9, 10, 11, 12}
  OBVIOUS
<1>4. ASSUME NEW m \in 1..12
      PROVE  /\ DaysBefore(y, m) \in Nat /\ DaysInMonth(y, m) \in 28..31
             /\ DaysBefore(y, m) + DaysInMonth(y, m) <= YearLength(y)
             /\ \A l \in 1..12 : m < l => DaysBefore(y, m) + DaysInMonth(y, m) <= DaysBefore(y, l)
  BY <1>1, <1>2, <1>3, MonthTable
<1>5. ASSUME NEW r \in 0..(YearLength(y) - 1),
             \A m \in 1..12 : ~(DaysBefore(y, m) <= r /\ r < DaysBefore(y, m) + DaysInMonth(y, m))
      PROVE  FALSE
  BY <1>1, <1>2, <1>5, MonthTable
<1>6. QED
  BY <1>4, <1>5

LEMMA Month ==
  ASSUME NEW y \in Int, NEW m \in Int, m \in 1..12
  PROVE  /\ NewYear(y) \in Int /\ DaysBefore(y, m) \in Int /\ 0 <= DaysBefore(y, m)
         /\ DaysInMonth(y, m) \in Int /\ 28 <= DaysInMonth(y, m) /\ DaysInMonth(y, m) <= 31
         /\ DaysBefore(y, m) + DaysInMonth(y, m) <= YearLength(y)
<1>1. \A l \in 1..12 : DaysBefore(y, l) \in Nat /\ DaysInMonth(y, l) \in 28..31
  BY Months
<1>2. \A l \in 1..12 : DaysBefore(y, l) + DaysInMonth(y, l) <= YearLength(y)
  BY Months
<1>3. DaysBefore(y, m) \in Nat /\ DaysInMonth(y, m) \in 28..31
  BY <1>1
<1>4. QED
  BY <1>2, <1>3, NextYear

LEMMA LaterMonth ==
  ASSUME NEW y \in Int, NEW m \in Int, NEW l \in Int, m \in 1..12, l \in 1..12, m < l
  PROVE  DaysBefore(y, m) + DaysInMonth(y, m) <= DaysBefore(y, l)
<1>1. \A a, b \in 1..12 : a < b => DaysBefore(y, a) + DaysInMonth(y, a) <= DaysBefore(y, b)
  BY Months
<1>2. QED
  BY <1>1

LEMMA MonthOfDay ==
  ASSUME NEW y \in Int, NEW r \in Int, 0 <= r, r < YearLength(y)
  PROVE  \E l \in 1..12 : DaysBefore(y, l) <= r /\ r < DaysBefore(y, l) + DaysInMonth(y, l)
<1>1. r \in 0..(YearLength(y) - 1)
  BY DEF YearLength
<1>2. \A s \in 0..(YearLength(y) - 1) :
        \E l \in 1..12 : DaysBefore(y, l) <= s /\ s < DaysBefore(y, l) + DaysInMonth(y, l)
  BY Months
<1>3. QED
  BY <1>1, <1>2

(* Keys: a year, a month and a day it has.  Months are counted through. *)
IsKey(k) == k.y \in Int /\ k.m \in 1..12 /\ k.d \in 1..DaysInMonth(k.y, k.m)

MonthOf(k) == k.y * 12 + (k.m - 1)

LEMMA MonthsApart ==
  ASSUME NEW y \in Int, NEW z \in Int, NEW m \in Int, NEW l \in Int, m \in 1..12, l \in 1..12,
         y * 12 + m < z * 12 + l
  PROVE  NewYear(y) + DaysBefore(y, m) + DaysInMonth(y, m) <= NewYear(z) + DaysBefore(z, l)
<1>1. /\ NewYear(y) \in Int /\ NewYear(z) \in Int /\ NewYear(y + 1) = NewYear(y) + YearLength(y)
      /\ YearLength(y) \in Int
  BY NextYear DEF YearLength
<1>2. /\ DaysBefore(y, m) \in Int /\ DaysInMonth(y, m) \in Int /\ DaysBefore(z, l) \in Int /\ 0 <= DaysBefore(z, l)
      /\ DaysBefore(y, m) + DaysInMonth(y, m) <= YearLength(y)
  BY Month
<1>3. CASE y = z
  <2>1. DaysBefore(y, m) + DaysInMonth(y, m) <= DaysBefore(y, l)
    BY <1>3, LaterMonth
  <2>2. QED
    BY <1>1, <1>2, <1>3, <2>1
<1>4. CASE y < z
  <2>1. PICK x \in Int : x = y + 1
    OBVIOUS
  <2>2. x <= z /\ 365 * (z - x) >= 0
    BY <1>4, <2>1
  <2>3. 365 * (z - x) <= NewYear(z) - NewYear(x) /\ NewYear(x) \in Int
    BY <2>2, YearsApart, NextYear
  <2>4. NewYear(x) <= NewYear(z)
    BY <1>1, <2>2, <2>3
  <2>5. QED
    BY <1>1, <1>2, <2>1, <2>3, <2>4
<1>5. QED
  BY <1>3, <1>4

LEMMA KeyHasMonth ==
  ASSUME NEW k, IsKey(k)
  PROVE  /\ k.y \in Int /\ k.m \in 1..12 /\ k.d \in Int /\ 1 <= k.d /\ k.d <= DaysInMonth(k.y, k.m)
         /\ NewYear(k.y) \in Int /\ DaysBefore(k.y, k.m) \in Int /\ DaysInMonth(k.y, k.m) \in Int
<1>1. PICK y \in Int : y = k.y
  BY DEF IsKey
<1>2. PICK m \in 1..12 : m = k.m
  BY DEF IsKey
<1>3. NewYear(y) \in Int /\ DaysBefore(y, m) \in Int /\ DaysInMonth(y, m) \in Int
  BY Month
<1>4. k.d \in 1..DaysInMonth(k.y, k.m)
  BY DEF IsKey
<1>5. QED
  BY <1>1, <1>2, <1>3, <1>4

LEMMA KeysInOrder ==
  ASSUME NEW j, NEW k, IsKey(j), IsKey(k)
  PROVE  /\ KeyToDayNumber(j) \in Int /\ MonthOf(j) \in Int
         /\ KeyToDayNumber(j) < KeyToDayNumber(k) <=>
              MonthOf(j) < MonthOf(k) \/ (MonthOf(j) = MonthOf(k) /\ j.d < k.d)
         /\ MonthOf(j) = MonthOf(k) => j.y = k.y /\ j.m = k.m
<1>1. ASSUME NEW a, NEW b, IsKey(a), IsKey(b), MonthOf(a) < MonthOf(b)
      PROVE  KeyToDayNumber(a) < KeyToDayNumber(b)
  <2>1. NewYear(a.y) + DaysBefore(a.y, a.m) + DaysInMonth(a.y, a.m) <= NewYear(b.y) + DaysBefore(b.y, b.m)
    <3>1. /\ a.y \in Int /\ b.y \in Int /\ a.m \in Int /\ b.m \in Int /\ a.m \in 1..12 /\ b.m \in 1..12
          /\ a.y * 12 + a.m < b.y * 12 + b.m
      BY <1>1 DEF IsKey, MonthOf
    <3>2. QED
      BY <3>1, MonthsApart
  <2>2. /\ NewYear(a.y) \in Int /\ DaysBefore(a.y, a.m) \in Int /\ DaysInMonth(a.y, a.m) \in Int
        /\ NewYear(b.y) \in Int /\ DaysBefore(b.y, b.m) \in Int
    BY <1>1, KeyHasMonth
  <2>3. a.d \in Int /\ a.d <= DaysInMonth(a.y, a.m) /\ b.d \in Int /\ 1 <= b.d
    BY <1>1, KeyHasMonth
  <2>4. QED
    BY <2>1, <2>2, <2>3 DEF KeyToDayNumber
<1>2. /\ KeyToDayNumber(j) \in Int /\ KeyToDayNumber(k) \in Int /\ MonthOf(j) \in Int /\ MonthOf(k) \in Int
  <2>1. /\ NewYear(j.y) \in Int /\ DaysBefore(j.y, j.m) \in Int /\ NewYear(k.y) \in Int
        /\ DaysBefore(k.y, k.m) \in Int /\ DaysInMonth(j.y, j.m) \in Int /\ DaysInMonth(k.y, k.m) \in Int
    BY KeyHasMonth
  <2>2. QED
    BY <2>1 DEF IsKey, KeyToDayNumber, MonthOf
<1>3. MonthOf(j) = MonthOf(k) => j.y = k.y /\ j.m = k.m
  BY DEF IsKey, MonthOf
<1>4. MonthOf(j) = MonthOf(k) => (KeyToDayNumber(j) < KeyToDayNumber(k) <=> j.d < k.d)
  <2>1. NewYear(j.y) \in Int /\ DaysBefore(j.y, j.m) \in Int /\ j.d \in Int /\ k.d \in Int
    BY KeyHasMonth
  <2>2. QED
    BY <1>3, <2>1 DEF KeyToDayNumber
<1>5. QED
  BY <1>1, <1>2, <1>3, <1>4

(* A day has one key, which dayNumberToKey finds. *)
LEMMA OneKey ==
  ASSUME NEW j, NEW k, IsKey(j), IsKey(k), KeyToDayNumber(j) = KeyToDayNumber(k)
  PROVE  j.y = k.y /\ j.m = k.m /\ j.d = k.d
<1>1. ~(KeyToDayNumber(j) < KeyToDayNumber(k)) /\ ~(KeyToDayNumber(k) < KeyToDayNumber(j))
  BY KeysInOrder
<1>2. MonthOf(j) = MonthOf(k) /\ ~(j.d < k.d) /\ ~(k.d < j.d)
  BY <1>1, KeysInOrder
<1>3. j.d \in Int /\ k.d \in Int
  BY DEF IsKey
<1>4. QED
  BY <1>2, <1>3, KeysInOrder

LEMMA KeyOfDay ==
  ASSUME NEW n \in Nat, NEW k, k = DayNumberToKey(n)
  PROVE  /\ IsKey(k) /\ k.y >= 1970 /\ KeyToDayNumber(k) = n
         /\ k = [y |-> k.y, m |-> k.m, d |-> k.d]
<1> DEFINE y == CHOOSE x \in (1969 + n \div 366)..(1971 + n \div 365) : NewYear(x) <= n /\ n < NewYear(x + 1)
           r == n - NewYear(y)
           m == CHOOSE l \in 1..12 : DaysBefore(y, l) <= r /\ r < DaysBefore(y, l) + DaysInMonth(y, l)
<1>1. k = [y |-> y, m |-> m, d |-> r - DaysBefore(y, m) + 1]
  BY DEF DayNumberToKey
<1>2. PICK x \in (1969 + n \div 366)..(1971 + n \div 365) : InYear(n, x) /\ x >= 1970
  BY YearOfDay
<1>3. y \in Int /\ InYear(n, y)
  BY <1>2 DEF InYear
<1>4. y = x
  BY <1>2, <1>3, OneYear
<1>5. r \in 0..(YearLength(y) - 1)
  BY <1>3, NextYear DEF InYear, YearLength
<1> HIDE DEF y, r
<1>6. m \in 1..12 /\ DaysBefore(y, m) <= r /\ r < DaysBefore(y, m) + DaysInMonth(y, m)
  <2>1. \E l \in 1..12 : DaysBefore(y, l) <= r /\ r < DaysBefore(y, l) + DaysInMonth(y, l)
    <3>1. r \in Int /\ 0 <= r /\ r < YearLength(y)
      BY <1>5 DEF YearLength
    <3>2. QED
      BY <1>3, <3>1, MonthOfDay
  <2>2. QED
    BY <2>1
<1> HIDE DEF m
<1>7. k.y = y /\ k.m = m /\ k.d = r - DaysBefore(y, m) + 1
  BY <1>1
<1>8. DaysBefore(y, m) \in Int /\ DaysInMonth(y, m) \in Int /\ NewYear(y) \in Int
  BY <1>3, <1>6, Month
<1>9. r = n - NewYear(y) /\ r \in Int
  BY <1>3, <1>5 DEF r
<1>10. IsKey(k)
  BY <1>3, <1>6, <1>7, <1>8, <1>9 DEF IsKey
<1>11. KeyToDayNumber(k) = n
  BY <1>7, <1>8, <1>9 DEF KeyToDayNumber
<1>12. k = [y |-> k.y, m |-> k.m, d |-> k.d]
  BY <1>1, <1>7
<1>13. QED
  BY <1>2, <1>4, <1>7, <1>10, <1>11, <1>12

(* Two keys of the same month and day are the same day. *)
LEMMA SameKey ==
  ASSUME NEW j, NEW k, IsKey(j), IsKey(k), MonthOf(j) = MonthOf(k), j.d = k.d
  PROVE  KeyToDayNumber(j) = KeyToDayNumber(k)
<1>1. j.y = k.y /\ j.m = k.m
  BY KeysInOrder
<1>2. QED
  BY <1>1 DEF KeyToDayNumber

(* Adding months or years lands in that month, on the day that is wanted or on the last. *)
Clamped(k, want) == k.d = Least(want, DaysInMonth(k.y, k.m))

LEMMA AddsMonths ==
  ASSUME NEW key, key.y \in Int, key.m \in 1..12, NEW months \in Int, NEW want \in Int, 1 <= want
  PROVE  \E k : /\ IsKey(k) /\ KeyToDayNumber(k) = AddMonthsClamped(key, months, want)
                /\ MonthOf(k) = MonthOf(key) + months /\ Clamped(k, want)
<1>1. PICK total \in Int : total = key.y * 12 + (key.m - 1) + months
  OBVIOUS
<1>2. PICK y \in Int : y = total \div 12
  OBVIOUS
<1>3. PICK m \in Int : m = (total % 12) + 1
  OBVIOUS
<1>4. m \in 1..12 /\ total = 12 * y + (m - 1)
  BY <1>2, <1>3
<1>5. PICK d : d = Least(want, DaysInMonth(y, m))
  OBVIOUS
<1>6. d \in 1..DaysInMonth(y, m)
  <2>1. DaysInMonth(y, m) \in Int /\ 28 <= DaysInMonth(y, m)
    BY <1>4, Month
  <2>2. QED
    BY <1>5, <2>1 DEF Least
<1>7. PICK k : k = [y |-> y, m |-> m, d |-> d]
  OBVIOUS
<1>8. k.y = y /\ k.m = m /\ k.d = d
  BY <1>7
<1>9. IsKey(k) /\ Clamped(k, want)
  BY <1>4, <1>5, <1>6, <1>8 DEF IsKey, Clamped
<1>10. MonthOf(k) = MonthOf(key) + months
  BY <1>1, <1>4, <1>8 DEF MonthOf
<1>11. AddMonthsClamped(key, months, want) = KeyToDayNumber(k)
  BY <1>1, <1>2, <1>3, <1>5, <1>7 DEF AddMonthsClamped
<1>12. QED
  BY <1>9, <1>10, <1>11

LEMMA AddsYears ==
  ASSUME NEW key, IsKey(key), NEW years \in Int
  PROVE  \E k : /\ IsKey(k) /\ KeyToDayNumber(k) = AddYearsClamped(key, years)
                /\ k.y = key.y + years /\ k.m = key.m /\ Clamped(k, key.d)
<1>1. PICK y \in Int : y = key.y + years
  BY DEF IsKey
<1>2. PICK m \in Int : m = key.m /\ m \in 1..12
  BY DEF IsKey
<1>3. PICK d : d = Least(key.d, DaysInMonth(y, m))
  OBVIOUS
<1>4. d \in 1..DaysInMonth(y, m)
  <2>1. DaysInMonth(y, m) \in Int /\ 28 <= DaysInMonth(y, m)
    BY <1>2, Month
  <2>2. key.d \in Int /\ 1 <= key.d
    BY KeyHasMonth
  <2>3. QED
    BY <1>3, <2>1, <2>2 DEF Least
<1>5. PICK k : k = [y |-> y, m |-> m, d |-> d]
  OBVIOUS
<1>6. k.y = y /\ k.m = m /\ k.d = d
  BY <1>5
<1>7. IsKey(k) /\ Clamped(k, key.d)
  BY <1>2, <1>3, <1>4, <1>6 DEF IsKey, Clamped
<1>8. AddYearsClamped(key, years) = KeyToDayNumber(k)
  BY <1>1, <1>2, <1>3, <1>5 DEF AddYearsClamped
<1>9. QED
  BY <1>1, <1>2, <1>6, <1>7, <1>8

(* A growing series of days, the number of the last one before a day, and what four
   tries find in it: the four tries are enough, whatever is tried. *)
Series(c) == c \in [Nat -> Int] /\ \A j, k \in Nat : j < k => c[j] < c[k]

Passes(c, k0, from) == from < c[k0 + 1] /\ \A k \in Nat : k < k0 => c[k] <= from

Tried(c, distance, interval, from) ==
  Earliest({ x \in { c[k] : k \in Tries(distance, interval) } : x > from })

FirstPast(c, from, e) ==
  \E k \in Nat : e = c[k] /\ from < e /\ \A j \in Nat : from < c[j] => e <= c[j]

LEMMA TriesSuffice ==
  ASSUME NEW c, Series(c), NEW from \in Nat, NEW distance \in Nat, NEW interval \in Nat \ {0},
         NEW k0 \in Nat, k0 = distance \div interval, Passes(c, k0, from),
         NEW e, e = Tried(c, distance, interval, from)
  PROVE  FirstPast(c, from, e)
<1> USE DEF Series, Passes
<1> DEFINE days == { x \in { c[k] : k \in Tries(distance, interval) } : x > from }
<1>1. Tries(distance, interval) \subseteq Nat /\ {k0, k0 + 1} \subseteq Tries(distance, interval)
  BY DEF Tries, FirstTry
<1>2. days \in SUBSET Int /\ (\A x \in days : from <= x) /\ c[k0 + 1] \in days
  BY <1>1
<1>3. e = Earliest(days)
  BY DEF Tried
<1>4. \A x \in days : from < x /\ \E k \in Nat : x = c[k]
  BY <1>1
<1>5. c[k0] > from => c[k0] \in days
  BY <1>1
<1> HIDE DEF days
<1>6. e \in days /\ \A x \in days : e <= x
  <2>1. days # {}
    BY <1>2
  <2>2. Earliest(days) \in days /\ \A x \in days : Earliest(days) <= x
    <3>1. from \in Int
      OBVIOUS
    <3>2. QED
      BY <1>2, <2>1, <3>1, LeastOne
  <2>3. QED
    BY <1>3, <2>2
<1>7. ASSUME NEW j \in Nat, from < c[j] PROVE e <= c[j]
  <2>1. j >= k0 /\ c[j] \in Int /\ e \in Int
    BY <1>2, <1>6, <1>7
  <2>2. CASE j = k0
    BY <1>5, <1>6, <1>7, <2>2
  <2>3. CASE j = k0 + 1
    BY <1>2, <1>6, <2>3
  <2>4. CASE k0 + 1 < j
    <3>1. e <= c[k0 + 1] /\ c[k0 + 1] < c[j] /\ c[k0 + 1] \in Int
      BY <1>2, <1>6, <2>4
    <3>2. QED
      BY <2>1, <3>1
  <2>5. QED
    BY <2>1, <2>2, <2>3, <2>4
<1>8. QED
  BY <1>4, <1>6, <1>7 DEF FirstPast

----------------------------------------------------------------------------
(* The first day of the schedule after a day. *)
Given == rule \in Rules /\ anchor \in Nat

Opens(e, from) ==
  /\ e \in Nat /\ from < e /\ Scheduled(e)
  /\ \A n \in Nat : from < n /\ Scheduled(n) => e <= n

LEMMA RuleFields ==
  ASSUME NEW r \in Rules
  PROVE  /\ r.interval \in Nat \ {0} /\ r.daysOfWeek \in SUBSET (0..6) /\ r.dayOfMonth \in 1..31 \cup {Null}
         /\ r.repeatAfterCompletion \in BOOLEAN /\ r.delayValue \in Nat \cup {Null}
         /\ r.delayUnit \in {"days", "weeks", "months", "years", Null}
         /\ r.endType \in {"never", "after_count", "on_date"}
         /\ r.endType = "after_count" => r.endCount \in Nat \ {0} /\ r.endCount # Null
         /\ r.endType = "on_date" => r.endDate \in Int /\ r.endDate # Null
         /\ EffectiveFrequency(r) \in {"daily", "weekly", "monthly", "yearly"}
BY DEF Rules, EffectiveFrequency

LEMMA DailyOpens ==
  ASSUME Given, EffectiveFrequency(rule) = "daily", NEW from \in Nat, anchor <= from
  PROVE  Opens(NextDaily(rule, anchor, from), from)
<1>1. PICK i \in Nat \ {0} : i = rule.interval
  BY RuleFields DEF Given
<1>2. \A n : Scheduled(n) <=> n > anchor /\ (n - anchor) % i = 0
  BY <1>1 DEF Scheduled
<1>3. PICK q \in Int : q = (from - anchor) \div i
  BY Division DEF Given
<1>4. anchor \in Nat /\ i * q <= from - anchor /\ from - anchor < i * q + i /\ 0 <= q
  BY <1>3, Division DEF Given
<1>5. PICK p \in Int : p = q + 1
  OBVIOUS
<1>6. i * p = i * q + i /\ i * p \in Int /\ i * q \in Int /\ p * i = i * p
  BY <1>5, Multiples
<1>7. PICK e : e = NextDaily(rule, anchor, from)
  OBVIOUS
<1>8. e = anchor + i * p
  BY <1>1, <1>3, <1>5, <1>6, <1>7 DEF NextDaily
<1>9. e \in Nat /\ from < e /\ e - anchor = i * p
  BY <1>4, <1>6, <1>8
<1>10. (e - anchor) % i = 0
  BY <1>4, <1>9, Remainder
<1>11. ASSUME NEW n \in Nat, from < n, Scheduled(n) PROVE e <= n
  <2>1. PICK x \in Int : x = n - anchor
    BY <1>4
  <2>2. x = i * (x \div i) /\ x \div i \in Int
    BY <1>2, <1>11, <2>1, Remainder, Division
  <2>3. PICK s \in Int : s = x \div i
    BY <2>2
  <2>4. i * q < i * s
    BY <1>4, <1>6, <1>11, <2>1, <2>2, <2>3
  <2>5. q < s
    BY <2>4, Multiples
  <2>6. i * q + i <= i * s
    BY <2>5, Multiples
  <2>7. QED
    BY <1>4, <1>6, <1>8, <2>1, <2>2, <2>3, <2>6
<1>12. Scheduled(e)
  BY <1>2, <1>4, <1>9, <1>10
<1>13. QED
  BY <1>7, <1>9, <1>11, <1>12 DEF Opens

(* Weeks are counted from the Sunday of the source's. *)
LEMMA WeekOf ==
  ASSUME NEW n \in Int, NEW s \in Int, (s + 4) % 7 = 0, NEW w \in Int, w = (n - s) \div 7
  PROVE  WeekStart(n) = s + 7 * w
BY DEF WeekStart, Weekday

LEMMA WeeklyOpens ==
  ASSUME Given, EffectiveFrequency(rule) = "weekly", NEW from \in Nat, anchor <= from
  PROVE  Opens(NextWeekly(rule, anchor, from), from)
<1>1. PICK i \in Nat \ {0} : i = rule.interval
  BY RuleFields DEF Given
<1>2. PICK wanted \in SUBSET (0..6) : wanted = IF rule.daysOfWeek = {} THEN {Weekday(anchor)} ELSE rule.daysOfWeek
  <2>1. rule.daysOfWeek \in SUBSET (0..6)
    BY RuleFields DEF Given
  <2>2. Weekday(anchor) \in 0..6
    BY DEF Given, Weekday
  <2>3. QED
    BY <2>1, <2>2
<1>3. wanted # {}
  BY <1>2
<1>4. PICK s \in Int : s = WeekStart(anchor)
  BY DEF WeekStart, Weekday, Given
<1>5. anchor \in Nat /\ s <= anchor /\ (s + 4) % 7 = 0
  BY <1>4 DEF WeekStart, Weekday, Given
<1> DEFINE week(n) == (n - s) \div 7
<1>6. \A n : Scheduled(n) <=> /\ n > anchor /\ Weekday(n) \in wanted
                              /\ \E k \in 0..week(n) : WeekStart(n) = s + 7 * i * k
  BY <1>1, <1>2, <1>4 DEF Scheduled
<1>7. ASSUME NEW n \in Nat, n > anchor
      PROVE  week(n) % i = 0 <=> \E k \in 0..week(n) : WeekStart(n) = s + 7 * i * k
  <2>1. PICK w \in Nat : w = week(n)
    BY <1>5, <1>7
  <2>2. WeekStart(n) = s + 7 * w
    <3>1. n \in Int /\ s \in Int /\ (s + 4) % 7 = 0 /\ w \in Int /\ w = (n - s) \div 7
      BY <1>5, <2>1
    <3>2. QED
      BY <3>1, WeekOf
  <2>3. \A k \in Int : 7 * i * k = 7 * (i * k) /\ i * k \in Int
    OBVIOUS
  <2>4. ASSUME w % i = 0 PROVE \E k \in 0..w : WeekStart(n) = s + 7 * i * k
    <3>1. PICK k \in Int : k = w \div i
      BY Division
    <3>2. w = i * k /\ 0 <= k
      BY <2>4, <3>1, Remainder, Division
    <3>3. k <= w
      BY <3>2
    <3>4. QED
      BY <2>2, <2>3, <3>2, <3>3
  <2>5. ASSUME NEW k \in 0..w, WeekStart(n) = s + 7 * i * k PROVE w % i = 0
    <3>1. w = i * k
      BY <2>2, <2>3, <2>5
    <3>2. QED
      BY <3>1, Remainder
  <2>6. QED
    BY <2>1, <2>4, <2>5
<1> DEFINE days == { n \in (from + 1)..(from + 7 * (i + 1)) : Weekday(n) \in wanted /\ week(n) % i = 0 }
<1>8. NextWeekly(rule, anchor, from) = Earliest(days)
  BY <1>1, <1>2, <1>4 DEF NextWeekly
<1>9. \A n \in Nat : from < n => (Scheduled(n) <=> Weekday(n) \in wanted /\ week(n) % i = 0)
  <2>1. \A n \in Nat : from < n => n > anchor
    BY <1>5
  <2> HIDE DEF week
  <2>2. QED
    BY <1>6, <1>7, <2>1
<1>10. \E n \in Nat : n \in days
  <2>1. PICK d \in 0..6 : d \in wanted
    BY <1>2, <1>3
  <2>2. PICK w \in Nat : w = week(from)
    BY <1>5
  <2>3. PICK q \in Int : q = w \div i
    <3>1. w \in Int
      OBVIOUS
    <3>2. w \div i \in Int
      BY <3>1, Division
    <3>3. QED
      BY <3>2
  <2>4. i * q <= w /\ w < i * q + i /\ 0 <= q
    BY <2>3, Division
  <2>5. PICK v \in Int : v = i * (q + 1)
    OBVIOUS
  <2>6. v = i * q + i /\ i * q \in Int
    BY <2>5, Multiples
  <2>7. w < v /\ v <= w + i
    BY <2>4, <2>6
  <2>8. PICK n \in Int : n = s + 7 * v + d
    OBVIOUS
  <2>9. s + 7 * w <= from /\ from < s + 7 * w + 7
    BY <2>2
  <2>10. from < n /\ n <= from + 7 * (i + 1)
    BY <2>7, <2>8, <2>9
  <2>11. Weekday(n) = d
    BY <1>5, <2>8 DEF Weekday
  <2>12. week(n) = v
    BY <2>8
  <2>13. v % i = 0
    BY <2>5, Remainder
  <2>14. QED
    BY <2>1, <2>10, <2>11, <2>12, <2>13
<1>11. days \in SUBSET Nat /\ \A n \in days : from < n /\ n <= from + 7 * (i + 1)
  OBVIOUS
<1>12. \A n \in days : Scheduled(n)
  BY <1>9, <1>11
<1>13. ASSUME NEW n \in Nat, from < n, Scheduled(n), n <= from + 7 * (i + 1) PROVE n \in days
  BY <1>9, <1>13
<1> HIDE DEF days
<1>14. PICK e : e = Earliest(days)
  OBVIOUS
<1>15. e \in days /\ \A n \in days : e <= n
  <2>1. days \in SUBSET Int /\ days # {} /\ \A n \in days : from <= n
    BY <1>10, <1>11
  <2>2. Earliest(days) \in days /\ \A n \in days : Earliest(days) <= n
    BY <2>1, LeastOne
  <2>3. QED
    BY <1>14, <2>2
<1>16. ASSUME NEW n \in Nat, from < n, Scheduled(n) PROVE e <= n
  BY <1>11, <1>13, <1>15, <1>16
<1>17. Opens(e, from)
  BY <1>11, <1>12, <1>15, <1>16 DEF Opens
<1>18. QED
  BY <1>8, <1>14, <1>17

(* A day is that of a clamped key when it is in its month, clamped to the same day. *)
LEMMA ClampedDay ==
  ASSUME NEW n \in Nat, NEW key, key = DayNumberToKey(n), NEW k, IsKey(k), NEW want \in Int, Clamped(k, want)
  PROVE  n = KeyToDayNumber(k) <=> MonthOf(key) = MonthOf(k) /\ Clamped(key, want)
<1>1. IsKey(key) /\ KeyToDayNumber(key) = n
  BY KeyOfDay
<1>2. ASSUME n = KeyToDayNumber(k) PROVE MonthOf(key) = MonthOf(k) /\ Clamped(key, want)
  <2>1. key.y = k.y /\ key.m = k.m /\ key.d = k.d
    BY <1>1, <1>2, OneKey
  <2>2. QED
    BY <2>1 DEF MonthOf, Clamped
<1>3. ASSUME MonthOf(key) = MonthOf(k), Clamped(key, want) PROVE n = KeyToDayNumber(k)
  <2>1. key.y = k.y /\ key.m = k.m
    BY <1>1, <1>3, KeysInOrder
  <2>2. key.d = k.d
    BY <1>3, <2>1 DEF Clamped
  <2>3. QED
    BY <1>1, <1>3, <2>2, SameKey
<1>4. QED
  BY <1>2, <1>3

LEMMA ClampedIs ==
  ASSUME NEW k, IsKey(k), NEW want \in Int
  PROVE  Clamped(k, want) <=> k.d = want \/ (k.d < want /\ k.d = DaysInMonth(k.y, k.m))
<1>1. k.d \in Int /\ k.d <= DaysInMonth(k.y, k.m) /\ DaysInMonth(k.y, k.m) \in Int
  BY KeyHasMonth
<1>2. QED
  BY <1>1 DEF Clamped, Least

(* The candidates of a month or a year are the schedule: the earliest after a day opens it. *)
LEMMA SeriesOpens ==
  ASSUME anchor \in Nat, NEW from \in Nat, anchor <= from,
         NEW c, Series(c), \A n \in Nat : n > anchor => (Scheduled(n) <=> \E k \in Nat : n = c[k]),
         NEW distance \in Nat, NEW interval \in Nat \ {0},
         NEW k0 \in Nat, k0 = distance \div interval, Passes(c, k0, from),
         NEW e, e = Tried(c, distance, interval, from)
  PROVE  Opens(e, from)
<1>1. FirstPast(c, from, e)
  BY TriesSuffice
<1>2. PICK k \in Nat : e = c[k] /\ from < e /\ \A j \in Nat : from < c[j] => e <= c[j]
  BY <1>1 DEF FirstPast
<1>3. e \in Nat /\ e > anchor
  BY <1>2 DEF Series
<1>4. Scheduled(e)
  BY <1>2, <1>3
<1>5. ASSUME NEW n \in Nat, from < n, Scheduled(n) PROVE e <= n
  <2>1. n > anchor
    BY <1>5
  <2>2. PICK j \in Nat : n = c[j]
    BY <1>5, <2>1
  <2>3. QED
    BY <1>2, <1>5, <2>2
<1>6. QED
  BY <1>2, <1>3, <1>4, <1>5 DEF Opens

LEMMA MonthlyOpens ==
  ASSUME Given, EffectiveFrequency(rule) = "monthly", NEW from \in Nat, anchor <= from
  PROVE  Opens(NextMonthly(rule, anchor, from), from)
<1>1. PICK i \in Nat \ {0} : i = rule.interval
  BY RuleFields DEF Given
<1>2. anchor \in Nat
  BY DEF Given
<1>3. PICK a : a = DayNumberToKey(anchor)
  OBVIOUS
<1>4. PICK f : f = DayNumberToKey(from)
  OBVIOUS
<1>5. IsKey(a) /\ IsKey(f) /\ KeyToDayNumber(a) = anchor /\ KeyToDayNumber(f) = from
  BY <1>2, <1>3, <1>4, KeyOfDay
<1>6. PICK want : want = IF rule.dayOfMonth # Null THEN rule.dayOfMonth ELSE a.d
  OBVIOUS
<1>7. want \in Int /\ 1 <= want
  <2>1. rule.dayOfMonth \in 1..31 \cup {Null}
    BY RuleFields DEF Given
  <2>2. a.d \in Int /\ 1 <= a.d
    BY <1>5, KeyHasMonth
  <2>3. QED
    BY <1>6, <2>1, <2>2
<1>8. PICK b : b = [a EXCEPT !.d = 1]
  OBVIOUS
<1>9. b.y = a.y /\ b.m = a.m
  <2>1. a = [y |-> a.y, m |-> a.m, d |-> a.d]
    BY <1>2, <1>3, KeyOfDay
  <2>2. PICK y, m, d : a = [y |-> y, m |-> m, d |-> d]
    BY <2>1
  <2>3. QED
    BY <1>8, <2>2
<1>10. PICK origin \in Int : origin = MonthOf(a) /\ origin = MonthOf(b)
  BY <1>5, <1>9 DEF MonthOf, IsKey
<1> DEFINE c == [k \in Nat |-> AddMonthsClamped(b, k * i, want)]
<1>11. \A k \in Nat : \E key : /\ IsKey(key) /\ KeyToDayNumber(key) = c[k] /\ Clamped(key, want)
                               /\ MonthOf(key) = origin + k * i
  <2>1. TAKE k \in Nat
  <2>2. PICK months \in Int : months = k * i
    OBVIOUS
  <2>3. b.y \in Int /\ b.m \in 1..12
    BY <1>5, <1>9 DEF IsKey
  <2>4. PICK key : /\ IsKey(key) /\ KeyToDayNumber(key) = AddMonthsClamped(b, months, want)
                   /\ MonthOf(key) = MonthOf(b) + months /\ Clamped(key, want)
    BY <1>7, <2>3, AddsMonths
  <2>5. QED
    BY <1>10, <2>2, <2>4
<1>12. DOMAIN c = Nat /\ c = [k \in Nat |-> c[k]]
  OBVIOUS
<1>13. \A k \in Nat : c[k] = AddMonthsClamped(b, k * i, want)
  OBVIOUS
<1> HIDE DEF c
<1>14. c \in [Nat -> Int]
  <2>1. \A k \in Nat : c[k] \in Int
    BY <1>11, KeysInOrder
  <2>2. QED
    BY <1>12, <2>1
<1>15. \A j, k \in Nat : j < k => c[j] < c[k]
  <2>1. SUFFICES ASSUME NEW j \in Nat, NEW k \in Nat, j < k PROVE c[j] < c[k]
    OBVIOUS
  <2>2. PICK p : IsKey(p) /\ KeyToDayNumber(p) = c[j] /\ MonthOf(p) = origin + j * i
    BY <1>11
  <2>3. PICK q : IsKey(q) /\ KeyToDayNumber(q) = c[k] /\ MonthOf(q) = origin + k * i
    BY <1>11
  <2>4. j * i < k * i /\ j * i \in Int /\ k * i \in Int
    BY <2>1, Multiples
  <2>5. QED
    BY <2>2, <2>3, <2>4, KeysInOrder
<1>16. \A n \in Nat : n > anchor => (Scheduled(n) <=> \E k \in Nat : n = c[k])
  <2>1. SUFFICES ASSUME NEW n \in Nat, n > anchor PROVE Scheduled(n) <=> \E k \in Nat : n = c[k]
    OBVIOUS
  <2>2. PICK key : key = DayNumberToKey(n)
    OBVIOUS
  <2>3. IsKey(key) /\ KeyToDayNumber(key) = n
    BY <2>2, KeyOfDay
  <2>4. PICK x \in Int : x = (key.y - a.y) * 12 + (key.m - a.m)
    BY <1>5, <2>3 DEF IsKey
  <2>5. MonthOf(key) = origin + x /\ 0 <= x
    <3>1. MonthOf(key) = origin + x
      <4>1. /\ key.y \in Int /\ key.m \in Int /\ a.y \in Int /\ a.m \in Int
            /\ origin = a.y * 12 + (a.m - 1)
        BY <1>5, <1>10, <2>3 DEF IsKey, MonthOf
      <4>2. QED
        BY <2>4, <4>1 DEF MonthOf
    <3>2. ~(MonthOf(key) < MonthOf(a))
      BY <1>5, <2>1, <2>3, KeysInOrder
    <3>3. QED
      BY <1>10, <3>1, <3>2
  <2>6. Scheduled(n) <=> x % i = 0 /\ Clamped(key, want)
    <3>1. Clamped(key, want) <=> key.d = want \/ (key.d < want /\ key.d = DaysInMonth(key.y, key.m))
      BY <1>7, <2>3, ClampedIs
    <3>2. QED
      BY <1>1, <1>3, <1>6, <2>1, <2>2, <2>4, <3>1 DEF Scheduled, MonthsFromAnchor
  <2>7. ASSUME x % i = 0, Clamped(key, want) PROVE \E k \in Nat : n = c[k]
    <3>1. PICK k \in Int : k = x \div i
      BY Division
    <3>2. k \in Nat /\ x = k * i
      BY <2>5, <2>7, <3>1, Remainder, Division, Multiples
    <3>3. PICK q : /\ IsKey(q) /\ KeyToDayNumber(q) = c[k] /\ Clamped(q, want)
                   /\ MonthOf(q) = origin + k * i
      BY <1>11, <3>2
    <3>4. n = KeyToDayNumber(q)
      BY <1>7, <2>2, <2>5, <2>7, <3>2, <3>3, ClampedDay
    <3>5. QED
      BY <3>2, <3>3, <3>4
  <2>8. ASSUME NEW k \in Nat, n = c[k] PROVE x % i = 0 /\ Clamped(key, want)
    <3>1. PICK q : /\ IsKey(q) /\ KeyToDayNumber(q) = c[k] /\ Clamped(q, want)
                   /\ MonthOf(q) = origin + k * i
      BY <1>11
    <3>2. MonthOf(key) = MonthOf(q) /\ Clamped(key, want)
      BY <1>7, <2>2, <2>8, <3>1, ClampedDay
    <3>3. PICK z \in Int : z = k * i /\ z = i * k
      BY Multiples
    <3>4. x = i * k
      BY <2>5, <3>1, <3>2, <3>3
    <3>5. QED
      BY <3>2, <3>4, Remainder
  <2>9. QED
    BY <2>6, <2>7, <2>8
<1>17. PICK distance \in Nat : distance = (f.y - a.y) * 12 + (f.m - a.m) /\ MonthOf(f) = origin + distance
  <2>1. PICK x \in Int : x = (f.y - a.y) * 12 + (f.m - a.m)
    BY <1>5 DEF IsKey
  <2>2. MonthOf(f) = origin + x
    BY <1>5, <1>10, <2>1 DEF IsKey, MonthOf
  <2>3. ~(MonthOf(f) < MonthOf(a))
    BY <1>5, KeysInOrder
  <2>4. QED
    BY <1>10, <2>1, <2>2, <2>3
<1>18. PICK k0 \in Nat : k0 = distance \div i
  BY Division
<1>19. i * k0 <= distance /\ distance < i * k0 + i /\ i * k0 \in Int
  BY <1>18, Division, Multiples
<1>20. from < c[k0 + 1]
  <2>1. PICK k \in Nat : k = k0 + 1
    OBVIOUS
  <2>2. PICK q : IsKey(q) /\ KeyToDayNumber(q) = c[k] /\ MonthOf(q) = origin + k * i
    BY <1>11
  <2>3. k * i = i * k0 + i
    BY <2>1, Multiples
  <2>4. MonthOf(f) < MonthOf(q)
    BY <1>17, <1>19, <2>2, <2>3
  <2>5. QED
    BY <1>5, <2>1, <2>2, <2>4, KeysInOrder
<1>21. \A k \in Nat : k < k0 => c[k] <= from
  <2>1. SUFFICES ASSUME NEW k \in Nat, k < k0 PROVE c[k] <= from
    OBVIOUS
  <2>2. PICK q : IsKey(q) /\ KeyToDayNumber(q) = c[k] /\ MonthOf(q) = origin + k * i
    BY <1>11
  <2>3. k * i < i * k0 /\ k * i \in Int
    BY <2>1, Multiples
  <2>4. MonthOf(q) < MonthOf(f)
    BY <1>17, <1>19, <2>2, <2>3
  <2>5. c[k] < from
    BY <1>5, <2>2, <2>4, KeysInOrder
  <2>6. QED
    BY <1>14, <2>5
<1>22. PICK e : e = NextMonthly(rule, anchor, from)
  OBVIOUS
<1>23. e = Tried(c, distance, i, from)
  <2>1. Tries(distance, i) \subseteq Nat
    BY <1>18 DEF Tries, FirstTry
  <2>2. \A k \in Tries(distance, i) : AddMonthsClamped(b, k * i, want) = c[k]
    BY <1>13, <2>1
  <2>3. { AddMonthsClamped(b, k * i, want) : k \in Tries(distance, i) } = { c[k] : k \in Tries(distance, i) }
    BY <2>2
  <2>4. e = Earliest({ x \in { AddMonthsClamped(b, k * i, want) : k \in Tries(distance, i) } : x > from })
    BY <1>1, <1>3, <1>4, <1>6, <1>8, <1>17, <1>22, Zenon DEF NextMonthly
  <2>5. QED
    BY <2>3, <2>4 DEF Tried
<1>24. Opens(e, from)
  <2>1. Series(c) /\ Passes(c, k0, from)
    BY <1>14, <1>15, <1>20, <1>21 DEF Series, Passes
  <2>2. QED
    BY <1>2, <1>16, <1>18, <1>23, <2>1, SeriesOpens
<1>25. QED
  BY <1>22, <1>24

LEMMA YearsInOrder ==
  ASSUME NEW j, NEW k, IsKey(j), IsKey(k)
  PROVE  /\ j.y < k.y => KeyToDayNumber(j) < KeyToDayNumber(k)
         /\ j.y = k.y /\ j.m = k.m => MonthOf(j) = MonthOf(k)
<1>1. j.y < k.y => MonthOf(j) < MonthOf(k)
  BY DEF IsKey, MonthOf
<1>2. QED
  BY <1>1, KeysInOrder DEF MonthOf

LEMMA YearlyOpens ==
  ASSUME Given, EffectiveFrequency(rule) = "yearly", NEW from \in Nat, anchor <= from
  PROVE  Opens(NextYearly(rule, anchor, from), from)
<1>1. PICK i \in Nat \ {0} : i = rule.interval
  BY RuleFields DEF Given
<1>2. anchor \in Nat
  BY DEF Given
<1>3. PICK a : a = DayNumberToKey(anchor)
  OBVIOUS
<1>4. PICK f : f = DayNumberToKey(from)
  OBVIOUS
<1>5. IsKey(a) /\ IsKey(f) /\ KeyToDayNumber(a) = anchor /\ KeyToDayNumber(f) = from
  BY <1>2, <1>3, <1>4, KeyOfDay
<1>6. PICK want \in Int : want = a.d /\ 1 <= want
  BY <1>5, KeyHasMonth
<1>7. PICK origin \in Int : origin = a.y
  BY <1>5 DEF IsKey
<1> DEFINE c == [k \in Nat |-> AddYearsClamped(a, k * i)]
<1>8. \A k \in Nat : \E key : /\ IsKey(key) /\ KeyToDayNumber(key) = c[k] /\ Clamped(key, want)
                              /\ key.y = origin + k * i /\ key.m = a.m
  <2>1. TAKE k \in Nat
  <2>2. PICK years \in Int : years = k * i
    OBVIOUS
  <2>3. PICK key : /\ IsKey(key) /\ KeyToDayNumber(key) = AddYearsClamped(a, years)
                   /\ key.y = a.y + years /\ key.m = a.m /\ Clamped(key, a.d)
    BY <1>5, AddsYears
  <2>4. QED
    BY <1>6, <1>7, <2>2, <2>3
<1>9. DOMAIN c = Nat /\ c = [k \in Nat |-> c[k]]
  OBVIOUS
<1>10. \A k \in Nat : c[k] = AddYearsClamped(a, k * i)
  OBVIOUS
<1> HIDE DEF c
<1>11. Series(c)
  <2>1. \A k \in Nat : c[k] \in Int
    BY <1>8, KeysInOrder
  <2>2. ASSUME NEW j \in Nat, NEW k \in Nat, j < k PROVE c[j] < c[k]
    <3>1. PICK p : IsKey(p) /\ KeyToDayNumber(p) = c[j] /\ p.y = origin + j * i
      BY <1>8
    <3>2. PICK q : IsKey(q) /\ KeyToDayNumber(q) = c[k] /\ q.y = origin + k * i
      BY <1>8
    <3>3. j * i < k * i /\ j * i \in Int /\ k * i \in Int
      BY <2>2, Multiples
    <3>4. p.y < q.y
      BY <3>1, <3>2, <3>3
    <3>5. QED
      BY <3>1, <3>2, <3>4, YearsInOrder
  <2>3. QED
    BY <1>9, <2>1, <2>2 DEF Series
<1>12. \A n \in Nat : n > anchor => (Scheduled(n) <=> \E k \in Nat : n = c[k])
  <2>1. SUFFICES ASSUME NEW n \in Nat, n > anchor PROVE Scheduled(n) <=> \E k \in Nat : n = c[k]
    OBVIOUS
  <2>2. PICK key : key = DayNumberToKey(n)
    OBVIOUS
  <2>3. IsKey(key) /\ KeyToDayNumber(key) = n
    BY <2>2, KeyOfDay
  <2>4. PICK x \in Int : x = key.y - a.y
    BY <1>5, <2>3 DEF IsKey
  <2>5. key.y = origin + x /\ 0 <= x
    <3>1. key.y \in Int /\ a.y \in Int
      BY <1>5, <2>3 DEF IsKey
    <3>2. ~(key.y < a.y)
      BY <1>2, <1>5, <2>1, <2>3, YearsInOrder
    <3>3. QED
      BY <1>7, <2>4, <3>1, <3>2
  <2>6. Scheduled(n) <=> key.m = a.m /\ x % i = 0 /\ Clamped(key, want)
    <3>1. Clamped(key, want) <=> key.d = want \/ (key.d < want /\ key.d = DaysInMonth(key.y, key.m))
      BY <2>3, ClampedIs
    <3>2. QED
      BY <1>1, <1>3, <1>6, <2>1, <2>2, <2>4, <3>1 DEF Scheduled
  <2>7. ASSUME key.m = a.m, x % i = 0, Clamped(key, want) PROVE \E k \in Nat : n = c[k]
    <3>1. PICK k \in Int : k = x \div i
      BY Division
    <3>2. k \in Nat /\ x = k * i
      <4>1. x = i * k /\ 0 <= k
        BY <2>5, <2>7, <3>1, Remainder, Division
      <4>2. QED
        BY <4>1, Multiples
    <3>3. PICK q : /\ IsKey(q) /\ KeyToDayNumber(q) = c[k] /\ Clamped(q, want)
                   /\ q.y = origin + k * i /\ q.m = a.m
      BY <1>8, <3>2
    <3>4. MonthOf(key) = MonthOf(q)
      BY <2>5, <2>7, <3>2, <3>3 DEF MonthOf
    <3>5. n = KeyToDayNumber(q)
      BY <2>2, <2>7, <3>3, <3>4, ClampedDay
    <3>6. QED
      BY <3>2, <3>3, <3>5
  <2>8. ASSUME NEW k \in Nat, n = c[k] PROVE key.m = a.m /\ x % i = 0 /\ Clamped(key, want)
    <3>1. PICK q : /\ IsKey(q) /\ KeyToDayNumber(q) = c[k] /\ Clamped(q, want)
                   /\ q.y = origin + k * i /\ q.m = a.m
      BY <1>8
    <3>2. MonthOf(key) = MonthOf(q) /\ Clamped(key, want)
      BY <2>2, <2>8, <3>1, ClampedDay
    <3>3. key.y = q.y /\ key.m = q.m
      BY <2>3, <3>1, <3>2, KeysInOrder
    <3>4. PICK z \in Int : z = k * i /\ z = i * k
      BY Multiples
    <3>5. x = i * k
      BY <2>5, <3>1, <3>3, <3>4
    <3>6. QED
      BY <3>1, <3>2, <3>3, <3>5, Remainder
  <2>9. QED
    BY <2>6, <2>7, <2>8
<1>13. PICK distance \in Nat : distance = f.y - a.y /\ f.y = origin + distance
  <2>1. f.y \in Int /\ a.y \in Int
    BY <1>5 DEF IsKey
  <2>2. ~(f.y < a.y)
    BY <1>2, <1>5, YearsInOrder
  <2>3. QED
    BY <1>7, <2>1, <2>2
<1>14. PICK k0 \in Nat : k0 = distance \div i
  BY Division
<1>15. i * k0 <= distance /\ distance < i * k0 + i /\ i * k0 \in Int
  BY <1>14, Division, Multiples
<1>16. from < c[k0 + 1]
  <2>1. PICK k \in Nat : k = k0 + 1
    OBVIOUS
  <2>2. PICK q : IsKey(q) /\ KeyToDayNumber(q) = c[k] /\ q.y = origin + k * i
    BY <1>8
  <2>3. k * i = i * k0 + i
    BY <2>1, Multiples
  <2>4. f.y < q.y
    BY <1>13, <1>15, <2>2, <2>3
  <2>5. QED
    BY <1>5, <2>1, <2>2, <2>4, YearsInOrder
<1>17. \A k \in Nat : k < k0 => c[k] <= from
  <2>1. SUFFICES ASSUME NEW k \in Nat, k < k0 PROVE c[k] <= from
    OBVIOUS
  <2>2. PICK q : IsKey(q) /\ KeyToDayNumber(q) = c[k] /\ q.y = origin + k * i
    BY <1>8
  <2>3. k * i < i * k0 /\ k * i \in Int
    BY <2>1, Multiples
  <2>4. q.y < f.y
    BY <1>13, <1>15, <2>2, <2>3
  <2>5. c[k] < from /\ c[k] \in Int
    BY <1>5, <2>2, <2>4, YearsInOrder, KeysInOrder
  <2>6. QED
    BY <2>5
<1>18. PICK e : e = NextYearly(rule, anchor, from)
  OBVIOUS
<1>19. e = Tried(c, distance, i, from)
  <2>1. Tries(distance, i) \subseteq Nat
    BY <1>14 DEF Tries, FirstTry
  <2>2. \A k \in Tries(distance, i) : AddYearsClamped(a, k * i) = c[k]
    BY <1>10, <2>1
  <2>3. { AddYearsClamped(a, k * i) : k \in Tries(distance, i) } = { c[k] : k \in Tries(distance, i) }
    BY <2>2
  <2>4. e = Earliest({ x \in { AddYearsClamped(a, k * i) : k \in Tries(distance, i) } : x > from })
    BY <1>1, <1>3, <1>4, <1>13, <1>18, Zenon DEF NextYearly
  <2>5. QED
    BY <2>3, <2>4 DEF Tried
<1>20. Opens(e, from)
  <2>1. Passes(c, k0, from)
    BY <1>16, <1>17 DEF Passes
  <2>2. QED
    BY <1>2, <1>11, <1>12, <1>14, <1>19, <2>1, SeriesOpens
<1>21. QED
  BY <1>18, <1>20

(* nextScheduled opens the schedule after the later of its two days. *)
LEMMA NextOpens ==
  ASSUME Given, NEW after \in Nat, NEW from, from = IF after < anchor THEN anchor ELSE after
  PROVE  Opens(NextScheduled(rule, anchor, after), from)
<1>1. from \in Nat /\ anchor <= from
  BY DEF Given
<1>2. PICK n : n = NextScheduled(rule, anchor, after)
  OBVIOUS
<1>3. EffectiveFrequency(rule) \in {"daily", "weekly", "monthly", "yearly"}
  BY RuleFields DEF Given
<1>4. CASE EffectiveFrequency(rule) = "daily"
  <2>1. n = NextDaily(rule, anchor, from)
    BY <1>2, <1>4 DEF NextScheduled
  <2>2. QED
    BY <1>1, <1>2, <1>4, <2>1, DailyOpens
<1>5. CASE EffectiveFrequency(rule) = "weekly"
  <2>1. n = NextWeekly(rule, anchor, from)
    BY <1>2, <1>5 DEF NextScheduled
  <2>2. QED
    BY <1>1, <1>2, <1>5, <2>1, WeeklyOpens
<1>6. CASE EffectiveFrequency(rule) = "monthly"
  <2>1. n = NextMonthly(rule, anchor, from)
    BY <1>2, <1>6 DEF NextScheduled
  <2>2. QED
    BY <1>1, <1>2, <1>6, <2>1, MonthlyOpens
<1>7. CASE EffectiveFrequency(rule) = "yearly"
  <2>1. n = NextYearly(rule, anchor, from)
    BY <1>2, <1>7 DEF NextScheduled
  <2>2. QED
    BY <1>1, <1>2, <1>7, <2>1, YearlyOpens
<1>8. QED
  BY <1>3, <1>4, <1>5, <1>6, <1>7

----------------------------------------------------------------------------
(* The delay of a repeat-after-completion rule. *)
LEMMA StepIs ==
  ASSUME Given, NEW step, step = DelayStep(rule)
  PROVE  step.unit \in {"days", "weeks", "months", "years"} /\ step.value \in Nat
<1>1. /\ rule.delayValue \in Nat \cup {Null} /\ rule.delayUnit \in {"days", "weeks", "months", "years", Null}
      /\ rule.interval \in Nat /\ EffectiveFrequency(rule) \in {"daily", "weekly", "monthly", "yearly"}
  BY RuleFields DEF Given
<1>2. QED
  BY <1>1 DEF DelayStep

(* A day that many months on, clamped, is no earlier and is read back as such. *)
LEMMA LandsAfter ==
  ASSUME NEW done \in Nat, NEW key, key = DayNumberToKey(done),
         NEW k, IsKey(k), NEW months \in Nat, MonthOf(k) = MonthOf(key) + months, Clamped(k, key.d),
         NEW to, to = KeyToDayNumber(k), NEW j, j = DayNumberToKey(to)
  PROVE  /\ to \in Nat /\ done <= to
         /\ (j.y - key.y) * 12 + (j.m - key.m) = months
         /\ j.d = key.d \/ j.d = DaysInMonth(j.y, j.m)
<1>1. IsKey(key) /\ KeyToDayNumber(key) = done
  BY KeyOfDay
<1>2. to \in Int /\ MonthOf(key) \in Int /\ key.d \in Int
  BY <1>1, KeysInOrder, KeyHasMonth
<1>3. done <= to
  <2>1. CASE months = 0
    <3>1. MonthOf(k) = MonthOf(key)
      BY <1>2, <2>1
    <3>2. k.y = key.y /\ k.m = key.m
      BY <1>1, <3>1, KeysInOrder
    <3>3. key.d <= DaysInMonth(key.y, key.m)
      BY <1>1, KeyHasMonth
    <3>4. k.d = key.d
      BY <3>2, <3>3 DEF Clamped, Least
    <3>5. KeyToDayNumber(k) = KeyToDayNumber(key)
      BY <1>1, <3>1, <3>4, SameKey
    <3>6. QED
      BY <1>1, <3>5
  <2>2. CASE months > 0
    <3>1. MonthOf(key) < MonthOf(k)
      BY <1>2, <2>2
    <3>2. QED
      BY <1>1, <1>2, <3>1, KeysInOrder
  <2>3. QED
    BY <2>1, <2>2
<1>4. to \in Nat
  BY <1>2, <1>3
<1>5. j.y = k.y /\ j.m = k.m /\ j.d = k.d /\ IsKey(j)
  <2>1. IsKey(j) /\ KeyToDayNumber(j) = to
    BY <1>4, KeyOfDay
  <2>2. QED
    BY <2>1, OneKey
<1>6. (j.y - key.y) * 12 + (j.m - key.m) = months
  <2>1. /\ k.y \in Int /\ k.m \in Int /\ key.y \in Int /\ key.m \in Int
        /\ k.y * 12 + (k.m - 1) = key.y * 12 + (key.m - 1) + months
    BY <1>1 DEF IsKey, MonthOf
  <2>2. QED
    BY <1>5, <2>1
<1>7. j.d = key.d \/ j.d = DaysInMonth(j.y, j.m)
  BY <1>5 DEF Clamped, Least
<1>8. QED
  BY <1>3, <1>4, <1>6, <1>7

(* What the property says of a completion and the occurrence it opens. *)
Delayed(step, done, to) ==
  LET from == DayNumberToKey(done)
      at   == DayNumberToKey(to)
      months == (at.y - from.y) * 12 + (at.m - from.m)
  IN  /\ to >= done
      /\ step.unit = "days"   => to - done = step.value
      /\ step.unit = "weeks"  => (to - done) \div 7 = step.value /\ Weekday(to) = Weekday(done)
      /\ step.unit = "months" => months = step.value
      /\ step.unit = "years"  => months = 12 * step.value
      /\ step.unit \in {"months", "years"} => at.d = from.d \/ at.d = DaysInMonth(at.y, at.m)

LEMMA DelayLands ==
  ASSUME Given, NEW done \in Nat
  PROVE  NextAfterCompletion(rule, done) \in Nat /\ Delayed(DelayStep(rule), done, NextAfterCompletion(rule, done))
<1>1. PICK step : step = DelayStep(rule)
  OBVIOUS
<1>2. PICK to : to = NextAfterCompletion(rule, done)
  OBVIOUS
<1>3. PICK v \in Nat : v = step.value
  BY <1>1, StepIs
<1>4. PICK key : key = DayNumberToKey(done)
  OBVIOUS
<1>5. PICK at : at = DayNumberToKey(to)
  OBVIOUS
<1>6. IsKey(key)
  BY <1>4, KeyOfDay
<1>7. CASE step.unit = "days"
  <2>1. to = done + v
    BY <1>1, <1>2, <1>3, <1>7 DEF NextAfterCompletion
  <2>2. QED
    BY <1>1, <1>2, <1>3, <1>7, <2>1 DEF Delayed
<1>8. CASE step.unit = "weeks"
  <2>1. to = done + 7 * v
    BY <1>1, <1>2, <1>3, <1>8 DEF NextAfterCompletion
  <2>2. to \in Nat /\ to >= done /\ (to - done) \div 7 = v /\ Weekday(to) = Weekday(done)
    BY <2>1 DEF Weekday
  <2>3. QED
    BY <1>1, <1>2, <1>3, <1>8, <2>2 DEF Delayed
<1>9. CASE step.unit = "months"
  <2>1. to = AddMonthsClamped(key, v, key.d)
    BY <1>1, <1>2, <1>3, <1>4, <1>9 DEF NextAfterCompletion
  <2>2. key.y \in Int /\ key.m \in 1..12 /\ key.d \in Int /\ 1 <= key.d
    BY <1>6, KeyHasMonth
  <2>3. PICK k : IsKey(k) /\ KeyToDayNumber(k) = to /\ MonthOf(k) = MonthOf(key) + v /\ Clamped(k, key.d)
    BY <2>1, <2>2, AddsMonths
  <2>4. /\ to \in Nat /\ done <= to
        /\ (at.y - key.y) * 12 + (at.m - key.m) = v
        /\ at.d = key.d \/ at.d = DaysInMonth(at.y, at.m)
    BY <1>4, <1>5, <2>3, LandsAfter
  <2>5. QED
    BY <1>1, <1>2, <1>3, <1>4, <1>5, <1>9, <2>4 DEF Delayed
<1>10. CASE step.unit = "years"
  <2>1. to = AddYearsClamped(key, v)
    BY <1>1, <1>2, <1>3, <1>4, <1>10 DEF NextAfterCompletion
  <2>2. PICK k : IsKey(k) /\ KeyToDayNumber(k) = to /\ k.y = key.y + v /\ k.m = key.m /\ Clamped(k, key.d)
    BY <1>6, <2>1, AddsYears
  <2>3. PICK months \in Nat : months = 12 * v
    OBVIOUS
  <2>4. MonthOf(k) = MonthOf(key) + months
    BY <1>6, <2>2, <2>3 DEF IsKey, MonthOf
  <2>5. /\ to \in Nat /\ done <= to
        /\ (at.y - key.y) * 12 + (at.m - key.m) = months
        /\ at.d = key.d \/ at.d = DaysInMonth(at.y, at.m)
    BY <1>4, <1>5, <2>2, <2>4, LandsAfter
  <2>6. QED
    BY <1>1, <1>2, <1>3, <1>4, <1>5, <1>10, <2>3, <2>5 DEF Delayed
<1>11. QED
  BY <1>1, <1>7, <1>8, <1>9, <1>10, StepIs

(* What the generator takes for granted of its calendar (CalendarMovesForward of
   RecurrenceRules) holds of the engine, for every rule and every source day: a next day
   is later than both, no day between a day and its next day has another, and a
   completion never schedules the past. *)
THEOREM EngineMovesForward ==
  ASSUME Given, NEW d \in Nat
  PROVE  /\ NextScheduled(rule, anchor, d) \in Nat
         /\ NextScheduled(rule, anchor, d) > d
         /\ NextScheduled(rule, anchor, d) > anchor
         /\ \A e \in Nat : (d <= e /\ e < NextScheduled(rule, anchor, d)) =>
                             NextScheduled(rule, anchor, e) = NextScheduled(rule, anchor, d)
         /\ NextAfterCompletion(rule, d) \in Nat
         /\ NextAfterCompletion(rule, d) >= d
<1>1. PICK next1 : next1 = NextScheduled(rule, anchor, d)
  OBVIOUS
<1>2. PICK from1 : from1 = IF d < anchor THEN anchor ELSE d
  OBVIOUS
<1>3. Opens(next1, from1)
  BY <1>1, <1>2, NextOpens
<1>4. next1 \in Nat /\ next1 > d /\ next1 > anchor
  BY <1>2, <1>3 DEF Opens, Given
<1>5. ASSUME NEW e \in Nat, d <= e, e < next1 PROVE NextScheduled(rule, anchor, e) = next1
  <2>1. PICK next2 : next2 = NextScheduled(rule, anchor, e)
    OBVIOUS
  <2>2. PICK from2 : from2 = IF e < anchor THEN anchor ELSE e
    OBVIOUS
  <2>3. Opens(next2, from2)
    BY <2>1, <2>2, NextOpens
  <2>4. from1 \in Nat /\ from2 \in Nat /\ from1 <= from2 /\ from2 < next1
    BY <1>2, <1>4, <1>5, <2>2 DEF Given
  <2>5. next2 <= next1
    BY <1>3, <2>3, <2>4 DEF Opens
  <2>6. next1 <= next2 /\ next2 \in Nat
    BY <1>3, <2>3, <2>4 DEF Opens
  <2>7. QED
    BY <1>4, <2>1, <2>5, <2>6
<1>6. NextAfterCompletion(rule, d) \in Nat /\ NextAfterCompletion(rule, d) >= d
  BY DelayLands DEF Delayed
<1>7. QED
  BY <1>1, <1>4, <1>5, <1>6

----------------------------------------------------------------------------
(* The walk: the stored occurrence is the one computed from the latest step, and a
   counted rule never generates past its count. *)
Walking ==
  /\ Given /\ last \in Nat /\ generated \in Nat
  /\ next = NextOccurrence(rule, anchor, generated, last)
  /\ rule.endType = "after_count" => generated <= rule.endCount - 1

Candidate ==
  IF rule.repeatAfterCompletion THEN NextAfterCompletion(rule, last) ELSE NextScheduled(rule, anchor, last)

LEMMA CandidateIs ==
  ASSUME Walking
  PROVE  /\ Candidate \in Nat /\ next \in {Candidate, Null} /\ Candidate # Null
         /\ next # Null <=> ~(CountExhausted(rule, generated) \/ PastEndDate(rule, Candidate))
<1>1. Given /\ last \in Nat
  BY DEF Walking
<1>2. NextAfterCompletion(rule, last) \in Nat
  BY <1>1, DelayLands
<1>3. NextScheduled(rule, anchor, last) \in Nat
  <2>1. PICK from : from = IF last < anchor THEN anchor ELSE last
    OBVIOUS
  <2>2. Opens(NextScheduled(rule, anchor, last), from)
    BY <1>1, <2>1, NextOpens
  <2>3. QED
    BY <2>2 DEF Opens
<1>4. Candidate \in Nat
  BY <1>2, <1>3 DEF Candidate
<1>5. Candidate # Null
  BY <1>4, NullIsNoNumber
<1>6. next = ApplyEnd(rule, generated, Candidate)
  BY DEF Walking, NextOccurrence, Candidate
<1>7. QED
  BY <1>4, <1>5, <1>6 DEF ApplyEnd

(* The first occurrence is counted from today as well as from the later of the two days. *)
LEMMA InitWalks ==
  ASSUME Init
  PROVE  Walking
<1>1. Given /\ last \in Nat /\ generated = 0
  BY StartsAreRules DEF Init, Given
<1>2. next = NextOccurrence(rule, anchor, generated, last)
  <2>1. CASE ~rule.repeatAfterCompletion /\ anchor > last
    <3>1. NextScheduled(rule, anchor, anchor) = NextScheduled(rule, anchor, last)
      BY <1>1, <2>1 DEF NextScheduled, Given
    <3>2. QED
      BY <2>1, <3>1 DEF Init, FirstOccurrence, NextOccurrence
  <2>2. CASE ~(~rule.repeatAfterCompletion /\ anchor > last)
    BY <2>2 DEF Init, FirstOccurrence
  <2>3. QED
    BY <2>1, <2>2
<1>3. rule.endType = "after_count" => generated <= rule.endCount - 1
  BY <1>1, RuleFields DEF Given
<1>4. QED
  BY <1>1, <1>2, <1>3 DEF Walking

LEMMA StepWalks ==
  ASSUME Walking, [Next]_vars
  PROVE  Walking'
<1>1. CASE UNCHANGED vars
  BY <1>1 DEF Walking, Given, vars
<1>2. CASE Advance
  <2>1. next \in Nat /\ ~CountExhausted(rule, generated)
    BY <1>2, CandidateIs DEF Advance
  <2>2. last' \in Nat
    BY <1>2, <2>1, DelaysAreDays DEF Advance
  <2>3. Given' /\ generated' \in Nat /\ next' = NextOccurrence(rule', anchor', generated', last')
    BY <1>2 DEF Advance, Walking, Given
  <2>4. rule.endType = "after_count" => generated' <= rule.endCount - 1
    <3>1. rule.endType = "after_count" => rule.endCount \in Nat \ {0} /\ rule.endCount # Null
      BY RuleFields DEF Walking, Given
    <3>2. QED
      BY <1>2, <2>1, <3>1 DEF Advance, Walking, CountExhausted
  <2>5. rule' = rule
    BY <1>2 DEF Advance
  <2>6. QED
    BY <2>2, <2>3, <2>4, <2>5 DEF Walking
<1>3. QED
  BY <1>1, <1>2 DEF Next

LEMMA Walks == Spec => []Walking
<1>1. QED
  BY InitWalks, StepWalks, PTL DEF Spec

(* The candidate of a schedule opens it. *)
LEMMA ScheduleOpens ==
  ASSUME Walking, ~rule.repeatAfterCompletion
  PROVE  /\ last < Candidate /\ Scheduled(Candidate)
         /\ \A n \in Nat : last < n /\ Scheduled(n) => Candidate <= n
<1>1. PICK from : from = IF last < anchor THEN anchor ELSE last
  OBVIOUS
<1>2. Opens(Candidate, from)
  BY <1>1, NextOpens DEF Walking, Candidate
<1>3. last \in Nat /\ anchor \in Nat
  BY DEF Walking, Given
<1>4. \A n \in Nat : Scheduled(n) => n > anchor
  BY DEF Scheduled
<1>5. QED
  BY <1>1, <1>2, <1>3, <1>4 DEF Opens

(* Whatever the frequency, the interval, the weekdays, the clamped day and the distance of
   today from the source, what computeNextFromRule and the generator store of a schedule is
   its earliest day after the one they count from. *)
THEOREM NextIsEarliest == Spec => []NextIsEarliestScheduled
<1>1. ASSUME Walking PROVE NextIsEarliestScheduled
  <2>1. SUFFICES ASSUME next # Null, ~rule.repeatAfterCompletion
                 PROVE  /\ next > last /\ Scheduled(next)
                        /\ \A n \in (last + 1)..(next - 1) : ~Scheduled(n)
    BY DEF NextIsEarliestScheduled
  <2>2. next = Candidate /\ next \in Nat /\ last \in Nat
    BY <1>1, <2>1, CandidateIs DEF Walking
  <2>3. next > last /\ Scheduled(next)
    BY <1>1, <2>1, <2>2, ScheduleOpens
  <2>4. ASSUME NEW n \in (last + 1)..(next - 1) PROVE ~Scheduled(n)
    <3>1. n \in Nat /\ last < n /\ ~(next <= n)
      BY <2>2
    <3>2. QED
      BY <1>1, <2>1, <2>2, <3>1, ScheduleOpens
  <2>5. QED
    BY <2>3, <2>4
<1>2. QED
  BY <1>1, Walks, PTL

(* applyEnd stops a rule at its end and nowhere else: it generates the whole of its count,
   the source included, and every scheduled day up to its inclusive last day. *)
THEOREM StopsAtItsEnd == Spec => []StopsExactlyAtTheEnd
<1>1. ASSUME Walking PROVE StopsExactlyAtTheEnd
  <2>1. Given /\ generated \in Nat /\ last \in Nat
        /\ (rule.endType = "after_count" => generated <= rule.endCount - 1)
    BY <1>1 DEF Walking
  <2>2. /\ rule.endType \in {"never", "after_count", "on_date"}
        /\ rule.endType = "after_count" => rule.endCount \in Nat \ {0} /\ rule.endCount # Null
        /\ rule.endType = "on_date" => rule.endDate \in Int /\ rule.endDate # Null
    BY <2>1, RuleFields DEF Given
  <2>3. /\ Candidate \in Nat /\ next \in {Candidate, Null}
        /\ next # Null <=> ~(CountExhausted(rule, generated) \/ PastEndDate(rule, Candidate))
    BY <1>1, CandidateIs
  <2>4. next # Null => Allowed(next, generated)
    BY <2>1, <2>2, <2>3 DEF Allowed, CountExhausted, PastEndDate
  <2>5. next = Null => /\ rule.endType # "never"
                       /\ rule.endType = "after_count" => generated = rule.endCount - 1
    BY <2>1, <2>2, <2>3 DEF CountExhausted, PastEndDate
  <2>6. ASSUME next = Null, rule.endType = "on_date", ~rule.repeatAfterCompletion,
               NEW n \in (last + 1)..rule.endDate
        PROVE  ~Scheduled(n)
    <3>1. rule.endDate < Candidate
      BY <2>2, <2>3, <2>6 DEF CountExhausted, PastEndDate
    <3>2. n \in Nat /\ last < n /\ ~(Candidate <= n)
      BY <2>1, <2>2, <2>3, <2>6, <3>1
    <3>3. QED
      BY <1>1, <2>6, <3>2, ScheduleOpens
  <2>7. QED
    BY <2>4, <2>5, <2>6 DEF StopsExactlyAtTheEnd
<1>2. QED
  BY <1>1, Walks, PTL

(* nextAfterCompletion counts the rule's delay from the day of the completion, in its own
   unit: the occurrence is never before the completion, months and years are calendar ones,
   and only a short month shortens them. *)
THEOREM DelayCounts == Spec => []DelayCountsFromCompletion
<1>1. ASSUME Walking PROVE DelayCountsFromCompletion
  <2>1. SUFFICES ASSUME rule.repeatAfterCompletion, next # Null
                 PROVE  Delayed(DelayStep(rule), last, next)
    BY DEF DelayCountsFromCompletion, Delayed
  <2>2. next = NextAfterCompletion(rule, last)
    BY <1>1, <2>1, CandidateIs DEF Candidate
  <2>3. QED
    BY <1>1, <2>2, DelayLands DEF Walking
<1>2. QED
  BY <1>1, Walks, PTL
=============================================================================
