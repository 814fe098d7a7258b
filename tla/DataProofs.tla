----------------------------- MODULE DataProofs -----------------------------
(* Proofs about data: the order of schedules, for all sets of years, months, *)
(* days, hours and minutes; the arithmetic of uIP, for bytes of any base     *)
(* above 8 and strings of any length; the display, for texts of any length.  *)
EXTENDS ScheduleOrder, UipNumbers, Lcd, SequenceTheorems, WellFoundedInduction, TLAPS

-----------------------------------------------------------------------------
(* The order of schedules.                                                   *)


\* The fields of schedules are numbers within their widths.
LEMMA Fields ==
    ASSUME NEW r \in Schedule
    PROVE  /\ r.year \in Nat
           /\ r.month \in 0 .. 15
           /\ r.day \in 0 .. 31
           /\ r.houre \in 0 .. 31
           /\ r.minuts \in 0 .. 63
BY FieldAssumption DEF Schedule

\* Numbers with a last digit below 64 compare as the digits above it do, or
\* else as that digit does.
LEMMA LastDigit ==
    ASSUME NEW a \in Nat, NEW b \in Nat, NEW c \in 0 .. 63, NEW d \in 0 .. 63
    PROVE  By(a * 64 + c, b * 64 + d, 0) = By(a, b, By(c, d, 0))
BY DEF By

\* The comparison field by field is the comparison of the numbers: numbers
\* compare as the first of their digits that differ.
LEMMA ComparesNumbers ==
    ASSUME NEW p \in Schedule, NEW q \in Schedule
    PROVE  /\ Number(p) \in Nat
           /\ CompareSchedules(p, q) = By(Number(p), Number(q), 0)
<1> DEFINE mo1 == p.year * 16 + p.month   mo2 == q.year * 16 + q.month
           da1 == mo1 * 32 + p.day        da2 == mo2 * 32 + q.day
           ho1 == da1 * 32 + p.houre      ho2 == da2 * 32 + q.houre
           mi1 == ho1 * 64 + p.minuts     mi2 == ho2 * 64 + q.minuts
<1>1. /\ mo1 \in Nat /\ mo2 \in Nat
      /\ By(mo1, mo2, 0) = By(p.year, q.year, By(p.month, q.month, 0))
  BY Fields DEF By
<1> HIDE DEF mo1, mo2
<1>2. da1 \in Nat /\ da2 \in Nat /\ By(da1, da2, 0) = By(mo1, mo2, By(p.day, q.day, 0))
  BY <1>1, Fields DEF By
<1> HIDE DEF da1, da2
<1>3. ho1 \in Nat /\ ho2 \in Nat /\ By(ho1, ho2, 0) = By(da1, da2, By(p.houre, q.houre, 0))
  BY <1>2, Fields DEF By
<1> HIDE DEF ho1, ho2
<1>4. mi1 \in Nat /\ mi2 \in Nat /\ By(mi1, mi2, 0) = By(ho1, ho2, By(p.minuts, q.minuts, 0))
  <2>1. ho1 \in Nat /\ ho2 \in Nat /\ p.minuts \in 0 .. 63 /\ q.minuts \in 0 .. 63
    BY <1>3, Fields
  <2>2. mi1 \in Nat
    BY <2>1
  <2>3. mi2 \in Nat
    BY <2>1
  <2>4. By(mi1, mi2, 0) = By(ho1, ho2, By(p.minuts, q.minuts, 0))
    <3>1. \A a, b \in Nat : \A c, d \in 0 .. 63 :
            By(a * 64 + c, b * 64 + d, 0) = By(a, b, By(c, d, 0))
      BY LastDigit
    <3>2. By(ho1 * 64 + p.minuts, ho2 * 64 + q.minuts, 0) = By(ho1, ho2, By(p.minuts, q.minuts, 0))
      BY <2>1, <3>1, Zenon
    <3> QED
      BY <3>2
  <2> QED
    BY <2>2, <2>3, <2>4
<1>5. mi1 = Number(p) /\ mi2 = Number(q)
  BY DEF Number, mi1, mi2, ho1, ho2, da1, da2, mo1, mo2
<1> HIDE DEF mi1, mi2
<1>6. CompareSchedules(p, q) = By(mi1, mi2, 0)
  BY <1>1, <1>2, <1>3, <1>4, Fields DEF By, CompareSchedules
<1> QED
  BY <1>4, <1>5, <1>6

\* Only a schedule with the same fields is found equal.
LEMMA EqualFields ==
    ASSUME NEW p \in Schedule, NEW q \in Schedule
    PROVE  CompareSchedules(p, q) = 0 <=> p = q
<1>1. ASSUME CompareSchedules(p, q) = 0
      PROVE  p = q
  <2>1. /\ p.year = q.year /\ p.month = q.month /\ p.day = q.day
        /\ p.houre = q.houre /\ p.minuts = q.minuts
    BY <1>1, Fields DEF CompareSchedules, By
  <2> QED
    BY <2>1 DEF Schedule
<1>2. ASSUME p = q
      PROVE  CompareSchedules(p, q) = 0
  BY <1>2, Fields DEF CompareSchedules, By
<1> QED
  BY <1>1, <1>2

\* CompareSchedules is antisymmetric and transitive: with EqualFields, a total
\* order, which the search loops of AddSchedule and FindSchedule rely on.
THEOREM CompareIsOrder ==
    ASSUME NEW p \in Schedule, NEW q \in Schedule, NEW r \in Schedule
    PROVE  /\ CompareSchedules(p, q) = -CompareSchedules(q, p)
           /\ CompareSchedules(p, q) = -1 /\ CompareSchedules(q, r) = -1
                => CompareSchedules(p, r) = -1
<1>1. Number(p) \in Nat /\ Number(q) \in Nat /\ Number(r) \in Nat
  BY ComparesNumbers
<1> QED
  BY <1>1, ComparesNumbers DEF By

\* Every pair of schedules is compared by its moments.
THEOREM OrderByTime == Spec => []OrderIsByTime
<1> DEFINE Inv == s \in Schedule /\ t \in Schedule
<1>1. Init => Inv
  BY DEF Init
<1>2. Inv /\ [Next]_<<s, t>> => Inv'
  BY DEF Next, CreateSchedule, Schedule
<1>3. Inv => OrderIsByTime
  BY ComparesNumbers, EqualFields DEF OrderIsByTime
<1> QED
  BY <1>1, <1>2, <1>3, PTL DEF Spec
-----------------------------------------------------------------------------
(* Sequence numbers.                                                         *)

\* Quotient and remainder.
LEMMA Division ==
    ASSUME NEW b \in Nat \ {0}, NEW x \in Int
    PROVE  x \div b \in Int /\ x % b \in 0 .. b - 1 /\ x = b * (x \div b) + (x % b)
<1>1. b \in Int /\ b > 0
  OBVIOUS
<1>2. x \div b \in Int
  BY <1>1
<1>3. x % b \in 0 .. b - 1
  BY <1>1
<1>4. x = b * (x \div b) + (x % b)
  BY <1>1
<1> QED BY <1>2, <1>3, <1>4

\* Quotient and remainder are one pair of numbers only.
LEMMA OneQuotient ==
    ASSUME NEW b \in Nat \ {0}, NEW q \in Int, NEW r \in 0 .. b - 1
    PROVE  /\ (b * q + r) % b = r
           /\ (b * q + r) \div b = q
<1> DEFINE x == b * q + r   d == x \div b   m == x % b
<1>1. x \in Int /\ d \in Int /\ m \in 0 .. b - 1 /\ x = b * d + m
  BY Division
<1>2. PICK k \in Int : k = d - q
  BY <1>1
<1>3. b * k = r - m
  BY <1>1, <1>2
<1> HIDE DEF x, d, m
<1>4. k = 0
  <2>1. k >= 1 => b * k >= b
    OBVIOUS
  <2>2. k <= -1 => b * k <= -b
    OBVIOUS
  <2> QED BY <1>1, <1>3, <2>1, <2>2
<1>5. d = q /\ m = r
  BY <1>1, <1>2, <1>3, <1>4
<1> QED BY <1>5 DEF x, d, m

\* One digit of a sum, and the carry.
LEMMA DigitSum ==
    ASSUME NEW x \in 0 .. B - 1, NEW y \in 0 .. B - 1
    PROVE  \E c \in 0 .. 1 :
              /\ (x + y) % B \in 0 .. B - 1
              /\ x + y = ((x + y) % B) + c * B
              /\ (x + y) % B < y <=> c = 1
<1>1. CASE x + y < B
  <2>1. (x + y) % B = x + y
    BY <1>1, UipNumbersAssumption
  <2> QED BY <1>1, <2>1, UipNumbersAssumption
<1>2. CASE x + y >= B
  <2>1. (x + y) % B = x + y - B
    BY <1>2, UipNumbersAssumption
  <2> QED BY <1>2, <2>1, UipNumbersAssumption
<1> QED BY <1>1, <1>2, UipNumbersAssumption

\* One digit that takes a carry.
LEMMA DigitUp ==
    ASSUME NEW x \in 0 .. B - 1
    PROVE  /\ (x + 1) % B \in 0 .. B - 1
           /\ x + 1 = ((x + 1) % B) + (IF (x + 1) % B = 0 THEN 1 ELSE 0) * B
<1>1. CASE x + 1 < B
  BY <1>1, UipNumbersAssumption
<1>2. CASE x + 1 = B
  BY <1>2, UipNumbersAssumption
<1> QED BY <1>1, <1>2, UipNumbersAssumption

\* The two digits of what is added.
LEMMA TwoDigits ==
    ASSUME NEW w \in 0 .. WordSize - 1
    PROVE  /\ w \div B \in 0 .. B - 1
           /\ w % B \in 0 .. B - 1
           /\ w = (w \div B) * B + (w % B)
<1>1. w = B * (w \div B) + (w % B) /\ w % B \in 0 .. B - 1 /\ w \div B \in Int
  <2>1. w \in Int /\ B \in Nat \ {0}
    BY UipNumbersAssumption DEF WordSize
  <2> QED BY <2>1, Division
<1>2. PICK q \in Int : q = w \div B
  BY <1>1
<1>3. q >= B => B * q >= B * B
  BY UipNumbersAssumption
<1>4. q <= -1 => B * q <= -B
  BY UipNumbersAssumption
<1> QED BY <1>1, <1>2, <1>3, <1>4, UipNumbersAssumption DEF WordSize

\* The lowest digit of a sum needs the low byte only.
LEMMA LowDigit ==
    ASSUME NEW x \in 0 .. B - 1, NEW h \in 0 .. B - 1, NEW l \in 0 .. B - 1
    PROVE  (x + (h * B + l)) % B = (x + l) % B
<1>1. PICK c \in 0 .. 1 : (x + l) % B \in 0 .. B - 1 /\ x + l = ((x + l) % B) + c * B
  BY DigitSum
<1> DEFINE m == (x + l) % B
<1>2. m \in 0 .. B - 1 /\ x + l = m + c * B /\ B \in Nat \ {0} /\ h + c \in Int
  BY <1>1, UipNumbersAssumption
<1> HIDE DEF m
<1>3. x + (h * B + l) = B * (h + c) + m
  BY <1>2
<1>4. (B * (h + c) + m) % B = m
  BY <1>2, OneQuotient
<1> QED BY <1>3, <1>4 DEF m

\* A digit sum and its carry, below a sum that takes that carry.
CarryUp(x, y, n, d, c, e, q) == x + c = y + q /\ n + e = d + c * B
Grown(x, y, n, d, e, q) == x * B + n + e = y * B + d + q * B
LEMMA SumGrows ==
    ASSUME NEW x \in Int, NEW y \in Int, NEW n \in Int, NEW d \in Int, NEW c \in Int,
           NEW e \in Int, NEW q \in Int, CarryUp(x, y, n, d, c, e, q)
    PROVE  Grown(x, y, n, d, e, q)
<1>1. x * B + c * B = y * B + q * B
  BY UipNumbersAssumption DEF CarryUp
<1>2. x * B \in Int /\ y * B \in Int /\ q * B \in Int /\ c * B \in Int
  BY UipNumbersAssumption
<1>3. n + e = d + c * B
  BY DEF CarryUp
<1>4. PICK a \in Int, b \in Int, f \in Int, g \in Int : x * B = a /\ y * B = b /\ q * B = f /\ c * B = g
  BY <1>2
<1> QED BY <1>1, <1>3, <1>4, UipNumbersAssumption DEF Grown

\* One digit more makes the range of a number that much larger.
LEMMA DigitMore ==
    ASSUME NEW w \in Nat, NEW x \in 0 .. w - 1, NEW d \in 0 .. B - 1
    PROVE  x * B + d \in 0 .. w * B - 1
<1>1. PICK k \in Nat : w = x + 1 + k
  <2>1. w - x - 1 \in Nat /\ w = x + 1 + (w - x - 1)
    OBVIOUS
  <2> QED BY <2>1
<1>2. B \in Nat
  BY UipNumbersAssumption
<1>3. x * B \in Nat /\ k * B \in Nat /\ w * B = x * B + B + k * B
  BY <1>1, <1>2
<1> QED BY <1>2, <1>3

\* Four bytes are a number below their range.
LEMMA FourBytes ==
    ASSUME NEW d1 \in 0 .. B - 1, NEW d2 \in 0 .. B - 1, NEW d3 \in 0 .. B - 1, NEW d4 \in 0 .. B - 1
    PROVE  ((d1 * B + d2) * B + d3) * B + d4 \in 0 .. WordSize * WordSize - 1
<1>2. B \in Nat /\ B * B \in Nat /\ B * B * B \in Nat
  BY UipNumbersAssumption
<1>3. d1 * B + d2 \in 0 .. B * B - 1
  BY <1>2, DigitMore
<1>4. (d1 * B + d2) * B + d3 \in 0 .. B * B * B - 1
  BY <1>2, <1>3, DigitMore
<1>5. ((d1 * B + d2) * B + d3) * B + d4 \in 0 .. B * B * B * B - 1
  BY <1>2, <1>4, DigitMore
<1>6. B * B * B * B = WordSize * WordSize
  BY <1>2 DEF WordSize
<1> QED BY <1>5, <1>6

\* uip_add32 adds, through every carry and around the end.
LEMMA Adds ==
    ASSUME NEW n \in [1 .. 4 -> 0 .. B - 1], NEW w \in 0 .. WordSize - 1
    PROVE  Value(uip_add32(n, w)) = (Value(n) + w) % (WordSize * WordSize)
<1> DEFINE h == w \div B
           l == w % B
           d4 == (n[4] + w) % B
           carry == d4 < l
           c4 == IF carry THEN 1 ELSE 0
           third == (n[3] + h) % B
           over == third < h
           bumped == (third + 1) % B
           d3 == IF carry THEN bumped ELSE third
           ripple == over \/ (carry /\ bumped = 0)
           c3 == IF ripple THEN 1 ELSE 0
           second == (n[2] + 1) % B
           d2 == IF ripple THEN second ELSE n[2]
           c2 == IF ripple /\ second = 0 THEN 1 ELSE 0
           first == (n[1] + 1) % B
           d1 == IF ripple /\ second = 0 THEN first ELSE n[1]
           c1 == IF (ripple /\ second = 0) /\ first = 0 THEN 1 ELSE 0
           V == WordSize * WordSize
<1>1. /\ B \in Nat \ {0} /\ V \in Nat \ {0} /\ V > 1
      /\ n[1] \in 0 .. B - 1 /\ n[2] \in 0 .. B - 1 /\ n[3] \in 0 .. B - 1 /\ n[4] \in 0 .. B - 1
  <2>1. B \in Nat /\ B > 8
    BY UipNumbersAssumption
  <2>2. B * B \in Nat /\ B * B > 8
    BY <2>1
  <2>3. WordSize * WordSize \in Nat /\ WordSize * WordSize > 8
    BY <2>2 DEF WordSize
  <2> QED BY <2>1, <2>3
<1>2. h \in 0 .. B - 1 /\ l \in 0 .. B - 1 /\ w = h * B + l
  BY TwoDigits
<1>3. d4 = (n[4] + l) % B
  <2> HIDE DEF h, l
  <2> QED BY <1>1, <1>2, LowDigit
<1>4. /\ d4 \in 0 .. B - 1
      /\ n[4] + l = d4 + c4 * B
  <2>1. PICK c \in 0 .. 1 :
          /\ d4 \in 0 .. B - 1
          /\ n[4] + l = d4 + c * B
          /\ d4 < l <=> c = 1
    <3> HIDE DEF l, d4
    <3> QED BY <1>1, <1>2, <1>3, DigitSum
  <2> HIDE DEF d4, l
  <2> QED BY <2>1
<1>5. /\ third \in 0 .. B - 1
      /\ n[3] + h = third + (IF over THEN 1 ELSE 0) * B
  <2>1. PICK c \in 0 .. 1 :
          /\ third \in 0 .. B - 1
          /\ n[3] + h = third + c * B
          /\ third < h <=> c = 1
    <3> HIDE DEF h
    <3> QED BY <1>1, <1>2, DigitSum
  <2> HIDE DEF third, h
  <2> QED BY <2>1
<1>6. /\ bumped \in 0 .. B - 1
      /\ third + 1 = bumped + (IF bumped = 0 THEN 1 ELSE 0) * B
  <2> HIDE DEF third
  <2> QED BY <1>5, DigitUp
<1>7. /\ second \in 0 .. B - 1
      /\ n[2] + 1 = second + (IF second = 0 THEN 1 ELSE 0) * B
  BY <1>1, DigitUp
<1>8. /\ first \in 0 .. B - 1
      /\ n[1] + 1 = first + (IF first = 0 THEN 1 ELSE 0) * B
  BY <1>1, DigitUp
<1>9. uip_add32(n, w) = [k \in 1 .. 4 |->
            CASE k = 4 -> d4 [] k = 3 -> d3 [] k = 2 -> d2 [] k = 1 -> d1]
  BY DEF uip_add32
<1>10. Value(uip_add32(n, w)) = ((d1 * B + d2) * B + d3) * B + d4
  <2> HIDE DEF d1, d2, d3, d4
  <2>1. /\ uip_add32(n, w)[1] = d1 /\ uip_add32(n, w)[2] = d2
        /\ uip_add32(n, w)[3] = d3 /\ uip_add32(n, w)[4] = d4
    BY <1>9
  <2> QED BY <2>1 DEF Value
<1> HIDE DEF h, l, d4, third, bumped, second, first, V
<1>11. d3 \in 0 .. B - 1 /\ n[3] + h + c4 = d3 + c3 * B
  <2>1. CASE carry
    BY <2>1, <1>1, <1>2, <1>5, <1>6
  <2>2. CASE ~carry
    BY <2>2, <1>1, <1>2, <1>5, <1>6
  <2> QED BY <2>1, <2>2
<1>12. d2 \in 0 .. B - 1 /\ n[2] + c3 = d2 + c2 * B
  BY <1>1, <1>7
<1>13. d1 \in 0 .. B - 1 /\ n[1] + c2 = d1 + c1 * B
  BY <1>1, <1>8
<1>14. c1 \in 0 .. 1 /\ c2 \in Int /\ c3 \in Int /\ c4 \in Int
  OBVIOUS
<1> HIDE DEF d1, d2, d3, c1, c2, c3, c4
<1>15. Value(n) + w = ((d1 * B + d2) * B + d3) * B + d4 + c1 * V
  <2> DEFINE N2 == n[1] * B + n[2]   D2 == d1 * B + d2
             N3 == N2 * B + n[3]     D3 == D2 * B + d3
  <2>1. /\ n[1] \in Int /\ n[2] \in Int /\ n[3] \in Int /\ n[4] \in Int /\ B \in Int
        /\ d1 \in Int /\ d2 \in Int /\ d3 \in Int /\ d4 \in Int /\ h \in Int /\ l \in Int
    BY <1>1, <1>2, <1>4, <1>11, <1>12, <1>13
  <2>2. N2 + c3 = D2 + c1 * B * B
    <3>1. c1 * B \in Int
      BY <1>14, <2>1
    <3>2. CarryUp(n[1], d1, n[2], d2, c2, c3, c1 * B)
      BY <1>12, <1>13 DEF CarryUp
    <3>3. Grown(n[1], d1, n[2], d2, c3, c1 * B)
      BY <1>14, <2>1, <3>1, <3>2, SumGrows
    <3> QED BY <3>3 DEF Grown
  <2>3. N2 \in Int /\ D2 \in Int /\ c1 * B * B \in Int
    BY <1>14, <2>1
  <2> HIDE DEF N2, D2
  <2>4. N3 + (h + c4) = D3 + c1 * B * B * B
    <3>1. h + c4 \in Int
      BY <1>14, <2>1
    <3>2. CarryUp(N2, D2, n[3], d3, c3, h + c4, c1 * B * B)
      BY <1>11, <1>14, <2>1, <2>2 DEF CarryUp
    <3>3. Grown(N2, D2, n[3], d3, h + c4, c1 * B * B)
      BY <1>14, <2>1, <2>3, <3>1, <3>2, SumGrows
    <3> QED BY <3>3 DEF Grown
  <2>5. N3 \in Int /\ D3 \in Int /\ c1 * B * B * B \in Int
    BY <1>14, <2>1, <2>3
  <2> HIDE DEF N3, D3
  <2>6. (N3 + h) * B + n[4] + l = D3 * B + d4 + c1 * B * B * B * B
    <3>1. N3 + h \in Int
      BY <2>1, <2>5
    <3>2. CarryUp(N3 + h, D3, n[4], d4, c4, l, c1 * B * B * B)
      BY <1>4, <1>14, <2>1, <2>4, <2>5 DEF CarryUp
    <3>3. Grown(N3 + h, D3, n[4], d4, l, c1 * B * B * B)
      BY <1>14, <2>1, <2>5, <3>1, <3>2, SumGrows
    <3> QED BY <3>3 DEF Grown
  <2>7. (N3 + h) * B + n[4] + l = N3 * B + n[4] + (h * B + l)
    BY <2>1, <2>5
  <2>8. c1 * B * B * B * B = c1 * V
    BY <1>14, <2>1 DEF V, WordSize
  <2> QED BY <1>2, <2>6, <2>7, <2>8 DEF Value, N2, N3, D2, D3
<1> DEFINE D == ((d1 * B + d2) * B + d3) * B + d4
<1>16. D \in 0 .. V - 1
  BY <1>4, <1>11, <1>12, <1>13, FourBytes DEF V
<1> HIDE DEF D
<1>17. (D + c1 * V) % V = D
  <2>1. (V * c1 + D) % V = D
    <3>1. c1 \in Int
      BY <1>14
    <3> QED BY <1>1, <1>16, <3>1, OneQuotient, Zenon
  <2>2. V * c1 + D = D + c1 * V
    BY <1>1, <1>14, <1>16
  <2> QED BY <2>1, <2>2
<1> QED BY <1>10, <1>15, <1>17 DEF D, V

-----------------------------------------------------------------------------
(* Induction over the words of a string, on sets of numbers.                 *)

\* What holds of 0, and of each number if of the one before, holds of all up to n.
LEMMA AllUpTo ==
    ASSUME NEW n \in Nat, NEW G, 0 \in G, \A k \in 1 .. n : k - 1 \in G => k \in G
    PROVE  0 .. n \subseteq G
<1> DEFINE Wrong == (0 .. n) \ G
<1>1. Wrong \in SUBSET Nat
  OBVIOUS
<1>2. Wrong = {}
  <2> SUFFICES ASSUME Wrong # {} PROVE FALSE
    OBVIOUS
  <2>1. IsWellFoundedOn(OpToRel(<, Nat), Nat)
    BY NatLessThanWellFounded
  <2>2. PICK m \in Wrong : \A k \in Wrong : <<k, m>> \notin OpToRel(<, Nat)
    <3> HIDE DEF Wrong
    <3> QED BY <1>1, <2>1, WFMin
  <2>3. m \in 1 .. n
    OBVIOUS
  <2>4. m - 1 \in Nat /\ m - 1 < m /\ m \in Nat
    BY <2>3
  <2>5. m - 1 \notin Wrong
    BY <2>2, <2>4 DEF OpToRel
  <2> QED BY <2>3, <2>5
<1> QED BY <1>2

\* A function that takes its steps one after the other, and that there is one.
StepsFrom(f, n, a, step) == f[0] = a /\ \A k \in 1 .. n : f[k] = step[<<f[k - 1], k>>]
LEMMA StepsExist ==
    ASSUME NEW n \in Nat, NEW X, NEW a \in X, NEW step \in [X \X (1 .. n) -> X]
    PROVE  \E f \in [0 .. n -> X] : StepsFrom(f, n, a, step)
<1> DEFINE Steps(f, m) == f[0] = a /\ \A k \in 1 .. m : f[k] = step[<<f[k - 1], k>>]
           G == {m \in 0 .. n : \E f \in [0 .. m -> X] : Steps(f, m)}
<1>1. 0 \in G
  <2> DEFINE f == [k \in 0 .. 0 |-> a]
  <2>1. f \in [0 .. 0 -> X] /\ Steps(f, 0)
    OBVIOUS
  <2> HIDE DEF f, Steps
  <2> QED BY <2>1
<1>2. ASSUME NEW m \in 1 .. n, m - 1 \in G
      PROVE  m \in G
  <2>1. PICK f \in [0 .. m - 1 -> X] : Steps(f, m - 1)
    BY <1>2
  <2> DEFINE g == [k \in 0 .. m |-> IF k = m THEN step[<<f[m - 1], m>>] ELSE f[k]]
  <2>2. f[m - 1] \in X /\ step[<<f[m - 1], m>>] \in X
    <3>1. m - 1 \in 0 .. m - 1
      OBVIOUS
    <3>2. f[m - 1] \in X
      BY <3>1
    <3>3. <<f[m - 1], m>> \in X \X (1 .. n)
      BY <3>2
    <3> QED BY <3>2, <3>3
  <2>3. g \in [0 .. m -> X]
    BY <2>2
  <2>4. g[0] = a /\ \A k \in 1 .. m : g[k] = step[<<g[k - 1], k>>]
    <3>1. g[0] = f[0] /\ g[m] = step[<<f[m - 1], m>>] /\ \A k \in 0 .. m - 1 : g[k] = f[k]
      OBVIOUS
    <3> HIDE DEF g
    <3>2. ASSUME NEW k \in 1 .. m
          PROVE  g[k] = step[<<g[k - 1], k>>]
      <4>1. g[k - 1] = f[k - 1]
        BY <3>1
      <4>2. CASE k = m
        BY <3>1, <4>1, <4>2
      <4>3. CASE k # m
        <5>1. k \in 1 .. m - 1
          BY <4>3
        <5>2. f[k] = step[<<f[k - 1], k>>]
          BY <2>1, <5>1
        <5> QED BY <3>1, <4>1, <5>1, <5>2
      <4> QED BY <4>2, <4>3
    <3> QED BY <2>1, <3>1, <3>2
  <2> HIDE DEF g
  <2>5. Steps(g, m)
    BY <2>4
  <2> QED BY <2>3, <2>5
<1> HIDE DEF G
<1>3. 0 .. n \subseteq G
  BY <1>1, <1>2, AllUpTo
<1>4. n \in G
  BY <1>3
<1> QED BY <1>4 DEF G, StepsFrom

-----------------------------------------------------------------------------
(* Checksums.                                                                *)

M == WordSize - 1

LEMMA Sizes == B \in Nat /\ B > 8 /\ WordSize \in Nat /\ WordSize > 64 /\ M \in Nat /\ M > 8 * B
<1>1. B \in Nat /\ B > 8
  BY UipNumbersAssumption
<1>2. PICK k \in Nat : B = 9 + k
  <2>1. B - 9 \in Nat /\ B = 9 + (B - 9)
    BY <1>1
  <2> QED BY <2>1
<1>3. B * B = 9 * B + k * B /\ k * B \in Nat
  BY <1>1, <1>2
<1> QED BY <1>1, <1>3 DEF WordSize, M

\* The words of a string.
LEMMA WordsAreWords ==
    ASSUME NEW data \in Seq(0 .. B - 1)
    PROVE  /\ WordCount(data) \in Nat
           /\ \A k \in 1 .. WordCount(data) : WordAt(data, k) \in 0 .. M
<1>1. Len(data) \in Nat /\ \A i \in 1 .. Len(data) : data[i] \in 0 .. B - 1
  <2>1. Len(data) \in Nat
    OBVIOUS
  <2>2. \A i \in 1 .. Len(data) : data[i] \in 0 .. B - 1
    BY ElementOfSeq
  <2> QED BY <2>1, <2>2
<1>2. WordCount(data) \in Nat /\ \A k \in 1 .. WordCount(data) : 2 * k - 1 \in 1 .. Len(data)
  BY <1>1 DEF WordCount
<1>3. ASSUME NEW k \in 1 .. WordCount(data)
      PROVE  WordAt(data, k) \in 0 .. M
  <2> DEFINE low == IF 2 * k <= Len(data) THEN data[2 * k] ELSE 0
  <2>1. data[2 * k - 1] \in 0 .. B - 1
    BY <1>1, <1>2
  <2>2. low \in 0 .. B - 1
    BY <1>1, <1>2, Sizes
  <2>3. WordAt(data, k) = data[2 * k - 1] * B + low
    BY DEF WordAt
  <2> HIDE DEF low
  <2>4. data[2 * k - 1] * B + low \in 0 .. B * B - 1
    BY <2>1, <2>2, Sizes, DigitMore
  <2> QED BY <2>3, <2>4 DEF M, WordSize
<1> QED BY <1>2, <1>3

\* Adding a word is adding modulo all ones, and gives zero from zeroes only.
LEMMA AddsOneWord ==
    ASSUME NEW x \in 0 .. M, NEW w \in 0 .. M
    PROVE  /\ AddWord(x, w) \in 0 .. M
           /\ AddWord(x, w) \in {x + w, x + w - M}
           /\ AddWord(x, w) = 0 <=> x = 0 /\ w = 0
<1>1. CASE x + w < WordSize
  <2>1. (x + w) % WordSize = x + w
    BY <1>1, Sizes DEF M
  <2> QED BY <1>1, <2>1, Sizes DEF M, AddWord
<1>2. CASE x + w >= WordSize
  <2>1. (x + w) % WordSize = x + w - WordSize
    BY <1>2, Sizes DEF M
  <2>2. x + w - WordSize < w /\ (x + w - WordSize + 1) % WordSize = x + w - WordSize + 1
    BY <1>2, Sizes DEF M
  <2> QED BY <1>2, <2>1, <2>2, Sizes DEF M, AddWord
<1> QED BY <1>1, <1>2, Sizes DEF M

\* All ones count as nothing.
LEMMA OnesAreNothing ==
    ASSUME NEW z \in Int, NEW i \in Int
    PROVE  /\ z % M = 0 => (z + i * M) % M = 0
           /\ (i * M) % M = 0
<1>1. M \in Nat \ {0} /\ 0 \in 0 .. M - 1
  BY Sizes
<1>2. ASSUME z % M = 0
      PROVE  (z + i * M) % M = 0
  <2>1. PICK q \in Int : q = z \div M
    BY <1>1, Division
  <2>2. z = M * q
    BY <1>1, <1>2, <2>1, Division
  <2>3. z + i * M = M * (q + i) + 0
    BY <1>1, <2>2
  <2>4. q + i \in Int
    OBVIOUS
  <2>5. (M * (q + i) + 0) % M = 0
    BY <1>1, <2>4, OneQuotient, Zenon
  <2> QED BY <2>3, <2>5
<1>3. (M * i + 0) % M = 0
  BY <1>1, OneQuotient, Zenon
<1>4. M * i + 0 = i * M
  BY <1>1
<1> QED BY <1>2, <1>3, <1>4

\* The words up to k, added by chksum, and their total.
SumsUpTo(sum, data, f) ==
    /\ f[0] = sum
    /\ \A k \in 1 .. WordCount(data) : f[k] = AddWord(f[k - 1], WordAt(data, k))
TotalUpTo(data, f) ==
    /\ f[0] = 0
    /\ \A k \in 1 .. WordCount(data) : f[k] = f[k - 1] + WordAt(data, k)

LEMMA ChksumSteps ==
    ASSUME NEW data \in Seq(0 .. B - 1), NEW sum \in 0 .. M
    PROVE  \E f : SumsUpTo(sum, data, f) /\ chksum(sum, data) = f[WordCount(data)]
<1> DEFINE n == WordCount(data)
           Stepped(f) == [k \in 0 .. n |-> IF k = 0 THEN sum ELSE AddWord(f[k - 1], WordAt(data, k))]
           upto == CHOOSE f : f = Stepped(f)
           step == [p \in (0 .. M) \X (1 .. n) |-> AddWord(p[1], WordAt(data, p[2]))]
<1>1. n \in Nat /\ \A k \in 1 .. n : WordAt(data, k) \in 0 .. M
  BY WordsAreWords
<1>2. step \in [(0 .. M) \X (1 .. n) -> 0 .. M]
  <2>1. \A p \in (0 .. M) \X (1 .. n) : AddWord(p[1], WordAt(data, p[2])) \in 0 .. M
    BY <1>1, AddsOneWord
  <2> QED BY <2>1
<1> HIDE DEF n
<1>3. PICK f \in [0 .. n -> 0 .. M] : StepsFrom(f, n, sum, step)
  <2> HIDE DEF step, Stepped, upto
  <2> QED BY <1>1, <1>2, StepsExist
<1>4. \A k \in 1 .. n : f[k] = AddWord(f[k - 1], WordAt(data, k))
  <2> SUFFICES ASSUME NEW k \in 1 .. n PROVE f[k] = AddWord(f[k - 1], WordAt(data, k))
    OBVIOUS
  <2>1. k - 1 \in 0 .. n
    BY <1>1
  <2>2. <<f[k - 1], k>> \in (0 .. M) \X (1 .. n)
    BY <2>1
  <2>3. step[<<f[k - 1], k>>] = AddWord(f[k - 1], WordAt(data, k))
    BY <2>2
  <2> QED BY <1>3, <2>3 DEF StepsFrom
<1>5. f = Stepped(f)
  BY <1>1, <1>3, <1>4 DEF StepsFrom
<1>6. upto = Stepped(upto)
  <2> HIDE DEF Stepped
  <2> QED BY <1>5
<1> HIDE DEF upto
<1>7. upto[0] = sum /\ \A k \in 1 .. n : upto[k] = AddWord(upto[k - 1], WordAt(data, k))
  BY <1>1, <1>6
<1>8. chksum(sum, data) = upto[n]
  BY DEF chksum, upto, n
<1> QED BY <1>7, <1>8 DEF SumsUpTo, n

LEMMA TotalSteps ==
    ASSUME NEW data \in Seq(0 .. B - 1)
    PROVE  \E f : TotalUpTo(data, f) /\ WordsTotal(data) = f[WordCount(data)]
<1> DEFINE n == WordCount(data)
           Stepped(f) == [k \in 0 .. n |-> IF k = 0 THEN 0 ELSE f[k - 1] + WordAt(data, k)]
           upto == CHOOSE f : f = Stepped(f)
           step == [p \in Nat \X (1 .. n) |-> p[1] + WordAt(data, p[2])]
<1>1. n \in Nat /\ \A k \in 1 .. n : WordAt(data, k) \in Nat
  BY WordsAreWords, Sizes
<1>2. step \in [Nat \X (1 .. n) -> Nat]
  <2>1. \A p \in Nat \X (1 .. n) : p[1] + WordAt(data, p[2]) \in Nat
    BY <1>1
  <2> QED BY <2>1
<1> HIDE DEF n
<1>3. PICK f \in [0 .. n -> Nat] : StepsFrom(f, n, 0, step)
  <2> HIDE DEF step, Stepped, upto
  <2> QED BY <1>1, <1>2, StepsExist
<1>4. \A k \in 1 .. n : f[k] = f[k - 1] + WordAt(data, k)
  <2> SUFFICES ASSUME NEW k \in 1 .. n PROVE f[k] = f[k - 1] + WordAt(data, k)
    OBVIOUS
  <2>1. k - 1 \in 0 .. n
    BY <1>1
  <2>2. <<f[k - 1], k>> \in Nat \X (1 .. n)
    BY <2>1
  <2>3. step[<<f[k - 1], k>>] = f[k - 1] + WordAt(data, k)
    BY <2>2
  <2> QED BY <1>3, <2>3 DEF StepsFrom
<1>5. f = Stepped(f)
  BY <1>1, <1>3, <1>4 DEF StepsFrom
<1>6. upto = Stepped(upto)
  <2> HIDE DEF Stepped
  <2> QED BY <1>5
<1> HIDE DEF upto
<1>7. upto[0] = 0 /\ \A k \in 1 .. n : upto[k] = upto[k - 1] + WordAt(data, k)
  BY <1>1, <1>6
<1>8. WordsTotal(data) = upto[n]
  BY DEF WordsTotal, upto, n
<1> QED BY <1>7, <1>8 DEF TotalUpTo, n

\* The sum is the total modulo all ones, and zero with it, word by word.
Agree(x, y) == x \in 0 .. M /\ y \in Nat /\ (x - y) % M = 0 /\ (x = 0 <=> y = 0)

LEMMA StillAgree ==
    ASSUME NEW x, NEW y, Agree(x, y), NEW w \in 0 .. M
    PROVE  Agree(AddWord(x, w), y + w)
<1> DEFINE r == AddWord(x, w)
<1>1. /\ x \in 0 .. M /\ y \in Nat /\ (x - y) % M = 0 /\ (x = 0 <=> y = 0)
      /\ M \in Nat /\ w \in Nat
  BY Sizes DEF Agree
<1>2. r \in 0 .. M /\ r \in {x + w, x + w - M} /\ (r = 0 <=> x = 0 /\ w = 0)
  BY <1>1, AddsOneWord
<1> HIDE DEF r
<1>3. y + w \in Nat /\ (y + w = 0 <=> y = 0 /\ w = 0)
  BY <1>1
<1>4. (r - (y + w)) % M = 0
  <2>1. x - y \in Int
    BY <1>1
  <2>2. CASE r = x + w
    <3>1. r - (y + w) = x - y
      BY <1>1, <2>2
    <3> QED BY <1>1, <3>1
  <2>3. CASE r = x + w - M
    <3>1. r - (y + w) = x - y + (-1) * M
      BY <1>1, <2>3
    <3>2. (x - y + (-1) * M) % M = 0
      <4>1. -1 \in Int
        OBVIOUS
      <4> QED BY <1>1, <2>1, <4>1, OnesAreNothing
    <3> QED BY <3>1, <3>2
  <2> QED BY <1>2, <2>2, <2>3
<1> QED BY <1>1, <1>2, <1>3, <1>4 DEF Agree, r

LEMMA SumIsTotal ==
    ASSUME NEW data \in Seq(0 .. B - 1)
    PROVE  Agree(chksum(0, data), WordsTotal(data))
<1> DEFINE n == WordCount(data)
<1>1. n \in Nat /\ \A k \in 1 .. n : WordAt(data, k) \in 0 .. M
  BY WordsAreWords
<1>2. 0 \in 0 .. M
  BY Sizes
<1>3. PICK f : SumsUpTo(0, data, f) /\ chksum(0, data) = f[n]
  BY <1>2, ChksumSteps
<1>4. PICK g : TotalUpTo(data, g) /\ WordsTotal(data) = g[n]
  BY TotalSteps
<1> DEFINE G == {k \in 0 .. n : Agree(f[k], g[k])}
<1>5. 0 \in G
  <2>1. 0 \in 0 .. n /\ f[0] = 0 /\ g[0] = 0
    BY <1>1, <1>3, <1>4 DEF SumsUpTo, TotalUpTo
  <2>2. Agree(0, 0)
    <3>1. (0 * M) % M = 0 /\ 0 * M = 0
      BY Sizes, OnesAreNothing
    <3> QED BY <1>2, <3>1 DEF Agree
  <2> QED BY <2>1, <2>2
<1>6. ASSUME NEW k \in 1 .. n, k - 1 \in G
      PROVE  k \in G
  <2>1. f[k] = AddWord(f[k - 1], WordAt(data, k)) /\ g[k] = g[k - 1] + WordAt(data, k)
    BY <1>3, <1>4 DEF SumsUpTo, TotalUpTo
  <2>2. Agree(f[k - 1], g[k - 1])
    BY <1>6
  <2>3. WordAt(data, k) \in 0 .. M
    BY <1>1
  <2>4. Agree(f[k], g[k])
    BY <2>1, <2>2, <2>3, StillAgree
  <2> QED BY <2>4
<1> HIDE DEF G
<1>7. 0 .. n \subseteq G
  BY <1>1, <1>5, <1>6, AllUpTo
<1>8. n \in G
  BY <1>1, <1>7
<1> QED BY <1>3, <1>4, <1>8 DEF G

\* Swapping the bytes of a word is multiplying by B, modulo all ones.
LEMMA Swapped ==
    ASSUME NEW w \in 0 .. M
    PROVE  HTONS(w) \in 0 .. M /\ \E q \in Int : B * w = HTONS(w) + q * M
<1> DEFINE h == w \div B   l == w % B
<1>1. h \in 0 .. B - 1 /\ l \in 0 .. B - 1 /\ w = h * B + l
  BY TwoDigits, Sizes DEF M
<1>2. HTONS(w) = l * B + h
  BY DEF HTONS
<1> HIDE DEF h, l
<1>3. l * B + h \in 0 .. M
  <2>1. l * B + h \in 0 .. B * B - 1
    BY <1>1, Sizes, DigitMore
  <2> QED BY <2>1 DEF M, WordSize
<1>4. B * w = l * B + h + h * M
  <2>1. B * w = h * (B * B) + l * B
    BY <1>1, Sizes
  <2>2. M = B * B - 1
    BY DEF M, WordSize
  <2>3. h * (B * B - 1) = h * (B * B) - h
    BY <1>1, Sizes
  <2>4. h * (B * B) \in Int /\ l * B \in Int /\ h \in Int
    BY <1>1, Sizes
  <2>5. B * w = l * B + h + (h * (B * B) - h)
    <3>1. PICK a \in Int, b \in Int : h * (B * B) = a /\ l * B = b
      BY <2>4
    <3> QED BY <2>1, <2>4, <3>1
  <2> QED BY <2>2, <2>3, <2>5
<1> QED BY <1>1, <1>2, <1>3, <1>4

\* The reply's checksum grows by 8, modulo all ones.
LEMMA ReplyGrows ==
    ASSUME NEW x \in 0 .. M
    PROVE  EchoReply(x) \in 0 .. M /\ EchoReply(x) \in {x + 8, x + 8 - M}
<1>1. HTONS(ICMP_ECHO * B) = 8
  <2>1. B \in Nat \ {0} /\ 8 \in Int /\ 0 \in 0 .. B - 1
    BY Sizes
  <2>2. (B * 8 + 0) % B = 0 /\ (B * 8 + 0) \div B = 8
    BY <2>1, OneQuotient, Zenon
  <2>3. B * 8 + 0 = ICMP_ECHO * B
    BY <2>1 DEF ICMP_ECHO
  <2>4. (ICMP_ECHO * B) % B = 0 /\ (ICMP_ECHO * B) \div B = 8
    BY <2>2, <2>3
  <2> QED BY <2>1, <2>4 DEF HTONS
<1>2. HTONS(WordSize - 1 - ICMP_ECHO * B) = M - 8
  <2>1. B \in Nat \ {0} /\ B - 9 \in Int /\ B - 1 \in 0 .. B - 1
    BY Sizes
  <2>2. (B * (B - 9) + (B - 1)) % B = B - 1 /\ (B * (B - 9) + (B - 1)) \div B = B - 9
    BY <2>1, OneQuotient, Zenon
  <2>3. B * (B - 9) + (B - 1) = WordSize - 1 - ICMP_ECHO * B
    BY <2>1 DEF ICMP_ECHO, WordSize
  <2>4. (B - 1) * B + (B - 9) = M - 8
    BY <2>1 DEF M, WordSize
  <2> QED BY <2>2, <2>3, <2>4 DEF HTONS
<1>3. CASE x >= M - 8
  <2>1. (x + 8 + 1) % WordSize = x + 8 - M
    <3>1. x + 9 \in WordSize .. WordSize + WordSize - 1
      BY <1>3, Sizes DEF M
    <3> QED BY <3>1, Sizes DEF M
  <2> QED BY <1>1, <1>2, <1>3, <2>1, Sizes DEF EchoReply, M
<1>4. CASE ~(x >= M - 8)
  <2>1. (x + 8) % WordSize = x + 8
    BY <1>4, Sizes DEF M
  <2> QED BY <1>1, <1>2, <1>4, <2>1, Sizes DEF EchoReply, M
<1> QED BY <1>3, <1>4

\* What became of an echo request: its first byte is 0.
LEMMA ReplyTotal ==
    ASSUME NEW data \in Seq(0 .. B - 1), Len(data) >= 2, data[1] = ICMP_ECHO
    PROVE  LET reply == [data EXCEPT ![1] = 0]
           IN  /\ reply \in Seq(0 .. B - 1)
               /\ WordsTotal(data) > 0
               /\ WordsTotal(reply) = WordsTotal(data) - 8 * B
<1> DEFINE reply == [data EXCEPT ![1] = 0]   n == WordCount(data)
<1>1. B \in Nat /\ 0 \in 0 .. B - 1 /\ Len(data) \in Nat /\ n \in Nat /\ 1 \in 1 .. n
  <2>1. Len(data) \in Nat
    OBVIOUS
  <2> QED BY <2>1, Sizes DEF WordCount
<1>2. reply \in Seq(0 .. B - 1) /\ Len(reply) = Len(data)
      /\ reply[1] = 0 /\ \A i \in 2 .. Len(data) : reply[i] = data[i]
  <2>1. reply \in Seq(0 .. B - 1) /\ Len(reply) = Len(data)
    BY <1>1, ExceptSeq
  <2>2. DOMAIN data = 1 .. Len(data)
    OBVIOUS
  <2>3. reply[1] = 0 /\ \A i \in 2 .. Len(data) : reply[i] = data[i]
    BY <2>2
  <2> QED BY <2>1, <2>3
<1>3. WordCount(reply) = n
  BY <1>2 DEF WordCount
<1>4. WordAt(data, 1) = 8 * B + data[2] /\ WordAt(reply, 1) = data[2] /\ data[2] \in Nat
  <2>1. data[2] \in 0 .. B - 1 /\ reply[2] = data[2]
    <3>1. 2 \in 1 .. Len(data) /\ 2 \in 2 .. Len(data)
      BY <1>1
    <3> QED BY <1>2, <3>1, ElementOfSeq
  <2>2. 2 * 1 = 2 /\ 2 * 1 - 1 = 1
    OBVIOUS
  <2> HIDE DEF reply
  <2> QED BY <1>1, <1>2, <2>1, <2>2 DEF WordAt, ICMP_ECHO
<1>5. ASSUME NEW k \in 2 .. n
      PROVE  WordAt(reply, k) = WordAt(data, k)
  <2>1. 2 * k - 1 \in 2 .. Len(data) /\ 2 * k \in Nat /\ 2 * k >= 2
    BY <1>1 DEF WordCount
  <2> HIDE DEF reply
  <2>2. reply[2 * k - 1] = data[2 * k - 1]
    BY <1>2, <2>1
  <2>3. 2 * k <= Len(data) => reply[2 * k] = data[2 * k]
    <3>1. 2 * k <= Len(data) => 2 * k \in 2 .. Len(data)
      BY <1>1, <2>1
    <3> QED BY <1>2, <3>1
  <2>4. Len(reply) = Len(data)
    BY <1>2
  <2> QED BY <2>2, <2>3, <2>4 DEF WordAt
<1>6. PICK g : TotalUpTo(data, g) /\ WordsTotal(data) = g[n]
  BY TotalSteps
<1>7. PICK h : TotalUpTo(reply, h) /\ WordsTotal(reply) = h[n]
  BY <1>2, <1>3, TotalSteps
<1> HIDE DEF reply
<1> DEFINE G == {k \in 0 .. n : /\ g[k] \in Nat
                                /\ k # 0 => g[k] > 0 /\ h[k] = g[k] - 8 * B}
<1>8. 0 \in G
  BY <1>1, <1>6 DEF TotalUpTo
<1>9. ASSUME NEW k \in 1 .. n, k - 1 \in G
      PROVE  k \in G
  <2>1. g[k] = g[k - 1] + WordAt(data, k) /\ h[k] = h[k - 1] + WordAt(reply, k)
    BY <1>3, <1>6, <1>7 DEF TotalUpTo
  <2>2. g[0] = 0 /\ h[0] = 0
    BY <1>6, <1>7 DEF TotalUpTo
  <2>3. WordAt(data, k) \in Nat
    BY WordsAreWords, Sizes
  <2>4. CASE k = 1
    <3>1. g[1] = 8 * B + data[2] /\ h[1] = data[2]
      BY <1>4, <2>1, <2>2, <2>4, Sizes
    <3> QED BY <1>4, <2>4, <3>1, Sizes
  <2>5. CASE k # 1
    <3>1. k \in 2 .. n /\ k - 1 # 0 /\ k \in 0 .. n
      BY <2>5
    <3>2. WordAt(reply, k) = WordAt(data, k)
      BY <1>5, <3>1
    <3>3. g[k - 1] \in Nat /\ g[k - 1] > 0 /\ h[k - 1] = g[k - 1] - 8 * B
      BY <1>9, <3>1
    <3>4. g[k] = g[k - 1] + WordAt(data, k) /\ h[k] = g[k - 1] - 8 * B + WordAt(data, k)
      BY <2>1, <3>2, <3>3
    <3>5. g[k] \in Nat /\ g[k] > 0 /\ h[k] = g[k] - 8 * B
      BY <2>3, <3>3, <3>4, Sizes
    <3> QED BY <3>1, <3>5
  <2> QED BY <2>4, <2>5
<1> HIDE DEF G
<1>10. 0 .. n \subseteq G
  BY <1>1, <1>8, <1>9, AllUpTo
<1>11. n \in G /\ n # 0
  BY <1>1, <1>10
<1>12. WordsTotal(data) > 0 /\ WordsTotal(reply) = WordsTotal(data) - 8 * B
  BY <1>6, <1>7, <1>11 DEF G
<1> QED BY <1>2, <1>12 DEF reply

\* The checksum of a reply is right however many bytes it has.
LEMMA RepliesSum ==
    ASSUME NEW data \in Seq(0 .. B - 1), Len(data) >= 2, data[1] = ICMP_ECHO
    PROVE  (HTONS(EchoReply(HTONS(M - chksum(0, data)))) - (M - chksum(0, [data EXCEPT ![1] = 0]))) % M = 0
<1> DEFINE reply == [data EXCEPT ![1] = 0]
           T == WordsTotal(data)       c == chksum(0, data)
           U == WordsTotal(reply)      d == chksum(0, reply)
           w == M - c                  x == HTONS(w)
           y == EchoReply(x)           r == HTONS(y)
<1>1. reply \in Seq(0 .. B - 1) /\ T > 0 /\ U = T - 8 * B
  BY ReplyTotal
<1>2. Agree(c, T) /\ Agree(d, U)
  <2> HIDE DEF reply
  <2> QED BY <1>1, SumIsTotal
<1> HIDE DEF reply, T, U, c, d
<1>3. B \in Int /\ M \in Nat \ {0} /\ 0 \in 0 .. M - 1 /\ T \in Int /\ U \in Int
  BY <1>2, Sizes DEF Agree
<1>4. PICK a \in Int : c - T = a * M
  <2>1. c - T \in Int /\ (c - T) % M = 0
    BY <1>2, <1>3 DEF Agree
  <2>2. (c - T) \div M \in Int /\ c - T = M * ((c - T) \div M) + 0
    BY <1>3, <2>1, Division
  <2>3. c - T = ((c - T) \div M) * M
    BY <1>3, <2>1, <2>2
  <2> QED BY <2>2, <2>3
<1>5. PICK b \in Int : d - U = b * M
  <2>1. d - U \in Int /\ (d - U) % M = 0
    BY <1>2, <1>3 DEF Agree
  <2>2. (d - U) \div M \in Int /\ d - U = M * ((d - U) \div M) + 0
    BY <1>3, <2>1, Division
  <2>3. d - U = ((d - U) \div M) * M
    BY <1>3, <2>1, <2>2
  <2> QED BY <2>2, <2>3
<1>6. c \in 0 .. M /\ d \in 0 .. M /\ w \in 0 .. M
  BY <1>2, <1>3 DEF Agree
<1> HIDE DEF w
<1>7. PICK q \in Int : B * w = x + q * M
  BY <1>6, Swapped
<1>8. x \in 0 .. M
  BY <1>6, Swapped
<1> HIDE DEF x
<1>9. y \in 0 .. M /\ \E e \in 0 .. 1 : y = x + 8 - e * M
  <2>1. y \in 0 .. M /\ y \in {x + 8, x + 8 - M}
    BY <1>8, ReplyGrows
  <2>2. x + 8 = x + 8 - 0 * M /\ x + 8 - M = x + 8 - 1 * M
    BY <1>3, <1>8
  <2> HIDE DEF y
  <2> QED BY <2>1, <2>2
<1> HIDE DEF y
<1>10. PICK e \in 0 .. 1 : y = x + 8 - e * M
  BY <1>9
<1>11. PICK p \in Int : B * y = r + p * M
  BY <1>9, Swapped
<1>12. r \in 0 .. M
  BY <1>9, Swapped
<1> HIDE DEF r
<1> DEFINE K == w - B * q - e * B - p
<1>13. K \in Int /\ r = w + 8 * B + K * M
  <2>1. B * B = M + 1
    BY <1>3 DEF M, WordSize
  <2>2. B * (B * w) = (M + 1) * w
    BY <1>3, <1>6, <2>1
  <2>3. B * (B * w) = B * x + B * q * M
    BY <1>3, <1>6, <1>7, <1>8
  <2>4. B * y = B * x + 8 * B - e * B * M
    BY <1>3, <1>8, <1>9, <1>10
  <2>5. (M + 1) * w = M * w + w /\ M * w \in Int /\ w \in Int
    BY <1>3, <1>6
  <2>6. B * x \in Int /\ B * q * M \in Int /\ e * B * M \in Int /\ p * M \in Int /\ 8 * B \in Int /\ r \in Int
    BY <1>3, <1>8, <1>12
  <2>7. r = w + 8 * B + (M * w - B * q * M - e * B * M - p * M)
    <3>1. PICK A \in Int, C \in Int, D \in Int, F \in Int :
            B * x = A /\ B * q * M = C /\ e * B * M = D /\ p * M = F
      BY <2>6
    <3>2. PICK N \in Int, O \in Int : M * w = N /\ 8 * B = O
      BY <2>5, <2>6
    <3>3. N + w = A + C /\ r + F = A + O - D
      BY <1>11, <2>2, <2>3, <2>4, <2>5, <3>1, <3>2
    <3>4. r = w + O + (N - C - D - F)
      BY <2>5, <2>6, <3>3
    <3> QED BY <3>1, <3>2, <3>4
  <2>8. M * w - B * q * M - e * B * M - p * M = K * M
    BY <1>3, <1>6
  <2> QED BY <1>3, <1>6, <2>7, <2>8
<1> HIDE DEF K
<1>14. r - (M - d) = (b - a + K) * M
  <2>1. r - (M - d) = b * M - a * M + K * M
    <3>1. PICK A \in Int, D \in Int, F \in Int, O \in Int :
            a * M = A /\ b * M = D /\ K * M = F /\ 8 * B = O
      BY <1>3, <1>13
    <3>2. c - T = A /\ d - U = D /\ r = w + O + F /\ U = T - O /\ w = M - c
      BY <1>1, <1>4, <1>5, <1>13, <3>1 DEF w
    <3> QED BY <1>3, <1>6, <3>1, <3>2
  <2>2. b * M - a * M + K * M = (b - a + K) * M
    BY <1>3, <1>13
  <2> QED BY <2>1, <2>2
<1>15. ((b - a + K) * M) % M = 0
  <2>1. b - a + K \in Int
    BY <1>13
  <2> QED BY <2>1, OnesAreNothing
<1> QED BY <1>14, <1>15 DEF r, y, x, w, c, d, reply

-----------------------------------------------------------------------------
(* The estimate of the round trip time.                                      *)

\* How far it can grow in as many measurements as a connection of this program makes.
Reach(n) == CASE n = 0 -> [sa |-> 0, sv |-> 16, rto |-> 3]
              [] n = 1 -> [sa |-> 3, sv |-> 15, rto |-> 15]
              [] n = 2 -> [sa |-> 18, sv |-> 27, rto |-> 29]
              [] OTHER -> [sa |-> 47, sv |-> 50, rto |-> 55]

RttInv ==
    /\ rtt.acks \in 0 .. 3 /\ rtt.acks <= MaxAcks
    /\ rtt \in [rto : Int, timer : Int, sa : Int, sv : Int, acks : Int]
    /\ rtt.rto \in 1 .. Reach(rtt.acks).rto
    /\ rtt.timer \in 0 .. rtt.rto
    /\ rtt.sa \in 0 .. Reach(rtt.acks).sa
    /\ rtt.sv \in 3 .. Reach(rtt.acks).sv
    /\ rtt.acks = 0 /\ rtt.sv > 4 => rtt.timer <= 1

LEMMA Reaches ==
    /\ Reach(0) = [sa |-> 0, sv |-> 16, rto |-> 3]
    /\ Reach(1) = [sa |-> 3, sv |-> 15, rto |-> 15]
    /\ Reach(2) = [sa |-> 18, sv |-> 27, rto |-> 29]
    /\ Reach(3) = [sa |-> 47, sv |-> 50, rto |-> 55]
BY DEF Reach

LEMMA SignedByte ==
    ASSUME NEW x \in -128 .. 127
    PROVE  S8(x) = x
BY DEF S8

LEMMA UnsignedByte ==
    ASSUME NEW x \in 0 .. 255
    PROVE  x % 256 = x
OBVIOUS

\* A measurement keeps the estimate within its reach.
LEMMA AckKeeps ==
    ASSUME RttInv, Ack, MaxAcks <= 3
    PROVE  RttInv'
<1> DEFINE n == rtt.acks
           m1 == S8(S8(rtt.rto - rtt.timer) - (rtt.sa \div 8))
           sa == (rtt.sa + m1) % 256
           m2 == S8(S8(Abs(m1)) - (rtt.sv \div 4))
           sv == (rtt.sv + m2) % 256
           rto == ((sa \div 8) + sv) % 256
<1>1. /\ n \in 0 .. 2 /\ n + 1 <= MaxAcks /\ MaxAcks \in Nat
      /\ rtt' = [rto |-> rto, timer |-> rto, sa |-> sa, sv |-> sv, acks |-> n + 1]
  BY UipNumbersAssumption DEF RttInv, Ack
<1>2. /\ rtt.rto \in 1 .. 29 /\ rtt.timer \in 0 .. rtt.rto /\ rtt.sa \in 0 .. 18 /\ rtt.sv \in 3 .. 27
      /\ n = 0 => rtt.rto <= 3 /\ rtt.sa = 0 /\ rtt.sv <= 16 /\ (rtt.sv > 4 => rtt.timer <= 1)
      /\ n = 1 => rtt.rto <= 15 /\ rtt.sa <= 3 /\ rtt.sv <= 15
  BY <1>1 DEF RttInv, Reach
<1> DEFINE e == rtt.sa \div 8   q == rtt.sv \div 4   f == sa \div 8
<1>3. e \in Int /\ 8 * e <= rtt.sa /\ rtt.sa < 8 * e + 8 /\ q \in Int /\ 4 * q <= rtt.sv /\ rtt.sv < 4 * q + 4
  BY <1>2
<1>4. m1 = rtt.rto - rtt.timer - e /\ m1 \in -2 .. 29
  <2> HIDE DEF e, q
  <2>1. rtt.rto - rtt.timer \in 0 .. 29
    BY <1>2
  <2>2. e \in 0 .. 2
    BY <1>2, <1>3
  <2>3. S8(rtt.rto - rtt.timer) = rtt.rto - rtt.timer
    BY <2>1, SignedByte
  <2>4. S8(rtt.rto - rtt.timer - e) = rtt.rto - rtt.timer - e
    <3>1. rtt.rto - rtt.timer - e \in -128 .. 127
      BY <2>1, <2>2
    <3> QED BY <3>1, SignedByte
  <2>5. m1 = rtt.rto - rtt.timer - e
    BY <2>3, <2>4 DEF e
  <2> HIDE DEF m1
  <2> QED BY <2>1, <2>2, <2>5
<1>5. m2 = Abs(m1) - q /\ Abs(m1) \in 0 .. 29 /\ q \in 0 .. 6
  <2> HIDE DEF e, q, m1
  <2>1. Abs(m1) \in 0 .. 29
    BY <1>4 DEF Abs
  <2>3. q \in 0 .. 6
    BY <1>2, <1>3
  <2>2. S8(Abs(m1)) = Abs(m1) /\ S8(Abs(m1) - q) = Abs(m1) - q
    BY <2>1, <2>3, SignedByte
  <2> QED BY <2>1, <2>2, <2>3 DEF q
<1> HIDE DEF e, q, m1, m2
<1>6. sa = rtt.sa + m1 /\ sa \in 0 .. 47
  <2>1. rtt.sa + m1 \in 0 .. 47
    BY <1>2, <1>3, <1>4
  <2> QED BY <2>1, UnsignedByte
<1>7. sv = rtt.sv + m2 /\ sv \in 3 .. 50
  <2>1. rtt.sv + m2 \in 3 .. 50
    BY <1>2, <1>3, <1>5
  <2> QED BY <2>1, UnsignedByte
<1> HIDE DEF sa, sv
<1>8. f \in 0 .. 5 /\ 8 * f <= sa
  BY <1>6
<1>9. rto = f + sv
  <2> HIDE DEF f
  <2>1. f + sv \in 0 .. 255
    BY <1>7, <1>8
  <2> QED BY <2>1, UnsignedByte DEF f
<1> HIDE DEF f, rto
<1>10. rtt'.rto = rto /\ rtt'.timer = rto /\ rtt'.sa = sa /\ rtt'.sv = sv /\ rtt'.acks = n + 1
      /\ rtt' \in [rto : Int, timer : Int, sa : Int, sv : Int, acks : Int]
  BY <1>1, <1>6, <1>7, <1>8, <1>9
<1>11. rto \in 1 .. Reach(n + 1).rto /\ sa \in 0 .. Reach(n + 1).sa /\ sv \in 3 .. Reach(n + 1).sv
  <2>1. CASE n = 0
    <3>1. sa <= 3 /\ sv <= 15 /\ rto <= 15 /\ rto >= 1
      BY <1>2, <1>3, <1>4, <1>5, <1>6, <1>7, <1>8, <1>9, <2>1 DEF Abs
    <3>2. n + 1 = 1
      BY <2>1
    <3>3. rto \in 1 .. Reach(1).rto /\ sa \in 0 .. Reach(1).sa /\ sv \in 3 .. Reach(1).sv
      BY <1>6, <1>7, <1>8, <1>9, <3>1, Reaches
    <3> QED BY <3>2, <3>3
  <2>2. CASE n = 1
    <3>1. sa <= 18 /\ sv <= 27 /\ rto <= 29 /\ rto >= 1
      <4>1. m1 <= 15 /\ Abs(m1) <= 15
        BY <1>2, <1>3, <1>4, <2>2 DEF Abs
      <4>2. sa <= 18
        BY <1>2, <1>4, <1>6, <4>1, <2>2
      <4>3. rtt.sv - q <= 12
        BY <1>2, <1>3, <2>2
      <4>4. sv <= 27
        BY <1>2, <1>5, <1>7, <4>1, <4>3
      <4> QED BY <1>6, <1>7, <1>8, <1>9, <4>2, <4>4
    <3>2. n + 1 = 2
      BY <2>2
    <3>3. rto \in 1 .. Reach(2).rto /\ sa \in 0 .. Reach(2).sa /\ sv \in 3 .. Reach(2).sv
      BY <1>6, <1>7, <1>8, <1>9, <3>1, Reaches
    <3> QED BY <3>2, <3>3
  <2>3. CASE n = 2
    <3>1. sa <= 47 /\ sv <= 50 /\ rto <= 55 /\ rto >= 1
      <4>1. m1 <= 29 /\ Abs(m1) <= 29
        BY <1>2, <1>3, <1>4, <2>3 DEF Abs
      <4>2. sa <= 47
        BY <1>2, <1>4, <1>6, <4>1, <2>3
      <4>3. rtt.sv - q <= 21
        BY <1>2, <1>3, <2>3
      <4>4. sv <= 50
        BY <1>2, <1>5, <1>7, <4>1, <4>3
      <4> QED BY <1>6, <1>7, <1>8, <1>9, <4>2, <4>4
    <3>2. n + 1 = 3
      BY <2>3
    <3>3. rto \in 1 .. Reach(3).rto /\ sa \in 0 .. Reach(3).sa /\ sv \in 3 .. Reach(3).sv
      BY <1>6, <1>7, <1>8, <1>9, <3>1, Reaches
    <3> QED BY <3>2, <3>3
  <2> QED BY <1>1, <2>1, <2>2, <2>3
<1> QED BY <1>1, <1>10, <1>11 DEF RttInv

\* What is added and summed does not change.
NumbersInv ==
    /\ op.number \in [1 .. 4 -> 0 .. B - 1]
    /\ op.length \in 0 .. WordSize - 1
    /\ op.data \in Seq(0 .. B - 1)
    /\ RttInv

\* Whatever is added and summed, uIP's own arithmetic is right: sequence numbers add up through every
\* carry (uip_add32), the checksum of a string of any length is the one every other host
\* computes (chksum), also that of an echo reply, which is changed and not computed again; and with the at
\* most three measurements a connection of this program makes, the estimate never overflows.
THEOREM NumbersAreRight ==
    ASSUME MaxAcks <= 3
    PROVE  NumbersSpec => []NumbersRight
<1>1. NumbersInit => NumbersInv
  <2> SUFFICES ASSUME NumbersInit PROVE NumbersInv
    OBVIOUS
  <2>1. <<0, 0, 0, 0>> \in [1 .. 4 -> 0 .. B - 1] /\ 0 \in 0 .. WordSize - 1 /\ <<>> \in Seq(0 .. B - 1)
    BY Sizes
  <2>2. /\ op.number \in Numbers \cup {<<0, 0, 0, 0>>}
        /\ op.length \in Lengths \cup {0}
        /\ op.data \in Bytes \cup {<<>>}
    BY DEF NumbersInit
  <2>3. /\ op.number \in [1 .. 4 -> 0 .. B - 1]
        /\ op.length \in 0 .. WordSize - 1
        /\ op.data \in Seq(0 .. B - 1)
    BY <2>1, <2>2, UipNumbersAssumption DEF WordSize
  <2>4. RttInv
    <3>1. rtt = Estimate(3, 4) \/ rtt = Estimate(1, 16)
      BY DEF NumbersInit, UIP_RTO
    <3>2. /\ rtt \in [rto : Int, timer : Int, sa : Int, sv : Int, acks : Int]
          /\ rtt.rto = 3 /\ rtt.timer \in 0 .. 3 /\ rtt.sa = 0 /\ rtt.sv \in {4, 16} /\ rtt.acks = 0
          /\ rtt.sv = 16 => rtt.timer <= 1
      BY <3>1 DEF Estimate, UIP_RTO
    <3>3. Reach(rtt.acks) = [sa |-> 0, sv |-> 16, rto |-> 3] /\ MaxAcks \in Nat
      BY <3>2, Reaches, UipNumbersAssumption
    <3> QED BY <3>2, <3>3 DEF RttInv
  <2> QED BY <2>3, <2>4 DEF NumbersInv
<1>2. NumbersInv /\ [NumbersNext]_numbersVars => NumbersInv'
  <2> SUFFICES ASSUME NumbersInv, [NumbersNext]_numbersVars PROVE NumbersInv'
    OBVIOUS
  <2>1. UNCHANGED op
    BY DEF NumbersNext, Tick, Ack, numbersVars
  <2>2. RttInv'
    <3>1. CASE Tick
      <4>1. rtt' = [rtt EXCEPT !.timer = rtt.timer - 1] /\ rtt.timer > 0 /\ RttInv
        BY <3>1 DEF Tick, NumbersInv
      <4>2. rtt \in [rto : Int, timer : Int, sa : Int, sv : Int, acks : Int]
        BY <4>1 DEF RttInv
      <4>3. /\ rtt' \in [rto : Int, timer : Int, sa : Int, sv : Int, acks : Int]
            /\ rtt'.rto = rtt.rto /\ rtt'.sa = rtt.sa /\ rtt'.sv = rtt.sv /\ rtt'.acks = rtt.acks
            /\ rtt'.timer = rtt.timer - 1
        BY <4>1, <4>2
      <4> QED BY <4>1, <4>3 DEF RttInv
    <3>2. CASE Ack
      BY <3>2, AckKeeps DEF NumbersInv
    <3>3. CASE UNCHANGED numbersVars
      BY <3>3 DEF numbersVars, NumbersInv, RttInv
    <3> QED BY <3>1, <3>2, <3>3 DEF NumbersNext
  <2> QED BY <2>1, <2>2 DEF NumbersInv
<1>3. NumbersInv => NumbersRight
  <2> SUFFICES ASSUME NumbersInv PROVE NumbersRight
    OBVIOUS
  <2>1. AddsUp
    BY Adds DEF AddsUp, NumbersInv
  <2>2. SumsWords
    BY SumIsTotal DEF SumsWords, NumbersInv, Agree, M
  <2>3. ReplySums
    BY RepliesSum DEF ReplySums, NumbersInv, M
  <2>4. RtoInRange
    <3>1. rtt.acks \in 0 .. 3 /\ rtt.rto \in 1 .. Reach(rtt.acks).rto
      BY DEF NumbersInv, RttInv
    <3> QED BY <3>1 DEF Reach, RtoInRange
  <2> QED BY <2>1, <2>2, <2>3, <2>4 DEF NumbersRight
<1> QED BY <1>1, <1>2, <1>3, PTL DEF NumbersSpec

-----------------------------------------------------------------------------
(* The texts on the display.                                                 *)

\* The characters of a text are built up place by place, and are none but its own.
LEMMA CharactersGrow ==
    ASSUME NEW str \in Seq(STRING)
    PROVE  /\ CharactersTo(str, 0) = <<>>
           /\ \A k \in 1 .. Len(str) :
                CharactersTo(str, k) = IF str[k] = LineEnd THEN CharactersTo(str, k - 1)
                                       ELSE Append(CharactersTo(str, k - 1), str[k])
           /\ \A k \in 0 .. Len(str) : CharactersTo(str, k) \in Seq(Range(str) \ {LineEnd})
<1> DEFINE n == Len(str)
           X == Seq(Range(str) \ {LineEnd})
           Build(f) == [k \in 0 .. n |-> IF k = 0 THEN <<>>
                                         ELSE IF str[k] = LineEnd THEN f[k - 1] ELSE Append(f[k - 1], str[k])]
           upto == CHOOSE f : f = Build(f)
           step == [p \in X \X (1 .. n) |-> IF str[p[2]] = LineEnd THEN p[1] ELSE Append(p[1], str[p[2]])]
<1>1. n \in Nat /\ <<>> \in X
  OBVIOUS
<1>2. \A c \in X, k \in 1 .. n : str[k] # LineEnd => Append(c, str[k]) \in X
  <2> SUFFICES ASSUME NEW c \in X, NEW k \in 1 .. n, str[k] # LineEnd PROVE Append(c, str[k]) \in X
    OBVIOUS
  <2>1. str[k] \in Range(str) \ {LineEnd}
    BY DEF Range
  <2> QED BY <2>1
<1>3. step \in [X \X (1 .. n) -> X]
  <2>1. \A p \in X \X (1 .. n) : (IF str[p[2]] = LineEnd THEN p[1] ELSE Append(p[1], str[p[2]])) \in X
    <3> HIDE DEF X
    <3> QED BY <1>2
  <2> HIDE DEF X
  <2> QED BY <2>1
<1> HIDE DEF n, X
<1>4. PICK f \in [0 .. n -> X] : StepsFrom(f, n, <<>>, step)
  <2> HIDE DEF step, Build, upto
  <2> QED BY <1>1, <1>3, StepsExist
<1>5. \A k \in 1 .. n : f[k] = IF str[k] = LineEnd THEN f[k - 1] ELSE Append(f[k - 1], str[k])
  <2> SUFFICES ASSUME NEW k \in 1 .. n
               PROVE  f[k] = IF str[k] = LineEnd THEN f[k - 1] ELSE Append(f[k - 1], str[k])
    OBVIOUS
  <2>1. k - 1 \in 0 .. n
    BY <1>1
  <2>2. <<f[k - 1], k>> \in X \X (1 .. n)
    BY <2>1
  <2>3. step[<<f[k - 1], k>>] = IF str[k] = LineEnd THEN f[k - 1] ELSE Append(f[k - 1], str[k])
    BY <2>2
  <2> QED BY <1>4, <2>3 DEF StepsFrom
<1>6. f = Build(f)
  <2> DEFINE body(k) == IF k = 0 THEN <<>>
                        ELSE IF str[k] = LineEnd THEN f[k - 1] ELSE Append(f[k - 1], str[k])
  <2>1. f[0] = <<>>
    BY <1>4 DEF StepsFrom
  <2>2. \A k \in 0 .. n : f[k] = body(k)
    <3> SUFFICES ASSUME NEW k \in 0 .. n PROVE f[k] = body(k)
      OBVIOUS
    <3>1. CASE k = 0
      BY <2>1, <3>1
    <3>2. CASE k # 0
      <4>1. k \in 1 .. n
        BY <1>1, <3>2
      <4> QED BY <1>5, <3>2, <4>1
    <3> QED BY <3>1, <3>2
  <2>3. Build(f) = [k \in 0 .. n |-> body(k)]
    OBVIOUS
  <2> HIDE DEF body, Build
  <2> QED BY <1>4, <2>2, <2>3
<1>7. upto = Build(upto)
  <2> HIDE DEF Build
  <2> QED BY <1>6
<1> HIDE DEF upto
<1>8. /\ upto[0] = <<>>
      /\ \A k \in 1 .. n : upto[k] = IF str[k] = LineEnd THEN upto[k - 1] ELSE Append(upto[k - 1], str[k])
  <2> DEFINE body(k) == IF k = 0 THEN <<>>
                        ELSE IF str[k] = LineEnd THEN upto[k - 1] ELSE Append(upto[k - 1], str[k])
  <2>1. Build(upto) = [k \in 0 .. n |-> body(k)]
    OBVIOUS
  <2>2. \A k \in 0 .. n : upto[k] = body(k)
    <3> HIDE DEF body, Build
    <3> QED BY <1>7, <2>1
  <2>3. 0 \in 0 .. n /\ \A k \in 1 .. n : k \in 0 .. n /\ k # 0
    BY <1>1
  <2> QED BY <2>2, <2>3
<1>9. \A k : CharactersTo(str, k) = upto[k]
  BY DEF CharactersTo, upto, n
<1>10. \A k \in 0 .. n : upto[k] \in X
  <2> DEFINE G == {k \in 0 .. n : upto[k] \in X}
  <2>1. 0 \in G
    BY <1>1, <1>8
  <2>2. ASSUME NEW k \in 1 .. n, k - 1 \in G PROVE k \in G
    BY <1>1, <1>2, <1>8, <2>2
  <2> HIDE DEF G
  <2>3. 0 .. n \subseteq G
    BY <1>1, <2>1, <2>2, AllUpTo
  <2> QED BY <2>3 DEF G
<1>11. \A k \in 1 .. n : k - 1 \in 0 .. n
  BY <1>1
<1> QED BY <1>8, <1>9, <1>10, <1>11 DEF n, X

\* No other character is on a clear display after it.
LEMMA CharactersOfText ==
    ASSUME NEW str \in Seq(STRING), NEW k \in 0 .. Len(str), NEW i \in DOMAIN CharactersTo(str, k)
    PROVE  CharactersTo(str, k)[i] \in Range(str) \ {LineEnd}
<1>1. CharactersTo(str, k) \in Seq(Range(str) \ {LineEnd})
  BY CharactersGrow
<1> QED BY <1>1

\* Of some places the last.
LEMMA LargestPlace ==
    ASSUME NEW n \in Nat, NEW I \in SUBSET (1 .. n), I # {}
    PROVE  \E m \in I : \A k \in I : k <= m
<1> DEFINE Back == {n - i : i \in I}
<1>1. Back \in SUBSET Nat /\ Back # {}
  <2>1. PICK i : i \in I
    OBVIOUS
  <2>2. \A j \in I : n - j \in Nat
    OBVIOUS
  <2>3. n - i \in Back
    BY <2>1
  <2> QED BY <2>2, <2>3
<1>2. IsWellFoundedOn(OpToRel(<, Nat), Nat)
  BY NatLessThanWellFounded
<1>3. PICK x \in Back : \A y \in Back : <<y, x>> \notin OpToRel(<, Nat)
  <2> HIDE DEF Back
  <2> QED BY <1>1, <1>2, WFMin
<1>4. \A y \in Back : x <= y
  <2>1. x \in Nat /\ \A y \in Back : y \in Nat /\ <<y, x>> \in Nat \X Nat
    <3> HIDE DEF Back
    <3> QED BY <1>1
  <2>2. \A y \in Back : ~(y < x)
    <3> HIDE DEF Back
    <3> QED BY <1>3, <2>1 DEF OpToRel
  <2> HIDE DEF Back
  <2> QED BY <2>1, <2>2
<1>5. PICK m \in I : x = n - m
  OBVIOUS
<1>6. ASSUME NEW k \in I PROVE k <= m
  <2>1. n - k \in Back
    OBVIOUS
  <2>2. n - m <= n - k
    BY <1>4, <1>5, <2>1
  <2> QED BY <2>2
<1> QED BY <1>6
\* Each character of the main loop's text has its place; the end of its first line is at most one.
LEMMA LineEndPlace ==
    ASSUME NEW str \in Seq(STRING), \A i, j \in DOMAIN str : str[i] = str[j] => i = j,
           NEW n \in DOMAIN str, str[n] = LineEnd
    PROVE  /\ SelectInSeq(str, LAMBDA c : c = LineEnd) = n
           /\ SelectLastInSeq(str, LAMBDA c : c = LineEnd) = n
<1>1. {i \in 1 .. Len(str) : str[i] = LineEnd} = {n}
  OBVIOUS
<1>2. Min({n}) = n /\ Max({n}) = n
  <2>1. n \in Nat
    OBVIOUS
  <2> QED BY <2>1 DEF Min, Max
<1> QED BY <1>1, <1>2 DEF SelectInSeq, SelectLastInSeq

LEMMA NoLineEnd ==
    ASSUME NEW str \in Seq(STRING), \A i \in DOMAIN str : str[i] # LineEnd
    PROVE  SelectInSeq(str, LAMBDA c : c = LineEnd) = 0
<1>1. {i \in 1 .. Len(str) : str[i] = LineEnd} = {}
  OBVIOUS
<1> QED BY <1>1 DEF SelectInSeq

\* The greater of two numbers, and at least 0.
LEMMA GreaterOrZero ==
    ASSUME NEW a \in Int, NEW b \in Int, NEW r,
           r = IF \A n \in {a, b} : n <= 0 THEN 0 ELSE CHOOSE n \in {a, b} : \A k \in {a, b} : k <= n
    PROVE  r \in Nat /\ a <= r /\ b <= r
<1>1. CASE \A n \in {a, b} : n <= 0
  BY <1>1
<1>2. CASE ~ \A n \in {a, b} : n <= 0
  <2>1. \E n \in {a, b} : \A k \in {a, b} : k <= n
    <3>1. CASE a <= b
      BY <3>1
    <3>2. CASE b <= a
      BY <3>2
    <3> QED BY <3>1, <3>2
  <2>2. r \in {a, b} /\ \A k \in {a, b} : k <= r
    BY <1>2, <2>1
  <2> QED BY <1>2, <2>2
<1> QED BY <1>1, <1>2

\* Shifted that often, each of the two lines has been in view to its end.
LEMMA ShiftsShow ==
    ASSUME NEW str \in Seq(STRING)
    PROVE  /\ Shifts(str) \in Nat
           /\ (\A i, j \in DOMAIN str : str[i] = str[j] => i = j) =>
                LET n    == SelectInSeq(str, LAMBDA c : c = LineEnd)
                    ends == IF n = 0 THEN {Len(str)} ELSE {n - 1, Len(str) - n}
                IN  \A end \in ends : end <= LineSize + Shifts(str)
<1> DEFINE n == SelectInSeq(str, LAMBDA c : c = LineEnd)
           tok == IF \E i \in DOMAIN str : str[i] = LineEnd
                  THEN SelectLastInSeq(str, LAMBDA c : c = LineEnd) - 1
                  ELSE Len(str)
           a == tok - LineSize
           b == Len(str) - tok - LineSize
<1>0. LineSize \in Nat /\ Len(str) \in Nat
  BY LcdAssumption
<1>1. Shifts(str) = IF \A k \in {a, b} : k <= 0 THEN 0 ELSE CHOOSE m \in {a, b} : \A k \in {a, b} : k <= m
  BY DEF Shifts
<1>2. tok \in Int
  <2>1. CASE \A i \in DOMAIN str : str[i] # LineEnd
    BY <1>0, <2>1
  <2>2. CASE \E i \in DOMAIN str : str[i] = LineEnd
    <3> DEFINE I == {i \in 1 .. Len(str) : str[i] = LineEnd}
    <3>1. SelectLastInSeq(str, LAMBDA c : c = LineEnd) = IF I # {} THEN Max(I) ELSE 0
      BY DEF SelectLastInSeq
    <3>2. I # {}
      BY <2>2
    <3>3. \E m \in I : \A k \in I : k <= m
      BY <1>0, <3>2, LargestPlace
    <3>4. Max(I) \in I
      BY <3>3 DEF Max
    <3> QED BY <2>2, <3>1, <3>2, <3>4
  <2> QED BY <2>1, <2>2
<1> HIDE DEF tok
<1>3. a \in Int /\ b \in Int
  BY <1>0, <1>2
<1> HIDE DEF a, b
<1>4. Shifts(str) \in Nat /\ a <= Shifts(str) /\ b <= Shifts(str)
  BY <1>1, <1>3, GreaterOrZero
<1>5. ASSUME \A i, j \in DOMAIN str : str[i] = str[j] => i = j
      PROVE  \A end \in IF n = 0 THEN {Len(str)} ELSE {n - 1, Len(str) - n} : end <= LineSize + Shifts(str)
  <2>1. CASE \A i \in DOMAIN str : str[i] # LineEnd
    <3>1. n = 0
      BY <2>1, NoLineEnd
    <3>2. tok = Len(str)
      BY <2>1 DEF tok
    <3> HIDE DEF n
    <3> QED BY <1>0, <1>4, <3>1, <3>2 DEF a, b
  <2>2. ASSUME NEW m \in DOMAIN str, str[m] = LineEnd
        PROVE  \A end \in IF n = 0 THEN {Len(str)} ELSE {n - 1, Len(str) - n} : end <= LineSize + Shifts(str)
    <3>1. n = m
      BY <1>5, <2>2, LineEndPlace
    <3>2. tok = m - 1
      BY <1>5, <2>2, LineEndPlace DEF tok
    <3>3. m \in 1 .. Len(str)
      OBVIOUS
    <3> HIDE DEF n
    <3> QED BY <1>0, <1>4, <3>1, <3>2, <3>3 DEF a, b
  <2> QED BY <2>1, <2>2
<1> QED BY <1>4, <1>5
-----------------------------------------------------------------------------
(* The display.                                                              *)

Datum   == Range(Text) \cup Range(Page)
             \cup {Noise, "clear", "line2", "shift", "twoLines", "on", "increment"}
Op      == [rs : {0, 1}, val : Datum]
Writing == {"rs", "rw", "out", "data", "high", "low"}
Late    == {"out", "data", "high", "low"}
Polling == {"pollRs", "pollRw", "pollIn", "pollHigh", "pollRead", "pollLow"}

\* What can be on the display.
Letter == (Range(Text) \cup Range(Page)) \ {LineEnd}

LcdTypeOK ==
    /\ pins \in [rs : {0, 1}, rw : {0, 1}, e : {0, 1}, out : BOOLEAN, data : Datum]
    /\ lcd_busy \in BOOLEAN /\ shown \in Seq(Letter) /\ shift \in Nat /\ settings \subseteq Settings
    /\ ops \in Seq(Op) /\ at \in {"idle"} \cup Writing \cup Polling
    /\ at = "idle" <=> ops = <<>>
    /\ busy \in BOOLEAN /\ pages \in Nat /\ preempted \in BOOLEAN

\* A handler leaves the pins reading and E low.  What the main loop sets after that is right, or
\* is of no effect: with RW low the data pins are driven, with what it means to write.
PinsFollow ==
    /\ at \in {"rw"} \cup Late => pins.rs \in {0, Head(ops).rs}
    /\ at \in {"data", "high", "low"} /\ pins.rw = 0 => pins.out = TRUE
    /\ at \in {"high", "low"} /\ pins.rw = 0 => pins.data = Head(ops).val
    /\ at = "low" /\ pins.rw = 0 => pins.e = 1
    /\ at \in {"pollIn", "pollHigh", "pollRead", "pollLow"} => pins.rw = 1
    /\ at \in {"pollHigh", "pollRead"} => pins.out = FALSE
    /\ preempted = FALSE => /\ at \in {"rw"} \cup Late => pins.rs = Head(ops).rs
                            /\ at \in Late => pins.rw = 0

\* The main loop does not write to a busy display.
Waits ==
    /\ at \in {"idle"} \cup Writing => lcd_busy = FALSE
    /\ at = "pollRead" /\ lcd_busy = TRUE => pins.e = 1
    /\ at = "pollLow" /\ busy = FALSE => lcd_busy = FALSE

\* The main loop writes the set-up, and then one text after the other.
Full      == lcdClearScreen \o lcdPrintString(Text)
Ends(all, o) == Len(o) <= Len(all) /\ \A i \in 1 .. Len(o) : o[i] = all[Len(all) - Len(o) + i]
Rest(all) == Ends(all, ops)
Done(all) == Len(all) - Len(ops)

\* A page comes only after the set-up was written.
Starting ==
    /\ Done(lcdInit) < 3 \/ at \in Writing => preempted = FALSE /\ "increment" \notin settings
    /\ Done(lcdInit) > 0 \/ at \in Polling => "twoLines" \in settings
    /\ Done(lcdInit) > 1 \/ (Done(lcdInit) = 1 /\ at \in Polling) => "on" \in settings
    /\ Done(lcdInit) = 3 /\ at \in Polling => "increment" \in settings
    /\ \A i \in DOMAIN shown : shown[i] \notin Range(Text)
    /\ preempted = FALSE => shown = <<>>

\* The display shows the text up to the n-th of its writes after the first.
Shows(n) ==
    /\ shown = CharactersTo(Text, IF n <= Len(Text) THEN n ELSE Len(Text))
    /\ shift = IF n <= Len(Text) THEN 0 ELSE n - Len(Text)

\* From the clearing on, or from where a handler made it needless, no character of the text is
\* shown that is still to be written; and all others are if no handler cut in.
Printing ==
    LET d == Done(Full) IN
    /\ d > 0 \/ at \in Polling \/ (at \in Late /\ pins.rw = 1) =>
          \A i \in DOMAIN shown, k \in DOMAIN Text :
              shown[i] = Text[k] => k <= d /\ (at \in Writing => k < d)
    /\ preempted = FALSE => /\ at \in Polling => Shows(d)
                            /\ at \in Writing /\ d > 0 => Shows(d - 1)

Progress ==
    /\ ops # <<>> => Rest(lcdInit) \/ Rest(Full)
    /\ ops # <<>> /\ Rest(lcdInit) => Starting
    /\ ops # <<>> /\ Rest(Full) => Printing
    /\ ops = <<>> \/ Rest(Full) => settings = Settings
    /\ ops = <<>> /\ preempted = FALSE => shown = <<>> \/ Shows(Len(Full) - 1)

LcdInv == LcdTypeOK /\ PinsFollow /\ Waits /\ Progress /\ MainInOrder

LEMMA TextsAre ==
    /\ Text \in Seq(STRING) /\ Page \in Seq(STRING) /\ Len(Text) \in Nat /\ Len(Page) \in Nat \ {0}
    /\ Shifts(Text) \in Nat /\ Shifts(Page) \in Nat
    /\ Letter \subseteq STRING /\ Noise \notin Letter /\ LineEnd \notin Letter
    /\ \A k \in DOMAIN Text : Text[k] # LineEnd => Text[k] \in Letter
<1>1. Text \in Seq(STRING) /\ Page \in Seq(STRING) /\ Page # <<>> /\ Noise \notin Range(Text) \cup Range(Page)
  BY LcdAssumption
<1>2. Shifts(Text) \in Nat /\ Shifts(Page) \in Nat
  BY <1>1, ShiftsShow
<1>3. Range(Text) \subseteq STRING /\ Range(Page) \subseteq STRING
  BY <1>1 DEF Range
<1>4. Len(Text) \in Nat /\ Len(Page) \in Nat \ {0}
  BY <1>1
<1>5. \A k \in DOMAIN Text : Text[k] \in Range(Text)
  BY DEF Range
<1> QED BY <1>1, <1>2, <1>3, <1>4, <1>5 DEF Letter

\* No character of a page is one of the text.
LEMMA PageIsOther ==
    /\ Characters(Page) \in Seq(Letter)
    /\ \A i \in DOMAIN Characters(Page) : Characters(Page)[i] \notin Range(Text)
<1>1. Page \in Seq(STRING) /\ Len(Page) \in 0 .. Len(Page)
  BY TextsAre
<1>2. Characters(Page) \in Seq(Range(Page) \ {LineEnd})
  BY <1>1, CharactersGrow DEF Characters
<1>3. (Range(Page) \ {LineEnd}) \subseteq Letter /\ (Range(Page) \ {LineEnd}) \cap Range(Text) = {}
  BY LcdAssumption DEF Letter
<1> HIDE DEF Letter
<1>4. \A i \in DOMAIN Characters(Page) : Characters(Page)[i] \in Range(Page) \ {LineEnd}
  BY <1>2
<1>5. Len(Characters(Page)) \in Nat /\ Characters(Page) = [i \in 1 .. Len(Characters(Page)) |-> Characters(Page)[i]]
  BY <1>2
<1> DEFINE c == Characters(Page)
<1>6. c \in Seq(Letter)
  <2>1. Len(c) \in Nat /\ c = [i \in 1 .. Len(c) |-> c[i]] /\ \A i \in 1 .. Len(c) : c[i] \in Letter
    BY <1>2, <1>3, <1>4, <1>5
  <2> HIDE DEF c
  <2> QED BY <2>1
<1> QED BY <1>3, <1>4, <1>6

\* What is written to show the text.
LEMMA FullIs ==
    /\ Full \in Seq(Op)
    /\ Len(Full) = 1 + Len(Text) + Shifts(Text)
    /\ Full[1] = Inst("clear")
    /\ \A k \in 1 .. Len(Text) : Full[k + 1] = IF Text[k] = LineEnd THEN Inst("line2") ELSE Char(Text[k])
    /\ \A k \in Len(Text) + 2 .. Len(Full) : Full[k] = Inst("shift")
<1> DEFINE a == [i \in DOMAIN Text |-> IF Text[i] = LineEnd THEN Inst("line2") ELSE Char(Text[i])]
           b == [i \in 1 .. Shifts(Text) |-> Inst("shift")]
           c == <<Inst("clear")>>
<1>1. /\ Inst("clear") \in Op /\ Inst("line2") \in Op /\ Inst("shift") \in Op
      /\ \A v \in Range(Text) : Char(v) \in Op
  BY DEF Inst, Char, Op, Datum
<1>2. Text \in Seq(STRING) /\ Len(Text) \in Nat /\ Shifts(Text) \in Nat
  BY TextsAre
<1>3. /\ a \in Seq(Op) /\ Len(a) = Len(Text)
      /\ \A i \in 1 .. Len(Text) : a[i] = IF Text[i] = LineEnd THEN Inst("line2") ELSE Char(Text[i])
  <2>1. \A i \in 1 .. Len(Text) : Text[i] \in Range(Text)
    BY <1>2 DEF Range
  <2>2. DOMAIN Text = 1 .. Len(Text)
    BY <1>2
  <2> HIDE DEF Op
  <2> QED BY <1>1, <1>2, <2>1, <2>2
<1>4. b \in Seq(Op) /\ Len(b) = Shifts(Text) /\ \A i \in 1 .. Shifts(Text) : b[i] = Inst("shift")
  <2> HIDE DEF Op
  <2> QED BY <1>1, <1>2
<1>5. c \in Seq(Op) /\ Len(c) = 1 /\ c[1] = Inst("clear")
  <2> HIDE DEF Op
  <2> QED BY <1>1
<1>6. Full = c \o (a \o b)
  BY DEF Full, lcdClearScreen, lcdPrintString
<1> HIDE DEF a, b, c, Op
<1>7. /\ a \o b \in Seq(Op) /\ Len(a \o b) = Len(Text) + Shifts(Text)
      /\ \A i \in 1 .. Len(Text) + Shifts(Text) : (a \o b)[i] = IF i <= Len(Text) THEN a[i] ELSE b[i - Len(Text)]
  <2>1. /\ a \o b \in Seq(Op) /\ Len(a \o b) = Len(a) + Len(b)
        /\ \A i \in 1 .. Len(a) + Len(b) : (a \o b)[i] = IF i <= Len(a) THEN a[i] ELSE b[i - Len(a)]
    <3>1. a \in Seq(Op) /\ b \in Seq(Op)
      BY <1>3, <1>4
    <3> QED BY <3>1, ConcatProperties
  <2>2. Len(a) = Len(Text) /\ Len(b) = Shifts(Text)
    BY <1>3, <1>4
  <2> QED BY <2>1, <2>2
<1>8. /\ Full \in Seq(Op) /\ Len(Full) = 1 + (Len(Text) + Shifts(Text))
      /\ \A i \in 1 .. 1 + (Len(Text) + Shifts(Text)) : Full[i] = IF i <= 1 THEN c[i] ELSE (a \o b)[i - 1]
  <2> DEFINE ab == a \o b
  <2>0. Full = c \o ab
    BY <1>6
  <2>1. c \in Seq(Op) /\ ab \in Seq(Op)
    BY <1>5, <1>7
  <2>2. Len(c) = 1 /\ Len(ab) = Len(Text) + Shifts(Text)
    BY <1>5, <1>7
  <2> HIDE DEF ab
  <2>3. /\ c \o ab \in Seq(Op) /\ Len(c \o ab) = Len(c) + Len(ab)
        /\ \A i \in 1 .. Len(c) + Len(ab) : (c \o ab)[i] = IF i <= Len(c) THEN c[i] ELSE ab[i - Len(c)]
    BY <2>1, ConcatProperties
  <2>4. /\ Full \in Seq(Op) /\ Len(Full) = 1 + (Len(Text) + Shifts(Text))
        /\ \A i \in 1 .. 1 + (Len(Text) + Shifts(Text)) : Full[i] = IF i <= 1 THEN c[i] ELSE ab[i - 1]
    BY <2>0, <2>2, <2>3
  <2> QED BY <2>4 DEF ab
<1>9. Full[1] = Inst("clear")
  BY <1>2, <1>5, <1>8
<1>10. ASSUME NEW k \in 1 .. Len(Text)
       PROVE  Full[k + 1] = IF Text[k] = LineEnd THEN Inst("line2") ELSE Char(Text[k])
  <2>0. k + 1 \in 1 .. 1 + (Len(Text) + Shifts(Text)) /\ ~(k + 1 <= 1) /\ (k + 1) - 1 = k
    BY <1>2
  <2>1. Full[k + 1] = (a \o b)[(k + 1) - 1]
    BY <1>8, <2>0
  <2>2. (a \o b)[k] = a[k]
    BY <1>2, <1>7
  <2> QED BY <1>3, <2>0, <2>1, <2>2
<1>11. ASSUME NEW k \in Len(Text) + 2 .. Len(Full) PROVE Full[k] = Inst("shift")
  <2>0. /\ k \in 1 .. 1 + (Len(Text) + Shifts(Text)) /\ ~(k <= 1)
        /\ k - 1 \in 1 .. Len(Text) + Shifts(Text) /\ ~(k - 1 <= Len(Text))
    BY <1>2, <1>8
  <2>1. Full[k] = (a \o b)[k - 1]
    BY <1>8, <2>0
  <2>2. (a \o b)[k - 1] = b[k - 1 - Len(Text)]
    BY <1>7, <2>0
  <2>3. k - 1 - Len(Text) \in 1 .. Shifts(Text)
    BY <1>2, <1>8
  <2> QED BY <1>4, <2>1, <2>2, <2>3
<1>12. Len(Full) = 1 + Len(Text) + Shifts(Text)
  BY <1>2, <1>8
<1> QED BY <1>8, <1>9, <1>10, <1>11, <1>12

LEMMA SetUpIs ==
    /\ lcdInit \in Seq(Op) /\ Len(lcdInit) = 4
    /\ lcdInit[1] = Inst("twoLines") /\ lcdInit[2] = Inst("on")
    /\ lcdInit[3] = Inst("clear") /\ lcdInit[4] = Inst("increment")
<1>1. \A v \in {"twoLines", "on", "clear", "increment"} : Inst(v) \in Op
  BY DEF Inst, Op, Datum
<1> HIDE DEF Op
<1> QED BY <1>1 DEF lcdInit

\* The rest of the set-up is not the rest of a text.
LEMMA OneOrTheOther ==
    ASSUME NEW o \in Seq(Op), o # <<>>
    PROVE  ~(Ends(lcdInit, o) /\ Ends(Full, o))
<1> SUFFICES ASSUME Ends(lcdInit, o), Ends(Full, o) PROVE FALSE
  OBVIOUS
<1>1. Len(o) \in Nat \ {0}
  OBVIOUS
<1>2. o[Len(o)] = lcdInit[4] /\ o[Len(o)] = Full[Len(Full)]
  <2>1. Len(o) \in 1 .. Len(o) /\ Len(Full) \in Nat
    BY <1>1, FullIs
  <2>2. 4 - Len(o) + Len(o) = 4 /\ Len(Full) - Len(o) + Len(o) = Len(Full)
    BY <1>1, <2>1
  <2>3. /\ o[Len(o)] = lcdInit[Len(lcdInit) - Len(o) + Len(o)]
        /\ o[Len(o)] = Full[Len(Full) - Len(o) + Len(o)]
    BY <2>1 DEF Ends
  <2>4. Len(lcdInit) = 4
    BY SetUpIs
  <2> QED BY <2>2, <2>3, <2>4
<1>3. Full[Len(Full)] \in {Inst("clear"), Inst("line2"), Inst("shift")} \cup {Char(v) : v \in Range(Text)}
  <2>1. CASE Len(Full) = 1
    BY <2>1, FullIs
  <2>2. CASE Len(Full) \in 2 .. Len(Text) + 1
    <3>1. Len(Full) - 1 \in 1 .. Len(Text) /\ Len(Full) = (Len(Full) - 1) + 1
      BY <2>2, TextsAre
    <3>2. Text[Len(Full) - 1] \in Range(Text)
      BY <3>1, TextsAre DEF Range
    <3> QED BY <3>1, <3>2, FullIs
  <2>3. CASE Len(Full) > Len(Text) + 1
    BY <2>3, FullIs, TextsAre
  <2> QED BY <2>1, <2>2, <2>3, FullIs, TextsAre
<1>4. Inst("increment") \notin {Inst("clear"), Inst("line2"), Inst("shift")} \cup {Char(v) : v \in Range(Text)}
  <2>1. Inst("increment").rs = 0 /\ Inst("increment").val = "increment" /\ \A v : Char(v).rs = 1
    BY DEF Inst, Char
  <2>2. Inst("clear").val = "clear" /\ Inst("line2").val = "line2" /\ Inst("shift").val = "shift"
    BY DEF Inst
  <2> QED BY <2>1, <2>2
<1> QED BY <1>2, <1>3, <1>4, SetUpIs

\* What the main loop writes next, of the text ...
LEMMA NextOfText ==
    ASSUME LcdTypeOK, ops # <<>>, Rest(Full)
    PROVE  /\ Done(Full) \in 0 .. Len(Full) - 1
           /\ Done(Full) = 0 => Head(ops).rs = 0 /\ Head(ops).val = "clear"
           /\ Done(Full) \in 1 .. Len(Text) =>
                IF Text[Done(Full)] = LineEnd THEN Head(ops).rs = 0 /\ Head(ops).val = "line2"
                                              ELSE Head(ops).rs = 1 /\ Head(ops).val = Text[Done(Full)]
           /\ Done(Full) > Len(Text) => Head(ops).rs = 0 /\ Head(ops).val = "shift"
<1> DEFINE d == Done(Full)
<1>1. Len(ops) \in Nat \ {0} /\ Head(ops) = ops[1]
  BY DEF LcdTypeOK
<1>2. Len(Full) \in Nat /\ Len(ops) <= Len(Full)
  BY FullIs DEF Rest, Ends
<1>3. d \in 0 .. Len(Full) - 1
  BY <1>1, <1>2 DEF Done
<1>4. Head(ops) = Full[d + 1]
  <2>1. 1 \in 1 .. Len(ops)
    BY <1>1
  <2> QED BY <1>1, <2>1 DEF Rest, Ends, Done
<1>5. \A v : Inst(v).rs = 0 /\ Inst(v).val = v /\ Char(v).rs = 1 /\ Char(v).val = v
  BY DEF Inst, Char
<1> HIDE DEF d
<1>6. d = 0 => Head(ops) = Inst("clear")
  BY <1>4, FullIs
<1>7. d \in 1 .. Len(Text) => Head(ops) = IF Text[d] = LineEnd THEN Inst("line2") ELSE Char(Text[d])
  BY <1>4, FullIs
<1>8. d > Len(Text) => Head(ops) = Inst("shift")
  <2>1. d > Len(Text) => d + 1 \in Len(Text) + 2 .. Len(Full)
    BY <1>2, <1>3, TextsAre
  <2> QED BY <1>4, <2>1, FullIs
<1> QED BY <1>3, <1>5, <1>6, <1>7, <1>8 DEF d

\* ... and of the set-up.
LEMMA NextOfSetUp ==
    ASSUME LcdTypeOK, ops # <<>>, Rest(lcdInit)
    PROVE  /\ Done(lcdInit) \in 0 .. 3
           /\ Head(ops).rs = 0
           /\ Head(ops).val = <<"twoLines", "on", "clear", "increment">>[Done(lcdInit) + 1]
<1> DEFINE d == Done(lcdInit)
<1>1. Len(ops) \in Nat \ {0} /\ Head(ops) = ops[1]
  BY DEF LcdTypeOK
<1>2. Len(lcdInit) = 4 /\ Len(ops) <= 4
  BY SetUpIs DEF Rest, Ends
<1>3. d \in 0 .. 3
  BY <1>1, <1>2 DEF Done
<1>4. Head(ops) = lcdInit[d + 1]
  <2>1. 1 \in 1 .. Len(ops)
    BY <1>1
  <2> QED BY <1>1, <2>1 DEF Rest, Ends, Done
<1>5. \A v : Inst(v).rs = 0 /\ Inst(v).val = v
  BY DEF Inst
<1> HIDE DEF d
<1>6. d = 0 \/ d = 1 \/ d = 2 \/ d = 3
  BY <1>3
<1>7. lcdInit[d + 1] = Inst(<<"twoLines", "on", "clear", "increment">>[d + 1])
  BY <1>6, SetUpIs
<1> QED BY <1>3, <1>4, <1>5, <1>7 DEF d

\* A character that is written is one of the text's.
LEMMA NextIsLetter ==
    ASSUME LcdTypeOK, Progress, ops # <<>>
    PROVE  /\ Head(ops) \in Op
           /\ Head(ops).rs = 1 => /\ Rest(Full) /\ Done(Full) \in 1 .. Len(Text)
                                  /\ Head(ops).val = Text[Done(Full)] /\ Text[Done(Full)] # LineEnd
                                  /\ Head(ops).val \in Letter
<1>1. Head(ops) \in Op
  BY DEF LcdTypeOK
<1>2. ASSUME Head(ops).rs = 1
      PROVE  /\ Rest(Full) /\ Done(Full) \in 1 .. Len(Text)
             /\ Head(ops).val = Text[Done(Full)] /\ Text[Done(Full)] # LineEnd
             /\ Head(ops).val \in Letter
  <2>1. Rest(Full)
    BY <1>2, NextOfSetUp DEF Progress
  <2>2. Done(Full) \in Int /\ Done(Full) >= 0 /\ Done(Full) # 0 /\ ~(Done(Full) > Len(Text))
    BY <1>2, <2>1, NextOfText
  <2>3. Done(Full) \in 1 .. Len(Text)
    BY <2>2, TextsAre
  <2>4. Head(ops).val = Text[Done(Full)] /\ Text[Done(Full)] # LineEnd
    BY <1>2, <2>1, <2>3, NextOfText
  <2>5. Done(Full) \in DOMAIN Text
    BY <2>3, TextsAre
  <2> QED BY <2>1, <2>3, <2>4, <2>5, TextsAre
<1> QED BY <1>1, <1>2

-----------------------------------------------------------------------------
\* The display took an instruction or a character.
Took(r, v) ==
    /\ lcd_busy' = TRUE
    /\ shown' = IF r = 1 THEN Append(shown, v) ELSE IF v = "clear" THEN <<>> ELSE shown
    /\ shift' = IF r = 0 /\ v = "clear" THEN 0 ELSE IF r = 0 /\ v = "shift" THEN shift + 1 ELSE shift
    /\ settings' = IF r = 0 /\ v \in Settings THEN settings \cup {v} ELSE settings

\* A write is taken as it was meant, or as an instruction nobody means, or not at all.
LEMMA WriteTakes ==
    ASSUME LcdTypeOK, PinsFollow, Waits, Write
    PROVE  /\ ops # <<>>
           /\ \/ pins.rw = 0 /\ Took(pins.rs, Head(ops).val)
              \/ pins.rw = 1 /\ UNCHANGED display
           /\ pins.rs = 0 \/ pins.rs = Head(ops).rs
           /\ preempted = FALSE => pins.rw = 0 /\ pins.rs = Head(ops).rs
<1>1. at = "low"
  BY DEF Write, Step
<1>2. ops # <<>> /\ lcd_busy = FALSE
  BY <1>1 DEF LcdTypeOK, Waits, Writing
<1>3. pins.rs \in {0, 1} /\ pins.rw \in {0, 1} /\ pins.e \in {0, 1}
  BY DEF LcdTypeOK
<1>4. /\ pins.rs = 0 \/ pins.rs = Head(ops).rs
      /\ preempted = FALSE => pins.rw = 0 /\ pins.rs = Head(ops).rs
  BY <1>1 DEF PinsFollow, Late
<1>5. CASE pins.rw = 1
  <2>1. UNCHANGED display
    BY <1>5 DEF Write, Clocked
  <2> QED BY <1>2, <1>4, <1>5, <2>1
<1>6. CASE pins.rw = 0
  <2>1. pins.e = 1 /\ pins.out = TRUE /\ pins.data = Head(ops).val
    BY <1>1, <1>6 DEF PinsFollow
  <2>2. Takes([rs |-> pins.rs, val |-> Head(ops).val])
    BY <1>6, <2>1 DEF Write, Clocked
  <2>3. ASSUME NEW r \in {0, 1}, NEW v, Takes([rs |-> r, val |-> v]) PROVE Took(r, v)
    <3>1. /\ [rs |-> r, val |-> v].rs = r /\ [rs |-> r, val |-> v].val = v
          /\ \A w : [rs |-> r, val |-> v] = Inst(w) <=> r = 0 /\ v = w
      BY DEF Inst
    <3> QED BY <1>2, <2>3, <3>1 DEF Takes, Took
  <2>4. Took(pins.rs, Head(ops).val)
    BY <1>3, <2>2, <2>3
  <2> QED BY <1>2, <1>4, <1>6, <2>4
<1> QED BY <1>3, <1>5, <1>6

\* E falls at the end of a poll with RW high.
LEMMA PollTakesNothing ==
    ASSUME PinsFollow, PollLow
    PROVE  UNCHANGED display
BY DEF PinsFollow, PollLow, Clocked

-----------------------------------------------------------------------------
(* Pins and flags, action by action.                                         *)

Wired == LcdTypeOK /\ PinsFollow /\ Waits

LEMMA WiredInit == LcdInit => Wired
<1> SUFFICES ASSUME LcdInit PROVE Wired
  OBVIOUS
<1>1. lcdInit # <<>> /\ lcdInit \in Seq(Op)
  BY SetUpIs
<1>2. LcdTypeOK
  <2>1. pins \in [rs : {0, 1}, rw : {0, 1}, e : {0, 1}, out : BOOLEAN, data : Datum]
    <3>1. Noise \in Datum
      BY DEF Datum
    <3> HIDE DEF Datum
    <3> QED BY <3>1 DEF LcdInit
  <2>2. shown \in Seq(Letter) /\ settings \subseteq Settings
    BY DEF LcdInit
  <2> QED BY <1>1, <2>1, <2>2 DEF LcdInit, LcdTypeOK, Writing
<1>3. PinsFollow /\ Waits
  BY DEF LcdInit, PinsFollow, Waits, Late
<1> QED BY <1>2, <1>3 DEF Wired

LEMMA WiredPrintText ==
    ASSUME Wired, PrintText
    PROVE  Wired'
<1>1. Full \in Seq(Op) /\ Full # <<>>
  BY FullIs, TextsAre
<1>2. ops' = Full
  BY DEF PrintText, Full
<1>3. LcdTypeOK'
  BY <1>1, <1>2 DEF Wired, PrintText, display, LcdTypeOK, Writing
<1>4. PinsFollow' /\ Waits'
  BY DEF Wired, PrintText, display, PinsFollow, Waits, Late, Writing
<1> QED BY <1>3, <1>4 DEF Wired

LEMMA WiredSetPins ==
    ASSUME Wired, SetPins
    PROVE  Wired'
<1>1. /\ at \in {"rs", "rw", "out", "data", "high"} /\ ops # <<>> /\ Head(ops) \in Op
      /\ Head(ops).rs \in {0, 1} /\ Head(ops).val \in Datum
  <2>1. at \in {"rs", "rw", "out", "data", "high"}
    BY DEF SetPins, Step
  <2>2. ops # <<>> /\ Head(ops) \in Op
    BY <2>1 DEF Wired, LcdTypeOK
  <2> QED BY <2>1, <2>2 DEF Op
<1>2. LcdTypeOK'
  BY <1>1 DEF Wired, SetPins, Step, display, LcdTypeOK, Writing, Polling
<1>3. PinsFollow'
  BY <1>1 DEF Wired, SetPins, Step, PinsFollow, LcdTypeOK, Late
<1>4. Waits'
  BY DEF Wired, SetPins, Step, display, Waits, Writing
<1> QED BY <1>2, <1>3, <1>4 DEF Wired

LEMMA WiredPollPins ==
    ASSUME Wired, PollPins
    PROVE  Wired'
<1>1. LcdTypeOK'
  BY DEF Wired, PollPins, Step, display, LcdTypeOK, Writing, Polling
<1>2. PinsFollow'
  BY DEF Wired, PollPins, Step, PinsFollow, LcdTypeOK, Late
<1>3. Waits'
  BY DEF Wired, PollPins, Step, display, LcdTypeOK, Waits, Writing
<1> QED BY <1>1, <1>2, <1>3 DEF Wired

LEMMA WiredPollRead ==
    ASSUME Wired, PollRead
    PROVE  Wired'
<1>0. at = "pollRead" /\ at' = "pollLow" /\ pins' = pins
  BY DEF PollRead, Step
<1>1. LcdTypeOK'
  BY <1>0 DEF Wired, PollRead, display, LcdTypeOK, Writing, Polling
<1>2. PinsFollow'
  BY <1>0 DEF Wired, PollRead, PinsFollow, Late
<1>3. Waits'
  <2>1. pins.rw = 1 /\ pins.out = FALSE
    BY <1>0 DEF Wired, PinsFollow
  <2>2. lcd_busy = TRUE => busy' = lcd_busy
    BY <1>0, <2>1 DEF Wired, Waits, PollRead
  <2>3. lcd_busy' = lcd_busy /\ lcd_busy \in BOOLEAN
    BY DEF PollRead, display, Wired, LcdTypeOK
  <2> QED BY <1>0, <2>2, <2>3 DEF Waits, Writing
<1> QED BY <1>1, <1>2, <1>3 DEF Wired

LEMMA WiredPollLow ==
    ASSUME Wired, PollLow
    PROVE  Wired'
<1>0. UNCHANGED display /\ at = "pollLow" /\ ops # <<>>
  BY PollTakesNothing DEF Wired, PollLow, LcdTypeOK
<1>1. ops' \in Seq(Op)
  <2>1. ops' = ops \/ ops' = Tail(ops)
    BY DEF PollLow
  <2>2. ops \in Seq(Op)
    BY DEF Wired, LcdTypeOK
  <2> QED BY <1>0, <2>1, <2>2
<1>2. LcdTypeOK'
  BY <1>0, <1>1 DEF Wired, PollLow, display, LcdTypeOK, Writing, Polling
<1>3. PinsFollow'
  BY <1>0 DEF Wired, PollLow, PinsFollow, Late
<1>4. Waits'
  BY <1>0 DEF Wired, PollLow, display, LcdTypeOK, Waits, Writing
<1> QED BY <1>2, <1>3, <1>4 DEF Wired

LEMMA WiredWrite ==
    ASSUME Wired, Progress, Write
    PROVE  Wired'
<1>0. at = "low" /\ at' = "pollRs" /\ pins' = [pins EXCEPT !.e = 0] /\ UNCHANGED <<ops, busy, pages, preempted>>
  BY DEF Write, Step
<1>1. /\ ops # <<>>
      /\ pins.rs = 0 \/ pins.rs = Head(ops).rs
      /\ Took(pins.rs, Head(ops).val) \/ UNCHANGED display
  BY WriteTakes DEF Wired
<1>2. pins.rs = 1 => Head(ops).val \in Letter
  BY <1>1, NextIsLetter DEF Wired
<1>3. /\ lcd_busy' \in BOOLEAN /\ shown' \in Seq(Letter) /\ shift' \in Nat /\ settings' \subseteq Settings
  <2>1. lcd_busy \in BOOLEAN /\ shown \in Seq(Letter) /\ shift \in Nat /\ settings \subseteq Settings
    BY DEF Wired, LcdTypeOK
  <2>2. CASE UNCHANGED display
    BY <2>1, <2>2 DEF display
  <2>3. CASE Took(pins.rs, Head(ops).val)
    <3>1. shown' \in Seq(Letter)
      BY <1>2, <2>1, <2>3 DEF Took
    <3>2. shift' \in Nat /\ settings' \subseteq Settings /\ lcd_busy' \in BOOLEAN
      BY <2>1, <2>3 DEF Took
    <3> QED BY <3>1, <3>2
  <2> QED BY <1>1, <2>2, <2>3
<1>4. LcdTypeOK'
  BY <1>0, <1>1, <1>3 DEF Wired, LcdTypeOK, Writing, Polling
<1>5. PinsFollow' /\ Waits'
  BY <1>0 DEF PinsFollow, Waits, Late, Writing
<1> QED BY <1>4, <1>5 DEF Wired

LEMMA WiredReady ==
    ASSUME Wired, Ready
    PROVE  Wired'
<1>1. LcdTypeOK'
  BY DEF Wired, Ready, printer, LcdTypeOK, Writing, Polling
<1>2. PinsFollow' /\ Waits'
  BY DEF Wired, Ready, printer, PinsFollow, Waits, Late, Writing
<1> QED BY <1>1, <1>2 DEF Wired

\* What is on the display after a page.
LEMMA PageShows ==
    ASSUME Wired, PrintPage
    PROVE  /\ lcd_busy = FALSE => shown' = Characters(Page)
           /\ shown' \in Seq(Letter)
           /\ \A i \in DOMAIN shown' : shown'[i] \in Range(Text) =>
                lcd_busy = TRUE /\ i \in DOMAIN shown /\ shown'[i] = shown[i]
<1> DEFINE old == IF lcd_busy THEN shown ELSE <<>>
           new == Characters(Page)
<1>1. old \in Seq(Letter) /\ new \in Seq(Letter) /\ shown' = old \o new
  BY PageIsOther DEF Wired, LcdTypeOK, PrintPage
<1>2. lcd_busy = FALSE => old = <<>>
  OBVIOUS
<1>3. lcd_busy # FALSE => old = shown /\ lcd_busy = TRUE
  BY DEF Wired, LcdTypeOK
<1>4. \A i \in DOMAIN new : new[i] \notin Range(Text)
  BY PageIsOther
<1>5. new = Characters(Page)
  OBVIOUS
<1> HIDE DEF old, new
<1>6. lcd_busy = FALSE => shown' = new
  BY <1>1, <1>2
<1>7. /\ old \o new \in Seq(Letter) /\ Len(old \o new) = Len(old) + Len(new)
      /\ \A i \in 1 .. Len(old) + Len(new) : (old \o new)[i] = IF i <= Len(old) THEN old[i] ELSE new[i - Len(old)]
  BY <1>1, ConcatProperties
<1>8. ASSUME NEW i \in DOMAIN shown', shown'[i] \in Range(Text)
      PROVE  lcd_busy = TRUE /\ i \in DOMAIN shown /\ shown'[i] = shown[i]
  <2>1. i \in 1 .. Len(old) + Len(new) /\ Len(old) \in Nat /\ Len(new) \in Nat
    BY <1>1, <1>7
  <2>2. CASE i <= Len(old)
    <3>1. shown'[i] = old[i] /\ i \in 1 .. Len(old)
      BY <1>1, <1>7, <2>1, <2>2
    <3>2. lcd_busy # FALSE
      <4>1. Len(old) # 0
        BY <2>1, <3>1
      <4>2. Len(<<>>) = 0
        OBVIOUS
      <4> QED BY <1>2, <4>1, <4>2
    <3> QED BY <1>1, <1>3, <3>1, <3>2
  <2>3. CASE ~(i <= Len(old))
    <3>1. shown'[i] = new[i - Len(old)] /\ i - Len(old) \in 1 .. Len(new)
      BY <1>1, <1>7, <2>1, <2>3
    <3> QED BY <1>1, <1>4, <1>8, <3>1
  <2> QED BY <2>2, <2>3
<1> QED BY <1>1, <1>5, <1>6, <1>7, <1>8

LEMMA WiredPrintPage ==
    ASSUME Wired, PrintPage
    PROVE  Wired'
<1>1. Last(Page) \in Datum
  <2>1. Last(Page) = Page[Len(Page)] /\ Len(Page) \in DOMAIN Page
    BY TextsAre DEF Last
  <2> QED BY <2>1 DEF Datum, Range
<1>2. pins' \in [rs : {0, 1}, rw : {0, 1}, e : {0, 1}, out : BOOLEAN, data : Datum]
  <2>1. (IF Shifts(Page) > 0 THEN "shift" ELSE Last(Page)) \in Datum
    BY <1>1 DEF Datum
  <2> HIDE DEF Datum
  <2> QED BY <2>1 DEF PrintPage
<1>3. shown' \in Seq(Letter)
  BY PageShows
<1>4. shift' \in Nat
  BY TextsAre DEF PrintPage, Wired, LcdTypeOK
<1>5. LcdTypeOK'
  <2>1. /\ settings' \subseteq Settings /\ ops' \in Seq(Op) /\ at' \in {"idle"} \cup Writing \cup Polling
        /\ at' = "idle" <=> ops' = <<>>
        /\ busy' \in BOOLEAN
    BY DEF Wired, LcdTypeOK, PrintPage, printer
  <2>2. pages' \in Nat /\ lcd_busy' \in BOOLEAN /\ preempted' \in BOOLEAN
    <3>1. pages' = pages + 1 /\ lcd_busy' = FALSE /\ preempted' = TRUE
      BY DEF PrintPage
    <3>2. pages' \in Nat
      BY <3>1 DEF Wired, LcdTypeOK
    <3> QED BY <3>1, <3>2
  <2> QED BY <1>2, <1>3, <1>4, <2>1, <2>2 DEF LcdTypeOK
<1>6. PinsFollow'
  <2>1. pins'.rs = 0 /\ pins'.rw = 1 /\ pins'.out = FALSE /\ preempted' = TRUE
    BY DEF PrintPage
  <2> QED BY <2>1 DEF PinsFollow
<1>7. Waits'
  BY DEF PrintPage, Waits
<1> QED BY <1>5, <1>6, <1>7 DEF Wired

LEMMA WiredNext ==
    ASSUME Wired, Progress, [LcdNext]_lcdVars
    PROVE  Wired'
<1>1. CASE UNCHANGED lcdVars
  BY <1>1 DEF lcdVars, display, printer, Wired, LcdTypeOK, PinsFollow, Waits
<1> QED BY <1>1, WiredPrintText, WiredSetPins, WiredWrite, WiredPollPins, WiredPollRead, WiredPollLow,
           WiredReady, WiredPrintPage DEF LcdNext, lcdMain

-----------------------------------------------------------------------------
(* What is shown, action by action.                                          *)

Placed == Progress /\ MainInOrder

\* The characters of the text that are shown.
LEMMA PlacesApart ==
    ASSUME NEW k \in DOMAIN Text, NEW l \in DOMAIN Text, Text[k] = Text[l]
    PROVE  k = l
BY LcdAssumption

LEMMA PlacedInit == LcdInit => Placed
<1> SUFFICES ASSUME LcdInit PROVE Placed
  OBVIOUS
<1>1. ops = lcdInit /\ ops # <<>> /\ shown = <<>> /\ at = "rs" /\ preempted = FALSE /\ settings = {}
  <2>1. Len(lcdInit) = 4
    BY SetUpIs
  <2> QED BY <2>1 DEF LcdInit
<1>2. MainInOrder
  BY <1>1 DEF MainInOrder
<1>3. LcdTypeOK
  BY WiredInit DEF Wired
<1>4. Done(lcdInit) = 0
  BY <1>1, SetUpIs DEF Done
<1>5. Rest(lcdInit)
  BY <1>1, SetUpIs DEF Rest, Ends
<1>6. ~Rest(Full)
  BY <1>1, <1>3, <1>5, OneOrTheOther DEF LcdTypeOK, Rest
<1>7. Starting
  BY <1>1, <1>4 DEF Starting, Polling
<1> QED BY <1>1, <1>2, <1>5, <1>6, <1>7 DEF Placed, Progress

\* A step that neither writes nor goes on to what is next.
LEMMA PlacedQuiet ==
    ASSUME Wired, Placed,
           UNCHANGED <<ops, shown, shift, settings, preempted>>,
           at \in Writing <=> at' \in Writing, at \in Polling <=> at' \in Polling,
           at' \in Late /\ pins'.rw = 1 => at \in Late /\ pins.rw = 1
    PROVE  Placed'
<1>1. MainInOrder'
  BY DEF Placed, MainInOrder
<1>2. /\ Rest(lcdInit)' <=> Rest(lcdInit)
      /\ Rest(Full)' <=> Rest(Full)
      /\ Done(lcdInit)' = Done(lcdInit) /\ Done(Full)' = Done(Full)
      /\ \A n : Shows(n)' <=> Shows(n)
  BY DEF Rest, Ends, Done, Shows, Full, lcdInit, lcdClearScreen
<1>3. Starting => Starting'
  BY <1>2 DEF Starting
<1>4. Printing => Printing'
  BY <1>2 DEF Printing
<1>5. Full' = Full
  BY DEF Full, lcdClearScreen
<1> QED BY <1>1, <1>2, <1>3, <1>4, <1>5 DEF Placed, Progress

LEMMA PlacedSetPins ==
    ASSUME Wired, Placed, SetPins
    PROVE  Placed'
<1>1. UNCHANGED <<ops, shown, shift, settings, preempted>>
  BY DEF SetPins, display
<1>2. at \in Writing /\ at' \in Writing /\ at \notin Polling /\ at' \notin Polling
  BY DEF SetPins, Step, Writing, Polling
<1>3. at' \in Late /\ pins'.rw = 1 => at \in Late /\ pins.rw = 1
  BY DEF SetPins, Step, Late, Wired, LcdTypeOK
<1> QED BY <1>1, <1>2, <1>3, PlacedQuiet

LEMMA PlacedPoll ==
    ASSUME Wired, Placed, PollPins \/ PollRead
    PROVE  Placed'
<1>1. UNCHANGED <<ops, shown, shift, settings, preempted>>
  BY DEF PollPins, PollRead, display
<1>2. at \notin Writing /\ at' \notin Writing /\ at \in Polling /\ at' \in Polling /\ at' \notin Late
  BY DEF PollPins, PollRead, Step, Writing, Polling, Late
<1> QED BY <1>1, <1>2, PlacedQuiet

LEMMA PlacedReady ==
    ASSUME Wired, Placed, Ready
    PROVE  Placed'
BY PlacedQuiet DEF Ready, printer

LEMMA PlacedPrintText ==
    ASSUME Wired, Placed, PrintText
    PROVE  Placed'
<1>1. ops = <<>> /\ settings = Settings
  BY DEF Wired, LcdTypeOK, PrintText, Placed, Progress
<1>2. ops' = Full /\ at' = "rs" /\ shown' = shown /\ settings' = Settings /\ preempted' = FALSE
  BY <1>1 DEF PrintText, display, Full
<1>3. MainInOrder'
  BY <1>2 DEF Placed, MainInOrder
<1>4. Full' = Full
  BY DEF Full, lcdClearScreen
<1>5. Len(Full) \in Nat \ {0} /\ Full # <<>>
  BY FullIs, TextsAre
<1>6. Rest(Full)' /\ Done(Full)' = 0
  BY <1>2, <1>4, <1>5 DEF Rest, Ends, Done
<1>7. LcdTypeOK'
  BY WiredPrintText DEF Wired
<1>8. ~Rest(lcdInit)'
  <2>1. ops' # <<>>
    BY <1>2, <1>5
  <2>2. lcdInit' = lcdInit
    BY DEF lcdInit
  <2>3. ops' \in Seq(Op)
    BY <1>7 DEF LcdTypeOK
  <2> QED BY <1>4, <1>6, <2>1, <2>2, <2>3, OneOrTheOther DEF Rest, Ends
<1>9. Printing'
  BY <1>2, <1>4, <1>6 DEF Printing, Polling, Late
<1> QED BY <1>2, <1>3, <1>4, <1>5, <1>6, <1>8, <1>9 DEF Placed, Progress

LEMMA PlacedPrintPage ==
    ASSUME Wired, Placed, PrintPage
    PROVE  Placed'
<1>1. UNCHANGED <<ops, at, settings>> /\ preempted' = TRUE /\ Settings \subseteq settings
  BY DEF PrintPage, printer
<1>2. \A i \in DOMAIN shown' : shown'[i] \in Range(Text) =>
         lcd_busy = TRUE /\ i \in DOMAIN shown /\ shown'[i] = shown[i]
  BY PageShows
<1>3. \A k \in DOMAIN Text : Text[k] \in Range(Text)
  BY DEF Range
<1>4. MainInOrder'
  BY <1>2, <1>3 DEF Placed, MainInOrder
<1>5. /\ Rest(lcdInit)' <=> Rest(lcdInit)
      /\ Rest(Full)' <=> Rest(Full)
      /\ Done(lcdInit)' = Done(lcdInit) /\ Done(Full)' = Done(Full)
  BY <1>1 DEF Rest, Ends, Done, Full, lcdInit, lcdClearScreen
<1>6. ASSUME Starting PROVE Starting'
  <2>1. "increment" \in settings
    BY <1>1 DEF Settings
  <2>2. ~(Done(lcdInit) < 3 \/ at \in Writing)
    BY <1>6, <2>1 DEF Starting
  <2>3. \A i \in DOMAIN shown' : shown'[i] \notin Range(Text)
    BY <1>2, <1>6 DEF Starting
  <2> QED BY <1>1, <1>5, <1>6, <2>2, <2>3 DEF Starting
<1>7. ASSUME Printing PROVE Printing'
  <2> SUFFICES ASSUME NEW i \in DOMAIN shown', NEW k \in DOMAIN Text, shown'[i] = Text[k]
               PROVE  k <= Done(Full) /\ at \notin Writing
    BY <1>1, <1>5 DEF Printing
  <2>1. lcd_busy = TRUE /\ i \in DOMAIN shown /\ shown[i] = Text[k]
    BY <1>2, <1>3
  <2>2. at \in Polling
    BY <2>1 DEF Wired, Waits, LcdTypeOK
  <2>3. at \notin Writing
    BY <2>2 DEF Polling, Writing
  <2> QED BY <1>7, <2>1, <2>2, <2>3 DEF Printing
<1> QED BY <1>1, <1>4, <1>5, <1>6, <1>7 DEF Placed, Progress

\* What is left after a write.
LEMMA TailOfRest ==
    ASSUME NEW all \in Seq(Op), NEW o \in Seq(Op), o # <<>>, Ends(all, o)
    PROVE  /\ Ends(all, Tail(o)) /\ Tail(o) \in Seq(Op)
           /\ Len(all) - Len(Tail(o)) = Len(all) - Len(o) + 1
           /\ Len(all) - Len(o) \in 0 .. Len(all) - 1 /\ Len(all) \in Nat
           /\ Tail(o) = <<>> <=> Len(all) - Len(o) = Len(all) - 1
<1>1. Len(o) \in Nat \ {0} /\ Len(all) \in Nat
  OBVIOUS
<1>2. Len(Tail(o)) = Len(o) - 1 /\ (\A i \in 1 .. Len(o) - 1 : Tail(o)[i] = o[i + 1]) /\ Tail(o) \in Seq(Op)
  OBVIOUS
<1>3. ASSUME NEW i \in 1 .. Len(o) - 1 PROVE Tail(o)[i] = all[Len(all) - (Len(o) - 1) + i]
  <2>1. i + 1 \in 1 .. Len(o) /\ Len(all) - Len(o) + (i + 1) = Len(all) - (Len(o) - 1) + i
    BY <1>1
  <2>2. o[i + 1] = all[Len(all) - Len(o) + (i + 1)]
    BY <2>1 DEF Ends
  <2> QED BY <1>2, <2>1, <2>2
<1>4. Len(o) <= Len(all)
  BY DEF Ends
<1>5. Tail(o) = <<>> <=> Len(Tail(o)) = 0
  <2> DEFINE left == Tail(o)
  <2>1. left \in Seq(Op)
    BY <1>2
  <2> HIDE DEF left
  <2>2. left = <<>> <=> Len(left) = 0
    BY <2>1, EmptySeq
  <2> QED BY <2>2 DEF left
<1>6. Ends(all, Tail(o))
  BY <1>1, <1>2, <1>3, <1>4 DEF Ends
<1>7. /\ Len(all) - (Len(o) - 1) = Len(all) - Len(o) + 1
      /\ Len(all) - Len(o) \in 0 .. Len(all) - 1
      /\ Len(o) - 1 = 0 <=> Len(all) - Len(o) = Len(all) - 1
  <2> DEFINE m == Len(o)
             n == Len(all)
  <2>1. m \in Nat \ {0} /\ n \in Nat /\ m <= n
    BY <1>1, <1>4
  <2> HIDE DEF m, n
  <2>2. n - (m - 1) = n - m + 1 /\ n - m \in 0 .. n - 1
    BY <2>1
  <2>3. m - 1 = 0 <=> n - m = n - 1
    BY <2>1
  <2> QED BY <2>2, <2>3 DEF m, n
<1> QED BY <1>1, <1>2, <1>5, <1>6, <1>7

LEMMA PlacedPollLow ==
    ASSUME Wired, Placed, PollLow
    PROVE  Placed'
<1>1. /\ UNCHANGED <<shown, shift, settings, preempted>> /\ at = "pollLow" /\ ops # <<>> /\ ops \in Seq(Op)
      /\ settings \subseteq Settings
  BY PollTakesNothing DEF Wired, PollLow, LcdTypeOK, display
<1>2. CASE busy
  <2>1. ops' = ops /\ at' = "pollRs"
    BY <1>2 DEF PollLow
  <2> QED BY <1>1, <2>1, PlacedQuiet DEF Writing, Polling, Late
<1>3. CASE ~busy
  <2>1. ops' = Tail(ops) /\ at' = IF ops' = <<>> THEN "idle" ELSE "rs"
    BY <1>3 DEF PollLow
  <2>2. lcdInit \in Seq(Op) /\ Full \in Seq(Op) /\ lcdInit' = lcdInit /\ Full' = Full
    BY SetUpIs, FullIs DEF lcdInit, Full, lcdClearScreen
  <2>3. ASSUME NEW all \in {lcdInit, Full}, Rest(all)
        PROVE  /\ Ends(all, ops') /\ ops' \in Seq(Op)
               /\ Len(all) - Len(ops') = Done(all) + 1
               /\ Done(all) \in 0 .. Len(all) - 1 /\ Len(all) \in Nat
               /\ ops' = <<>> <=> Done(all) = Len(all) - 1
    <3>1. all \in Seq(Op)
      BY <2>2
    <3> QED BY <1>1, <2>1, <2>3, <3>1, TailOfRest DEF Rest, Done
  <2>4. /\ Rest(lcdInit) => Rest(lcdInit)' /\ Done(lcdInit)' = Done(lcdInit) + 1 /\ ops' \in Seq(Op)
        /\ Rest(Full) => Rest(Full)' /\ Done(Full)' = Done(Full) + 1 /\ ops' \in Seq(Op)
    BY <2>2, <2>3 DEF Rest, Done
  <2>5. MainInOrder'
    BY <1>1 DEF Placed, MainInOrder
  <2>6. at \in Polling /\ at \notin Writing /\ at' \notin Polling /\ at' \notin Late
    BY <1>1, <2>1 DEF Polling, Writing, Late
  <2>8. CASE Rest(lcdInit)
    <3>1. Starting
      BY <1>1, <2>8 DEF Placed, Progress
    <3>2. Done(lcdInit) \in 0 .. 3 /\ (ops' = <<>> <=> Done(lcdInit) = 3)
      <4>1. /\ Done(lcdInit) \in 0 .. Len(lcdInit) - 1
            /\ ops' = <<>> <=> Done(lcdInit) = Len(lcdInit) - 1
        BY <2>3, <2>8
      <4> QED BY <4>1, SetUpIs
    <3>3. CASE ops' = <<>>
      <4>1. settings' = Settings
        <5>1. Done(lcdInit) = 3
          BY <3>2, <3>3
        <5>2. {"twoLines", "on", "increment"} \subseteq settings
          BY <2>6, <3>1, <5>1 DEF Starting
        <5> QED BY <1>1, <5>2 DEF Settings
      <4>2. preempted' = FALSE => shown' = <<>>
        BY <1>1, <3>1 DEF Starting
      <4> QED BY <2>5, <3>3, <4>1, <4>2 DEF Placed, Progress
    <3>4. CASE ops' # <<>>
      <4>1. ~Rest(Full)'
        BY <2>2, <2>4, <2>8, <3>4, OneOrTheOther DEF Rest, Ends
      <4>2. Starting'
        BY <1>1, <2>4, <2>6, <2>8, <3>1, <3>2, <3>4 DEF Starting
      <4> QED BY <2>4, <2>5, <2>8, <3>4, <4>1, <4>2 DEF Placed, Progress
    <3> QED BY <3>3, <3>4
  <2>9. CASE Rest(Full)
    <3>1. Printing /\ settings' = Settings
      BY <1>1, <2>9 DEF Placed, Progress
    <3>2. /\ Done(Full) \in 0 .. Len(Full) - 1 /\ Len(Full) \in Nat
          /\ ops' = <<>> <=> Done(Full) = Len(Full) - 1
      BY <2>3, <2>9
    <3>3. \A n : Shows(n)' <=> Shows(n)
      BY <1>1 DEF Shows
    <3>4. preempted = FALSE => Shows(Done(Full))
      BY <2>6, <3>1 DEF Printing
    <3>5. CASE ops' = <<>>
      <4>1. preempted' = FALSE => Shows(Len(Full) - 1)'
        BY <1>1, <3>2, <3>3, <3>4, <3>5
      <4> QED BY <2>5, <3>1, <3>5, <4>1 DEF Placed, Progress
    <3>6. CASE ops' # <<>>
      <4>1. ~Rest(lcdInit)'
        BY <2>2, <2>4, <2>9, <3>6, OneOrTheOther DEF Rest, Ends
      <4>2. \A i \in DOMAIN shown', k \in DOMAIN Text : shown'[i] = Text[k] => k <= Done(Full)
        BY <1>1, <2>6, <3>1 DEF Printing
      <4>3. \A k \in DOMAIN Text : k <= Done(Full) => k <= Done(Full)' /\ k < Done(Full)'
        BY <2>4, <2>9, <3>2, TextsAre
      <4>4. preempted' = FALSE => Shows(Done(Full) - 1)'
        <5>1. Done(Full)' - 1 = Done(Full)
          BY <2>4, <2>9, <3>2
        <5> QED BY <1>1, <3>3, <3>4, <5>1
      <4>5. Printing'
        BY <2>6, <4>2, <4>3, <4>4 DEF Printing
      <4> QED BY <2>4, <2>5, <2>9, <3>1, <3>6, <4>1, <4>5 DEF Placed, Progress
    <3> QED BY <3>5, <3>6
  <2> QED BY <1>1, <2>8, <2>9 DEF Placed, Progress
<1> QED BY <1>2, <1>3

\* The set-up is written before there is a page to cut in.
LEMMA PlacedWriteSetUp ==
    ASSUME Wired, Placed, Write, Rest(lcdInit)
    PROVE  Placed'
<1>1. at = "low" /\ at' = "pollRs" /\ ops' = ops /\ preempted' = preempted
  BY DEF Write, Step
<1>2. at \in Writing /\ at' \in Polling /\ at' \notin Writing
  BY <1>1 DEF Writing, Polling
<1>3. ops # <<>> /\ Starting
  BY <1>1 DEF Wired, LcdTypeOK, Writing, Placed, Progress
<1>4. preempted = FALSE /\ shown = <<>> /\ "increment" \notin settings
  BY <1>2, <1>3 DEF Starting
<1> DEFINE d == Done(lcdInit)
           v == Head(ops).val
<1>5. d \in 0 .. 3 /\ Head(ops).rs = 0 /\ v = <<"twoLines", "on", "clear", "increment">>[d + 1]
  BY <1>3, NextOfSetUp DEF Wired
<1>6. Took(0, v)
  <2>1. LcdTypeOK /\ PinsFollow /\ Waits
    BY DEF Wired
  <2>2. pins.rw = 0 /\ pins.rs = Head(ops).rs /\ (Took(pins.rs, Head(ops).val) \/ pins.rw = 1)
    BY <1>4, <2>1, WriteTakes
  <2>3. pins.rs = 0 /\ pins.rw # 1
    BY <1>5, <2>2
  <2> QED BY <2>2, <2>3
<1> HIDE DEF d, v
<1>7. /\ d = 0 => v = "twoLines"
      /\ d = 1 => v = "on"
      /\ d = 2 => v = "clear"
      /\ d = 3 => v = "increment"
  BY <1>5
<1>8. shown' = <<>> /\ settings \subseteq settings' /\ (v \in Settings => v \in settings')
      /\ (v # "increment" => "increment" \notin settings')
  BY <1>4, <1>6 DEF Took
<1>9. Ends(lcdInit, ops)' /\ Done(lcdInit)' = d /\ Full' = Full /\ lcdInit' = lcdInit
  BY <1>1, <1>3 DEF Rest, Ends, Done, d, Full, lcdInit, lcdClearScreen
<1>10. ~Rest(Full)'
  BY <1>1, <1>3, <1>9, OneOrTheOther DEF Wired, LcdTypeOK, Rest, Ends
<1>11. /\ d > 0 => "twoLines" \in settings
       /\ d > 1 => "on" \in settings
  BY <1>3 DEF Starting, d
<1>12. Starting'
  <2>1. d < 3 => "increment" \notin settings'
    BY <1>5, <1>7, <1>8
  <2>2. "twoLines" \in settings'
    BY <1>5, <1>7, <1>8, <1>11 DEF Settings
  <2>3. d > 0 => "on" \in settings'
    BY <1>5, <1>7, <1>8, <1>11 DEF Settings
  <2>4. d = 3 => "increment" \in settings'
    BY <1>7, <1>8 DEF Settings
  <2>5. \A i \in DOMAIN shown' : shown'[i] \notin Range(Text)
    BY <1>8
  <2> QED BY <1>1, <1>2, <1>4, <1>5, <1>8, <1>9, <2>1, <2>2, <2>3, <2>4, <2>5 DEF Starting
<1>13. MainInOrder'
  BY <1>8 DEF MainInOrder
<1> QED BY <1>1, <1>3, <1>9, <1>10, <1>12, <1>13 DEF Placed, Progress, Rest

\* What is shown after a write: nothing, what was, or the character of the text that is next.
LEMMA PlacedWriteText ==
    ASSUME Wired, Placed, Write, Rest(Full)
    PROVE  Placed'
<1>1. at = "low" /\ at' = "pollRs" /\ ops' = ops /\ preempted' = preempted
  BY DEF Write, Step
<1>2. at \in Writing /\ at \in Late /\ at \notin Polling /\ at' \in Polling /\ at' \notin Writing
  BY <1>1 DEF Writing, Polling, Late
<1>3. ops # <<>> /\ Printing /\ settings = Settings
  BY <1>1 DEF Wired, LcdTypeOK, Writing, Placed, Progress
<1> DEFINE d == Done(Full)
           next == Head(ops)
<1>4. /\ d \in 0 .. Len(Full) - 1
      /\ d = 0 => next.rs = 0 /\ next.val = "clear"
      /\ d \in 1 .. Len(Text) => IF Text[d] = LineEnd THEN next.rs = 0 /\ next.val = "line2"
                                                     ELSE next.rs = 1 /\ next.val = Text[d]
      /\ d > Len(Text) => next.rs = 0 /\ next.val = "shift"
  BY <1>3, NextOfText DEF Wired
<1>5. next.rs = 1 => d \in 1 .. Len(Text) /\ next.val = Text[d] /\ Text[d] # LineEnd
  BY <1>3, NextIsLetter DEF Wired, Placed
<1>6. /\ \/ pins.rw = 0 /\ Took(pins.rs, next.val)
         \/ pins.rw = 1 /\ UNCHANGED display
      /\ pins.rs = 0 \/ pins.rs = next.rs
      /\ preempted = FALSE => pins.rw = 0 /\ pins.rs = next.rs
  BY WriteTakes DEF Wired
<1>7. Ends(Full, ops)' /\ Done(Full)' = d /\ Full' = Full /\ lcdInit' = lcdInit
  BY <1>1, <1>3 DEF Rest, Ends, Done, Full, lcdInit, lcdClearScreen
<1>8. Len(Text) \in Nat /\ DOMAIN Text = 1 .. Len(Text) /\ Len(Full) \in Nat /\ shown \in Seq(Letter)
  BY TextsAre, FullIs DEF Wired, LcdTypeOK
<1>9. (d > 0 \/ pins.rw = 1) => \A i \in DOMAIN shown, k \in DOMAIN Text : shown[i] = Text[k] => k < d
  BY <1>2, <1>3 DEF Printing
<1> HIDE DEF d, next
<1>10. settings' = Settings
  BY <1>3, <1>6 DEF Took, display
<1>11. \/ shown' = <<>>
       \/ shown' = shown /\ (d > 0 \/ pins.rw = 1)
       \/ shown' = Append(shown, Text[d]) /\ d \in 1 .. Len(Text)
  <2>1. CASE pins.rw = 1 /\ UNCHANGED display
    BY <2>1 DEF display
  <2>2. CASE Took(pins.rs, next.val) /\ pins.rs = 1
    BY <1>5, <1>6, <2>2 DEF Took
  <2>3. CASE Took(pins.rs, next.val) /\ pins.rs # 1
    <3>1. shown' = <<>> \/ (shown' = shown /\ next.val # "clear")
      BY <2>3 DEF Took
    <3> QED BY <1>4, <3>1
  <2> QED BY <1>6, <2>1, <2>2, <2>3
<1>12. /\ \A i \in DOMAIN shown', k \in DOMAIN Text : shown'[i] = Text[k] => k <= d
       /\ MainInOrder'
  <2>1. CASE shown' = <<>>
    BY <2>1 DEF MainInOrder
  <2>2. CASE shown' = shown /\ (d > 0 \/ pins.rw = 1)
    BY <1>4, <1>8, <1>9, <2>2 DEF Placed, MainInOrder
  <2>3. CASE shown' = Append(shown, Text[d]) /\ d \in 1 .. Len(Text)
    <3>1. /\ DOMAIN shown' = 1 .. Len(shown) + 1 /\ DOMAIN shown = 1 .. Len(shown) /\ Len(shown) \in Nat
          /\ shown'[Len(shown) + 1] = Text[d]
          /\ \A i \in 1 .. Len(shown) : shown'[i] = shown[i]
      BY <1>8, <2>3
    <3>2. \A k \in DOMAIN Text : shown'[Len(shown) + 1] = Text[k] => k = d
      BY <1>8, <2>3, <3>1, PlacesApart
    <3>3. \A i \in 1 .. Len(shown), k \in DOMAIN Text : shown'[i] = Text[k] => k < d
      BY <1>9, <2>3, <3>1
    <3>4. MainInOrder'
      <4> SUFFICES ASSUME NEW i \in DOMAIN shown', NEW j \in DOMAIN shown',
                          NEW k \in DOMAIN Text, NEW l \in DOMAIN Text,
                          i < j, shown'[i] = Text[k], shown'[j] = Text[l]
                   PROVE  k < l
        BY DEF MainInOrder
      <4>1. i \in 1 .. Len(shown)
        BY <3>1
      <4>2. CASE j = Len(shown) + 1
        BY <3>2, <3>3, <4>1, <4>2
      <4>3. CASE j # Len(shown) + 1
        <5>1. j \in 1 .. Len(shown)
          BY <3>1, <4>3
        <5> QED BY <3>1, <4>1, <5>1 DEF Placed, MainInOrder
      <4> QED BY <4>2, <4>3
    <3>5. \A i \in DOMAIN shown', k \in DOMAIN Text : shown'[i] = Text[k] => k <= d
      <4> SUFFICES ASSUME NEW i \in DOMAIN shown', NEW k \in DOMAIN Text, shown'[i] = Text[k] PROVE k <= d
        OBVIOUS
      <4>1. CASE i = Len(shown) + 1
        BY <1>8, <3>2, <4>1
      <4>2. CASE i # Len(shown) + 1
        <5>1. i \in 1 .. Len(shown)
          BY <3>1, <4>2
        <5> QED BY <1>8, <2>3, <3>3, <5>1
      <4> QED BY <4>1, <4>2
    <3> QED BY <3>4, <3>5
  <2> QED BY <1>11, <2>1, <2>2, <2>3
<1>14. ASSUME preempted = FALSE
       PROVE  /\ shown' = CharactersTo(Text, IF d <= Len(Text) THEN d ELSE Len(Text))
              /\ shift' = IF d <= Len(Text) THEN 0 ELSE d - Len(Text)
  <2>1. Took(next.rs, next.val)
    BY <1>6, <1>14
  <2>2. d > 0 => Shows(d - 1)
    BY <1>2, <1>3, <1>14 DEF Printing, d
  <2>3. d \in Nat /\ Text \in Seq(STRING)
    BY <1>4, <1>8, TextsAre
  <2>4. CASE d = 0
    <3>1. shown' = <<>> /\ shift' = 0
      BY <1>4, <2>1, <2>4 DEF Took
    <3>2. CharactersTo(Text, 0) = <<>>
      BY <2>3, CharactersGrow
    <3>3. d <= Len(Text)
      BY <1>8, <2>4
    <3> QED BY <2>4, <3>1, <3>2, <3>3
  <2>5. CASE d \in 1 .. Len(Text)
    <3>1. shown = CharactersTo(Text, d - 1) /\ shift = 0
      BY <1>8, <2>2, <2>5 DEF Shows
    <3>2. CharactersTo(Text, d) = IF Text[d] = LineEnd THEN CharactersTo(Text, d - 1)
                                  ELSE Append(CharactersTo(Text, d - 1), Text[d])
      BY <2>3, <2>5, CharactersGrow
    <3>3. shown' = CharactersTo(Text, d) /\ shift' = 0
      <4>1. CASE Text[d] = LineEnd
        <5>1. next.rs = 0 /\ next.val = "line2"
          BY <1>4, <2>5, <4>1
        <5> QED BY <2>1, <3>1, <3>2, <4>1, <5>1 DEF Took
      <4>2. CASE Text[d] # LineEnd
        <5>1. next.rs = 1 /\ next.val = Text[d]
          BY <1>4, <2>5, <4>2
        <5> QED BY <2>1, <3>1, <3>2, <4>2, <5>1 DEF Took
      <4> QED BY <4>1, <4>2
    <3> QED BY <1>8, <2>5, <3>3
  <2>6. CASE d > Len(Text)
    <3>1. next.rs = 0 /\ next.val = "shift"
      BY <1>4, <2>6
    <3>2. shown' = shown /\ shift' = shift + 1
      BY <2>1, <3>1 DEF Took
    <3>3. Shows(d - 1)
      BY <1>8, <2>2, <2>3, <2>6
    <3>4. shown' = CharactersTo(Text, Len(Text))
      <4>1. d - 1 <= Len(Text) => d - 1 = Len(Text)
        BY <1>8, <2>3, <2>6
      <4> QED BY <3>2, <3>3, <4>1 DEF Shows
    <3>5. shift' = d - Len(Text)
      <4>1. CASE d - 1 <= Len(Text)
        <5>1. d - 1 = Len(Text) /\ d - Len(Text) = 1
          BY <1>8, <2>3, <2>6, <4>1
        <5> QED BY <3>2, <3>3, <5>1, <1>8 DEF Shows
      <4>2. CASE ~(d - 1 <= Len(Text))
        <5>1. shift = (d - 1) - Len(Text)
          BY <3>3, <4>2 DEF Shows
        <5> QED BY <1>8, <2>3, <3>2, <5>1
      <4> QED BY <4>1, <4>2
    <3>6. ~(d <= Len(Text))
      BY <1>8, <2>3, <2>6
    <3> QED BY <3>4, <3>5, <3>6
  <2> QED BY <1>4, <1>8, <2>4, <2>5, <2>6
<1>15. Printing'
  <2>1. \A i \in DOMAIN shown', k \in DOMAIN Text : shown'[i] = Text[k] => k <= d
    BY <1>12
  <2>2. preempted' = FALSE => Shows(Done(Full))'
    BY <1>1, <1>7, <1>14 DEF Shows
  <2> QED BY <1>2, <1>7, <2>1, <2>2 DEF Printing
<1>16. ~Rest(lcdInit)'
  BY <1>1, <1>3, <1>7, OneOrTheOther DEF Wired, LcdTypeOK, Rest, Ends
<1> QED BY <1>1, <1>3, <1>7, <1>10, <1>12, <1>15, <1>16 DEF Placed, Progress, Rest

LEMMA PlacedNext ==
    ASSUME Wired, Placed, [LcdNext]_lcdVars
    PROVE  Placed'
<1>1. CASE UNCHANGED lcdVars
  <2>1. UNCHANGED <<pins, ops, shown, shift, settings, preempted, at>>
    BY <1>1 DEF lcdVars, display, printer
  <2> QED BY <2>1, PlacedQuiet
<1>2. CASE Write
  <2>1. ops # <<>>
    BY <1>2, WriteTakes DEF Wired
  <2>2. Rest(lcdInit) \/ Rest(Full)
    BY <2>1 DEF Placed, Progress
  <2> QED BY <1>2, <2>2, PlacedWriteSetUp, PlacedWriteText
<1> QED BY <1>1, <1>2, PlacedPrintText, PlacedSetPins, PlacedPoll, PlacedPollLow, PlacedReady, PlacedPrintPage
    DEF LcdNext, lcdMain

LEMMA LcdInvariant == LcdSpec => [](Wired /\ Placed)
<1>1. LcdInit => Wired /\ Placed
  BY WiredInit, PlacedInit
<1>2. Wired /\ Placed /\ [LcdNext]_lcdVars => (Wired /\ Placed)'
  <2> SUFFICES ASSUME Wired, Placed, [LcdNext]_lcdVars PROVE Wired' /\ Placed'
    OBVIOUS
  <2>1. Progress
    BY DEF Placed
  <2> QED BY <2>1, WiredNext, PlacedNext
<1> QED BY <1>1, <1>2, PTL DEF LcdSpec

\* Wherever a handler cuts in, the display takes nothing but what somebody wrote; of the main
\* loop's text it may lose characters, but shows none twice or out of its place; and a text that
\* no handler cut into is there whole and was in view to its end (lcdPrintString, pollBusyBit).
THEOREM DisplayIsRight == LcdSpec => []DisplayInv
<1>1. Wired /\ Placed => DisplayInv
  <2> SUFFICES ASSUME Wired, Placed PROVE DisplayInv
    OBVIOUS
  <2>1. NoNoise
    <3>1. shown \in Seq(Letter) /\ Noise \notin Letter
      BY TextsAre DEF Wired, LcdTypeOK
    <3>2. \A i \in DOMAIN shown : shown[i] \in Letter
      BY <3>1
    <3> QED BY <3>1, <3>2 DEF NoNoise
  <2>2. ASSUME at = "idle", ~preempted, shown # <<>>
        PROVE  settings = Settings /\ shown = Characters(Text) /\ shift = Shifts(Text)
    <3>1. ops = <<>> /\ preempted = FALSE
      BY <2>2 DEF Wired, LcdTypeOK
    <3>2. settings = Settings /\ Shows(Len(Full) - 1)
      BY <2>2, <3>1 DEF Placed, Progress
    <3> DEFINE m == Len(Text)
               more == Shifts(Text)
    <3>3. Len(Full) - 1 = m + more /\ m \in Nat /\ more \in Nat
      BY FullIs, TextsAre
    <3> HIDE DEF m, more
    <3>4. Shows(m + more)
      BY <3>2, <3>3
    <3>5. shown = CharactersTo(Text, IF m + more <= m THEN m + more ELSE m)
      BY <3>4 DEF Shows, m
    <3>6. shift = IF m + more <= m THEN 0 ELSE (m + more) - m
      BY <3>4 DEF Shows, m
    <3>7. (IF m + more <= m THEN m + more ELSE m) = m
      BY <3>3
    <3>8. shift = more
      BY <3>3, <3>6
    <3> QED BY <3>2, <3>5, <3>7, <3>8 DEF Characters, m, more
  <2>3. WholeText
    <3>1. /\ Text \in Seq(STRING)
          /\ \A i, j \in DOMAIN Text : Text[i] = Text[j] => i = j
      BY LcdAssumption
    <3>2. LET n    == SelectInSeq(Text, LAMBDA c : c = LineEnd)
              ends == IF n = 0 THEN {Len(Text)} ELSE {n - 1, Len(Text) - n}
          IN  \A end \in ends : end <= LineSize + Shifts(Text)
      BY <3>1, ShiftsShow
    <3> QED BY <2>2, <3>2 DEF WholeText
  <2> QED BY <2>1, <2>3 DEF DisplayInv, Placed
<1> QED BY <1>1, LcdInvariant, PTL

\* A page that a handler prints while the main loop does not print is the only text on the
\* display: the main loop has waited for the display, so that the handler's clearing is taken.
THEOREM PagesAreWhole == LcdSpec => WholePage
<1>1. Wired /\ [LcdNext]_lcdVars => [at = "idle" /\ pages' > pages => shown' = Characters(Page)]_lcdVars
  <2> SUFFICES ASSUME Wired, [LcdNext]_lcdVars, at = "idle", pages' > pages
               PROVE  shown' = Characters(Page)
    OBVIOUS
  <2>1. pages \in Nat /\ pages' # pages
    BY DEF Wired, LcdTypeOK
  <2>2. PrintPage
    BY <2>1 DEF LcdNext, lcdMain, PrintText, SetPins, Write, PollPins, PollRead, PollLow, Ready, lcdVars
  <2>3. lcd_busy = FALSE
    BY DEF Wired, Waits
  <2> QED BY <2>2, <2>3, PageShows
<1> QED BY <1>1, LcdInvariant, PTL DEF LcdSpec, WholePage
=============================================================================
