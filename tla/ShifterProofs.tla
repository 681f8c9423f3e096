----------------------------- MODULE ShifterProofs -----------------------------
(***************************************************************************)
(* The shifter, for words of every size: its results are words, and each   *)
(* form of shift is so many shifts by one bit.                             *)
(***************************************************************************)
EXTENDS ShiftSteps, ArithmeticLemmas

\* The value of the highest bit.
SignBit == 2^(Width - 1)

(***************************************************************************)
(* The shifter: what every form of second operand makes of words is a word *)
(* and a carry.                                                            *)
(***************************************************************************)
LEMMA WordIsWords ==
  Words = 0 .. 2^Width - 1 /\ WordSize \in Nat \ {0} /\ WordSize = 2^Width /\ Words \subseteq Nat
<1>1. WordSize \in Nat \ {0}
  BY PowerTyped, WidthAssumption DEF WordSize
<1> QED BY <1>1 DEF Words, WordSize

\* A word is split at any bit.
LEMMA SplitPower ==
  ASSUME NEW s \in 0 .. Width
  PROVE  2^Width = 2^s * 2^(Width - s)
BY PowerSum, WidthAssumption, s \in Nat, Width - s \in Nat, s + (Width - s) = Width

LEMMA RightTyped ==
  ASSUME NEW x \in Words, NEW n \in Nat
  PROVE  Right(x, n) \in Words
<1> DEFINE p == 2^n
<1>1. p \in Nat \ {0}
  BY PowerTyped
<1>2. x \in Nat /\ WordSize \in Nat /\ x < WordSize
  BY WordIsWords DEF Words
<1> HIDE DEF p
<1>3. x \div p \in Nat /\ x \div p <= x
  <2> DEFINE q == x \div p
             r == x % p
  <2>1. q \in Nat /\ r \in 0 .. p - 1 /\ x = (p * q) + r
    BY <1>1, <1>2, DivMod
  <2> HIDE DEF q, r
  <2>2. q <= p * q
    BY <1>1, <2>1
  <2>3. q \in Nat /\ q <= x
    BY <1>1, <1>2, <2>1, <2>2
  <2> QED BY <2>3 DEF q
<1>4. x \div p \in Words
  BY <1>2, <1>3 DEF Words
<1> QED BY <1>4 DEF p, Right

LEMMA LeftTyped ==
  ASSUME NEW x \in Words, NEW n \in Nat
  PROVE  Left(x, n) \in Words
<1> DEFINE y == x * 2^n
<1>1. y \in Int
  BY WordIsWords, PowerTyped
<1> HIDE DEF y
<1>2. y % WordSize \in Words
  BY <1>1, WordIsWords, ModTyped DEF Words
<1> QED BY <1>2, WordIsWords DEF y, Left

\* A rotation, by the quotient and the remainder of what it splits.
LEMMA RorIs ==
  ASSUME NEW x \in Words, NEW s \in 0 .. Width - 1
  PROVE  LET p == 2^s
             k == 2^(Width - s)
             q == x \div p
             r == x % p
         IN  /\ p \in Nat \ {0} /\ k \in Nat \ {0} /\ WordSize = p * k
             /\ q \in 0 .. k - 1 /\ r \in 0 .. p - 1 /\ x = (p * q) + r
             /\ r * k \in Nat /\ r * k <= (p * k) - k
             /\ ror32(x, s) = q + (r * k)
<1> DEFINE p == 2^s
           k == 2^(Width - s)
           q == x \div p
           r == x % p
<1>1. p \in Nat \ {0} /\ k \in Nat \ {0}
  BY PowerTyped, WidthAssumption
<1>2. WordSize = p * k /\ x \in 0 .. (p * k) - 1 /\ x \in Nat
  BY WordIsWords, SplitPower, WidthAssumption
<1>3. s = 0 => p = 1
  OBVIOUS
<1>4. ror32(x, s) = IF s = 0 THEN x ELSE q + ((x * k) % (p * k))
  BY <1>2, WordIsWords DEF ror32, Right, Left
<1> HIDE DEF p, k
<1>5. q \in 0 .. k - 1
  BY <1>1, <1>2, DivBelow
<1>6. r \in 0 .. p - 1 /\ x = (p * q) + r
  BY <1>1, <1>2, DivMod
<1> HIDE DEF q, r
<1>7. r * k <= (p * k) - k /\ r * k \in Nat
  <2>1. PICK d \in Nat : p = (r + 1) + d
    BY <1>1, <1>6
  <2>2. p * k = ((r * k) + k) + (d * k) /\ d * k \in Nat /\ r * k \in Nat
    BY <1>1, <1>6, <2>1
  <2> QED BY <2>2, <1>1
<1>8. (x * k) % (p * k) = r * k
  <2>1. x * k = ((p * k) * q) + (r * k)
    BY <1>1, <1>5, <1>6
  <2> DEFINE m == p * k
             t == r * k
  <2>2. m \in Nat \ {0} /\ t \in 0 .. m - 1
    BY <1>1, <1>7
  <2> HIDE DEF m, t
  <2>3. ((m * q) + t) % m = t
    BY <1>5, <2>2, DivUnique
  <2> QED BY <2>1, <2>3 DEF m, t
<1>9. ror32(x, s) = q + (r * k)
  <2>1. CASE s = 0
    <3>1. r = 0 /\ q = x /\ 0 * k = 0
      BY <1>1, <1>3, <1>5, <1>6, <2>1
    <3> QED BY <1>2, <1>4, <2>1, <3>1
  <2>2. CASE s # 0
    BY <1>4, <1>8, <2>2
  <2> QED BY <2>1, <2>2
<1> QED BY <1>1, <1>2, <1>5, <1>6, <1>7, <1>9 DEF p, k, q, r

\* What comes back at the top does not meet what is left.
LEMMA RorTyped ==
  ASSUME NEW x \in Words, NEW s \in 0 .. Width - 1
  PROVE  ror32(x, s) \in Words
<1> DEFINE p == 2^s
           k == 2^(Width - s)
           q == x \div p
           r == x % p
           pk == p * k
           rk == r * k
<1>1. /\ k \in Nat \ {0} /\ WordSize = pk /\ q \in 0 .. k - 1 /\ rk \in Nat /\ rk <= pk - k
      /\ ror32(x, s) = q + rk
  BY RorIs
<1> HIDE DEF p, k, q, r, pk, rk
<1>2. WordSize \in Nat
  BY WordIsWords
<1>3. q + rk \in 0 .. WordSize - 1
  BY <1>1, <1>2
<1> QED BY <1>1, <1>3 DEF Words

LEMMA ArithmeticRightTyped ==
  ASSUME NEW x \in Words, NEW n \in Nat
  PROVE  ArithmeticRight(x, n) \in Words
<1>1. Ones \in Words /\ x <= Ones /\ Ones \in Nat /\ x \in Nat /\ Ones = WordSize - 1
  BY WordIsWords DEF Ones, Words
<1>2. Right(x, n) \in Words /\ Right(Ones, n) \in Words
  BY <1>1, RightTyped
<1>3. Right(x, n) <= Right(Ones, n)
  BY <1>1, PowerTyped, DivMonotone DEF Right
<1> DEFINE a == Right(x, n)
           b == Right(Ones, n)
<1> HIDE DEF a, b
<1>4. a + (Ones - b) \in Words
  BY <1>1, <1>2, <1>3, WordIsWords DEF a, b, Words
<1> QED BY <1>2, <1>4 DEF a, b, ArithmeticRight

\* A second operand: a word and a carry.
Operand == [val : Words, c : BOOLEAN]

LEMMA OutTyped == ASSUME NEW x \in Words, NEW c \in BOOLEAN PROVE Out(x, c) \in Operand
BY DEF Out, Operand

LEMMA BitTyped == ASSUME NEW x, NEW i PROVE BitOf(x, i) \in BOOLEAN /\ Top(x) \in BOOLEAN
BY DEF BitOf, Top

LEMMA EndsTyped == 0 \in Words /\ Ones \in Words /\ \A x : SignFill(x) \in Operand
<1>1. 0 \in Words /\ Ones \in Words
  BY WordIsWords DEF Words, Ones
<1> QED BY <1>1, BitTyped, OutTyped DEF SignFill

LEMMA WithinTyped ==
  ASSUME NEW t \in ShiftTypes, NEW x \in Words, NEW n \in 0 .. Width - 1
  PROVE  Within(t, x, n) \in Operand
<1>1. /\ Left(x, n) \in Words /\ Right(x, n) \in Words
      /\ ArithmeticRight(x, n) \in Words /\ ror32(x, n) \in Words
  BY n \in Nat, LeftTyped, RightTyped, ArithmeticRightTyped, RorTyped
<1> QED BY <1>1, OutTyped, BitTyped DEF Within, ShiftTypes

LEMMA ByImmTyped ==
  ASSUME NEW t \in ShiftTypes, NEW x \in Words, NEW n \in 0 .. Width - 1, NEW c \in BOOLEAN
  PROVE  ShiftByImm(t, x, n, c) \in Operand
<1>1. CASE n > 0
  BY <1>1, WithinTyped DEF ShiftByImm
<1>2. CASE ~(n > 0)
  <2>1. (IF c THEN 2^(Width - 1) ELSE 0) + Right(x, 1) \in Words
    <3> DEFINE k == 2^(Width - 1)
               q == x \div 2
    <3>1. k \in Nat \ {0} /\ WordSize = 2 * k
      BY PowerTyped, PowerDoubles, WidthAssumption, WordIsWords, Width - 1 \in Nat,
         (Width - 1) + 1 = Width
    <3> HIDE DEF k
    <3>2. q \in 0 .. k - 1
      BY <3>1, WordIsWords DEF Words
    <3>3. Right(x, 1) = q
      BY 2^1 = 2 DEF Right
    <3> HIDE DEF q
    <3>4. k + q \in Words /\ 0 + q \in Words
      BY <3>1, <3>2 DEF Words
    <3> QED BY <3>3, <3>4 DEF k
  <2> QED BY <1>2, <2>1, EndsTyped, OutTyped, BitTyped DEF ShiftByImm, ShiftTypes
<1> QED BY <1>1, <1>2

LEMMA ByRegTyped ==
  ASSUME NEW t \in ShiftTypes, NEW x \in Words, NEW rs \in Words, NEW c \in BOOLEAN
  PROVE  ShiftByReg(t, x, rs, c) \in Operand
<1> DEFINE low == rs % 256
           s == low % Width
<1>1. low \in Nat
  BY WordIsWords, ModTyped
<1> HIDE DEF low
<1>2. s \in 0 .. Width - 1
  BY <1>1, WidthAssumption, ModTyped
<1> HIDE DEF s
<1>3. Within(t, x, s) \in Operand /\ (low < Width => Within(t, x, low) \in Operand)
  BY <1>1, <1>2, WithinTyped, WidthAssumption
<1>4. /\ Out(x, c) \in Operand /\ Out(x, Top(x)) \in Operand /\ SignFill(x) \in Operand
      /\ Out(0, low = Width /\ BitOf(x, 0)) \in Operand
      /\ Out(0, low = Width /\ Top(x)) \in Operand
  BY EndsTyped, OutTyped, BitTyped
<1> QED BY <1>3, <1>4 DEF ShiftByReg, ShiftTypes, low, s

LEMMA ImmediateTyped ==
  ASSUME NEW i \in 0 .. 2^(Width \div 4) - 1, NEW rot \in 0 .. (Width \div 2) - 1,
         NEW c \in BOOLEAN
  PROVE  Immediate(i, rot, c) \in Operand
<1>1. Width \div 4 \in Nat /\ Width \div 4 <= Width
  BY WidthAssumption
<1>2. 2^(Width \div 4) \in Nat /\ 2^(Width \div 4) <= 2^Width
  BY <1>1, PowerTyped, PowerMonotone, WidthAssumption
<1>3. i \in Words
  BY <1>2, WordIsWords
<1>4. 2 * rot \in 0 .. Width - 1
  BY WidthAssumption
<1>5. ror32(i, 2 * rot) \in Words
  BY <1>3, <1>4, RorTyped
<1> QED BY <1>3, <1>5, OutTyped, BitTyped DEF Immediate

LEMMA OperandTyped ==
  ASSUME NEW src, \A r \in DOMAIN src : src[r] \in Words, NEW c \in BOOLEAN
  PROVE  Operand2(src, c) \subseteq Operand
<1> DEFINE rms == {src[r] : r \in DOMAIN src}
<1>1. rms \subseteq Words
  OBVIOUS
<1> HIDE DEF rms
<1> QED BY <1>1, ImmediateTyped, ByImmTyped, ByRegTyped DEF Operand2, rms

\* A number has no bit beyond its size.
LEMMA NoBitAbove ==
  ASSUME NEW k \in Nat, NEW x \in 0 .. 2^k - 1, NEW i \in Nat, k <= i
  PROVE  ~BitOf(x, i)
<1> DEFINE p == 2^i
<1>1. p \in Nat \ {0} /\ x \in 0 .. p - 1
  BY PowerTyped, PowerMonotone
<1> HIDE DEF p
<1>2. x \div p = 0
  BY <1>1
<1>3. ~((x \div p) % 2 = 1)
  BY <1>2, 0 % 2 = 0
<1> QED BY <1>3 DEF p, BitOf

(***************************************************************************)
(* The shifter is its one-bit shifts.  After j of them a value and a carry *)
(* have a closed form, which the code's expressions equal.                 *)
(***************************************************************************)
\* The value and the carry after j shifts of x by one bit.
ValAfter(t, x, j) ==
  CASE t = "LSL" -> (x * 2^j) % WordSize
    [] t = "LSR" -> x \div 2^j
    [] t = "ASR" -> IF Top(x) THEN Ones - ((Ones - x) \div 2^j) ELSE x \div 2^j
    [] t = "ROR" -> ror32(x, j % Width)

CarryAfter(t, x, c, j) ==
  IF j = 0 THEN c
  ELSE CASE t = "LSL" -> j <= Width /\ BitOf(x, Width - j)
         [] t = "LSR" -> BitOf(x, j - 1)
         [] t = "ASR" -> IF j <= Width THEN BitOf(x, j - 1) ELSE Top(x)
         [] t = "ROR" -> BitOf(x, (j - 1) % Width)

LEMMA HalfIsPower ==
  /\ SignBit = 2^(Width - 1) /\ SignBit \in Nat \ {0}
  /\ WordSize = 2 * SignBit /\ 2^Width = 2 * SignBit
<1>1. Width - 1 \in Nat /\ (Width - 1) + 1 = Width
  BY WidthAssumption
<1>2. 2^Width = 2 * 2^(Width - 1)
  BY <1>1, PowerDoubles
<1>3. 2^(Width - 1) \in Nat
  BY <1>1, PowerTyped
<1> QED BY <1>2, <1>3, WordIsWords DEF SignBit

\* The top bit is set in the upper half.
LEMMA TopIsUpper ==
  ASSUME NEW x \in Words
  PROVE  Top(x) <=> x >= SignBit
<1>1. SignBit \in Nat \ {0} /\ x \in Nat /\ x < 2 * SignBit
  BY HalfIsPower, WordIsWords DEF Words
<1>2. CASE x >= SignBit
  <2>1. x = (SignBit * 1) + (x - SignBit) /\ x - SignBit \in 0 .. SignBit - 1
    BY <1>1, <1>2
  <2>2. x \div SignBit = 1
    BY <1>1, <2>1, DivUnique
  <2>3. (x \div SignBit) % 2 = 1
    BY <2>2
  <2> QED BY <1>2, <2>3, HalfIsPower DEF Top, BitOf
<1>3. CASE x < SignBit
  <2>1. x = (SignBit * 0) + x /\ x \in 0 .. SignBit - 1
    BY <1>1, <1>3
  <2>2. x \div SignBit = 0
    BY <1>1, <2>1, DivUnique
  <2>3. ~((x \div SignBit) % 2 = 1)
    BY <2>2
  <2> QED BY <1>1, <1>3, <2>3, HalfIsPower DEF Top, BitOf
<1> QED BY <1>1, <1>2, <1>3

\* One more bit is gone.
LEMMA HalfOfRight ==
  ASSUME NEW x \in Nat, NEW j \in Nat
  PROVE  x \div 2^(j + 1) = (x \div 2^j) \div 2
<1> DEFINE p == 2^j
           q == x \div p
           r == x % p
           u == q \div 2
           b == q % 2
<1>1. p \in Nat \ {0} /\ 2^(j + 1) = 2 * p
  BY PowerTyped, PowerDoubles
<1> HIDE DEF p
<1>2. q \in Nat /\ r \in 0 .. p - 1 /\ x = (p * q) + r
  BY <1>1, DivMod
<1> HIDE DEF q, r
<1>3. u \in Nat /\ b \in 0 .. 1 /\ q = (2 * u) + b
  BY <1>2
<1> HIDE DEF u, b
<1> DEFINE s == (p * b) + r
           m == 2 * p
<1>4. x = (m * u) + s
  BY <1>1, <1>2, <1>3
<1>5. s \in 0 .. m - 1 /\ m \in Nat \ {0}
  BY <1>1, <1>2, <1>3
<1> HIDE DEF s, m
<1>6. x \div m = u
  BY <1>3, <1>4, <1>5, DivUnique
<1> QED BY <1>1, <1>6 DEF p, q, u, m

\* What is shifted out altogether.
LEMMA RightBeyond ==
  ASSUME NEW x \in Words, NEW j \in Nat, j >= Width
  PROVE  x \div 2^j = 0 /\ (x * 2^j) % WordSize = 0
<1> DEFINE p == 2^j
           k == 2^(j - Width)
<1>1. p \in Nat \ {0} /\ k \in Nat /\ WordSize \in Nat \ {0} /\ x \in 0 .. WordSize - 1 /\ x \in Nat
  BY PowerTyped, WordIsWords, WidthAssumption, j - Width \in Nat DEF Words
<1>2. p = WordSize * k
  BY PowerSum, WordIsWords, WidthAssumption, j - Width \in Nat, Width + (j - Width) = j
<1>3. WordSize <= p
  BY PowerMonotone, WordIsWords, WidthAssumption
<1> HIDE DEF p, k
<1>4. x \in 0 .. p - 1 /\ x = (p * 0) + x
  BY <1>1, <1>3
<1>5. x \div p = 0
  BY <1>1, <1>4, DivUnique
<1>6. x * p = (WordSize * (x * k)) + 0 /\ x * k \in Nat
  BY <1>1, <1>2
<1>7. (x * p) % WordSize = 0
  <2> DEFINE v == x * k
  <2>1. v \in Nat /\ x * p = (WordSize * v) + 0 /\ 0 \in 0 .. WordSize - 1
    BY <1>1, <1>6
  <2> HIDE DEF v
  <2>2. ((WordSize * v) + 0) % WordSize = 0
    BY <1>1, <2>1, DivUnique
  <2> QED BY <2>1, <2>2
<1> QED BY <1>5, <1>7 DEF p

LEMMA ModOfMod ==
  ASSUME NEW y \in Nat, NEW m \in Nat \ {0}
  PROVE  (2 * (y % m)) % m = (2 * y) % m
<1> DEFINE q == y \div m
           r == y % m
           q2 == (2 * r) \div m
           r2 == (2 * r) % m
<1>1. q \in Nat /\ r \in 0 .. m - 1 /\ y = (m * q) + r
  BY DivMod
<1> HIDE DEF q, r
<1>2. q2 \in Nat /\ r2 \in 0 .. m - 1 /\ 2 * r = (m * q2) + r2
  BY <1>1, DivMod, 2 * r \in Nat
<1> HIDE DEF q2, r2
<1>3. 2 * y = (m * ((2 * q) + q2)) + r2
  BY <1>1, <1>2
<1>4. (2 * y) % m = r2
  BY <1>1, <1>2, <1>3, DivUnique, (2 * q) + q2 \in Nat
<1> QED BY <1>4 DEF r2, r

\* Left by one.
LEMMA LslStep ==
  ASSUME NEW x \in Words, NEW j \in Nat
  PROVE  LET y == (x * 2^j) % WordSize
         IN  /\ (2 * y) % WordSize = (x * 2^(j + 1)) % WordSize
             /\ y >= SignBit <=> j + 1 <= Width /\ BitOf(x, Width - (j + 1))
<1> DEFINE p == 2^j
           y == (x * p) % WordSize
<1>1. p \in Nat \ {0} /\ 2^(j + 1) = 2 * p /\ x \in Nat /\ WordSize \in Nat \ {0} /\ x * p \in Nat
  BY PowerTyped, PowerDoubles, WordIsWords
<1>2. (2 * y) % WordSize = (x * 2^(j + 1)) % WordSize
  <2> HIDE DEF p
  <2>1. x * (2 * p) = 2 * (x * p)
    BY <1>1
  <2> QED BY <1>1, <2>1, ModOfMod
<1>3. CASE j >= Width
  <2>1. y = 0
    BY <1>3, RightBeyond
  <2> QED BY <1>2, <1>3, <2>1, HalfIsPower, WidthAssumption
<1>4. CASE j < Width
  <2> DEFINE i == Width - (j + 1)
             m == 2^i
             q == x \div m
             r == x % m
             u == q \div 2
             b == q % 2
  <2>1. i \in Nat /\ j + i = Width - 1
    BY <1>4, WidthAssumption
  <2>2. m \in Nat \ {0} /\ SignBit = p * m
    BY <2>1, PowerTyped, PowerSum, HalfIsPower
  <2> HIDE DEF p, i
  <2>3. q \in Nat /\ r \in 0 .. m - 1 /\ x = (m * q) + r
    BY <1>1, <2>2, DivMod
  <2> HIDE DEF m, q, r
  <2>4. u \in Nat /\ b \in 0 .. 1 /\ q = (2 * u) + b
    BY <2>3
  <2> HIDE DEF u, b
  <2> DEFINE t == (SignBit * b) + (p * r)
  <2>5. x * p = (WordSize * u) + t
    <3>1. x * p = (m * q) * p + r * p
      BY <1>1, <2>2, <2>3
    <3>2. (m * q) * p = (p * m) * q /\ r * p = p * r
      BY <1>1, <2>2, <2>3
    <3>3. SignBit * q = (2 * SignBit) * u + SignBit * b
      BY <2>4, HalfIsPower
    <3> QED BY <1>1, <2>2, <2>3, <2>4, <3>1, <3>2, <3>3, HalfIsPower
  <2>6. p * r \in 0 .. SignBit - 1
    <3>1. PICK d \in Nat : m = (r + 1) + d
      BY <2>2, <2>3
    <3>2. p * m = ((p * r) + p) + (p * d) /\ p * d \in Nat /\ p * r \in Nat
      BY <1>1, <2>3, <3>1
    <3> QED BY <1>1, <2>2, <3>2
  <2> DEFINE pr == p * r
  <2>7. t \in 0 .. WordSize - 1 /\ (t >= SignBit <=> b = 1)
    <3>1. t = (SignBit * b) + pr /\ pr \in 0 .. SignBit - 1 /\ SignBit \in Nat \ {0} /\ WordSize = 2 * SignBit
      BY <2>6, HalfIsPower
    <3> HIDE DEF t, pr
    <3> QED BY <2>4, <3>1
  <2> HIDE DEF t
  <2>8. y = t
    BY <1>1, <2>4, <2>5, <2>7, DivUnique
  <2>9. BitOf(x, i) <=> b = 1
    BY DEF BitOf, m, q, b
  <2>10. j + 1 <= Width
    BY <1>4, WidthAssumption
  <2> HIDE DEF y
  <2>11. y >= SignBit <=> j + 1 <= Width /\ BitOf(x, Width - (j + 1))
    BY <2>7, <2>8, <2>9, <2>10 DEF i
  <2> QED BY <1>2, <2>11 DEF y, p
<1>5. Width \in Nat
  BY WidthAssumption
<1> QED BY <1>3, <1>4, <1>5

\* What is not there, counted from the top: the quotient of the complement.
LEMMA ComplementOfRight ==
  ASSUME NEW x \in Words, NEW j \in 0 .. Width
  PROVE  LET k == 2^(Width - j)
             z == (Ones - x) \div 2^j
         IN  /\ k \in Nat \ {0} /\ z \in 0 .. k - 1
             /\ x \div 2^j = (k - 1) - z /\ Ones \div 2^j = k - 1
<1> DEFINE p == 2^j
           k == 2^(Width - j)
           y == Ones - x
           z == y \div p
           r == y % p
<1>1. p \in Nat \ {0} /\ k \in Nat \ {0} /\ WordSize = p * k /\ Ones = WordSize - 1 /\ WordSize \in Nat
  BY PowerTyped, SplitPower, WordIsWords, WidthAssumption DEF Ones
<1>2. y \in 0 .. (p * k) - 1 /\ y \in Nat /\ x = (WordSize - 1) - y
  <2> DEFINE pk == p * k
  <2>1. x \in 0 .. WordSize - 1 /\ WordSize = pk /\ Ones = WordSize - 1 /\ WordSize \in Nat
    BY <1>1, WordIsWords DEF Words
  <2> HIDE DEF pk, p, k
  <2>2. y \in 0 .. pk - 1 /\ y \in Nat /\ x = (WordSize - 1) - y
    BY <2>1
  <2> QED BY <2>2 DEF pk
<1> HIDE DEF p, k, y
<1>3. z \in 0 .. k - 1 /\ r \in 0 .. p - 1 /\ y = (p * z) + r
  BY <1>1, <1>2, DivBelow, DivMod
<1> HIDE DEF z, r
<1>4. x = (p * ((k - 1) - z)) + ((p - 1) - r)
  <2>1. p * ((k - 1) - z) = (p * k - p) - p * z
    BY <1>1, <1>3
  <2> QED BY <1>1, <1>2, <1>3, <2>1
<1>5. x \div p = (k - 1) - z
  <2>1. (k - 1) - z \in Nat /\ (p - 1) - r \in 0 .. p - 1
    BY <1>1, <1>3
  <2> QED BY <1>1, <1>4, <2>1, DivUnique
<1>6. Ones \div p = k - 1
  <2>1. Ones = (p * (k - 1)) + (p - 1)
    BY <1>1
  <2>2. k - 1 \in Nat /\ p - 1 \in 0 .. p - 1
    BY <1>1
  <2> QED BY <1>1, <2>1, <2>2, DivUnique
<1> QED BY <1>1, <1>3, <1>5, <1>6 DEF p, k, y, z

\* >> of a negative number, in the code's form.
LEMMA AsrIs ==
  ASSUME NEW x \in Words, NEW j \in 0 .. Width
  PROVE  ArithmeticRight(x, j) = IF Top(x) THEN Ones - ((Ones - x) \div 2^j) ELSE x \div 2^j
<1> DEFINE p == 2^j
           k == 2^(Width - j)
           z == (Ones - x) \div p
           a == x \div p
           b == Ones \div p
<1>1. k \in Nat \ {0} /\ z \in 0 .. k - 1 /\ a = (k - 1) - z /\ b = k - 1
  BY ComplementOfRight
<1>2. Ones \in Nat
  BY EndsTyped, WordIsWords
<1>3. ArithmeticRight(x, j) = IF Top(x) THEN a + (Ones - b) ELSE a
  BY DEF ArithmeticRight, Right
<1> HIDE DEF p, k, z, a, b
<1>4. a + (Ones - b) = Ones - z
  BY <1>1, <1>2
<1> QED BY <1>3, <1>4 DEF p, z, a

\* Right by one, with the sign.
LEMMA AsrStep ==
  ASSUME NEW x \in Words, NEW j \in Nat
  PROVE  LET v == ValAfter("ASR", x, j)
         IN  /\ (IF v >= SignBit THEN SignBit ELSE 0) + (v \div 2) = ValAfter("ASR", x, j + 1)
             /\ v % 2 = 1 <=> IF j + 1 <= Width THEN BitOf(x, j) ELSE Top(x)
<1> DEFINE p == 2^j
           v == ValAfter("ASR", x, j)
           y == Ones - x
           z == y \div p
           a == x \div p
<1>1. /\ SignBit \in Nat \ {0} /\ x \in 0 .. (2 * SignBit) - 1 /\ x \in Nat /\ Ones = (2 * SignBit) - 1
      /\ Width \in Nat \ {0}
  BY HalfIsPower, WordIsWords, WidthAssumption DEF Words, Ones
<1>2. p \in Nat \ {0} /\ y \in Nat /\ y <= Ones /\ y \in Words
  BY <1>1, PowerTyped, HalfIsPower DEF Words
<1>3. x \div 2^(j + 1) = a \div 2 /\ y \div 2^(j + 1) = z \div 2
  BY <1>1, <1>2, HalfOfRight
<1>4. a \in Nat /\ a <= x /\ z \in Nat /\ z <= y
  <2>1. Right(x, j) \in Words /\ Right(y, j) \in Words
    BY <1>2, RightTyped
  <2>2. ASSUME NEW n \in Nat PROVE n \div p \in Nat /\ n \div p <= n
    <3> DEFINE q == n \div p
               r == n % p
    <3>1. q \in Nat /\ r \in 0 .. p - 1 /\ n = (p * q) + r
      BY <1>2, DivMod
    <3> HIDE DEF p, q, r
    <3>2. q <= p * q
      BY <1>2, <3>1
    <3>3. q \in Nat /\ q <= n
      BY <1>2, <3>1, <3>2
    <3> QED BY <3>3 DEF q
  <2> QED BY <1>1, <1>2, <2>2
<1>5. CASE ~Top(x)
  <2>1. v = a /\ ValAfter("ASR", x, j + 1) = a \div 2
    BY <1>5, <1>3 DEF ValAfter
  <2>2. x < SignBit
    BY <1>1, <1>5, TopIsUpper
  <2>3. a % 2 = 1 <=> BitOf(x, j)
    BY DEF BitOf
  <2>4. j >= Width => a = 0
    BY RightBeyond
  <2> HIDE DEF a, v
  <2>5. ~(v >= SignBit) /\ v \div 2 \in Nat
    BY <1>1, <1>4, <2>1, <2>2
  <2>6. v % 2 = 1 <=> IF j + 1 <= Width THEN BitOf(x, j) ELSE Top(x)
    <3>1. CASE j + 1 <= Width
      BY <3>1, <2>1, <2>3
    <3>2. CASE ~(j + 1 <= Width)
      <4>1. j >= Width
        BY <1>1, <3>2
      <4> QED BY <1>5, <3>2, <2>1, <2>4, <4>1
    <3> QED BY <3>1, <3>2
  <2> QED BY <2>1, <2>5, <2>6 DEF v
<1>6. CASE Top(x)
  <2>1. v = Ones - z /\ ValAfter("ASR", x, j + 1) = Ones - (z \div 2)
    BY <1>6, <1>3 DEF ValAfter
  <2>2. x >= SignBit
    BY <1>1, <1>6, TopIsUpper
  <2>3. y < SignBit
    BY <1>1, <2>2
  <2>4. j >= Width => z = 0
    BY <1>2, RightBeyond
  <2>5. j + 1 <= Width => (BitOf(x, j) <=> z % 2 = 0)
    <3> SUFFICES ASSUME j + 1 <= Width PROVE BitOf(x, j) <=> z % 2 = 0
      OBVIOUS
    <3> DEFINE k == 2^(Width - j)
               h == 2^(Width - j - 1)
    <3>0. j \in 0 .. Width
      BY <1>1
    <3>1. k \in Nat \ {0} /\ z \in 0 .. k - 1 /\ a = (k - 1) - z
      BY <3>0, ComplementOfRight
    <3>2. k = 2 * h /\ h \in Nat
      BY <1>1, PowerTyped, PowerDoubles, Width - j - 1 \in Nat, (Width - j - 1) + 1 = Width - j
    <3>3. BitOf(x, j) <=> a % 2 = 1
      BY DEF BitOf
    <3> HIDE DEF k, h, a, z
    <3>4. a % 2 = 1 <=> z % 2 = 0
      BY <3>1, <3>2
    <3> QED BY <3>3, <3>4
  <2> HIDE DEF z, v, y
  <2>6. v >= SignBit /\ v \div 2 = (SignBit - 1) - (z \div 2) /\ (v % 2 = 1 <=> z % 2 = 0) /\ z \div 2 \in Nat
    BY <1>1, <1>2, <1>4, <2>1, <2>3
  <2>7. SignBit + ((SignBit - 1) - (z \div 2)) = Ones - (z \div 2)
    BY <1>1, <2>6
  <2>8. v % 2 = 1 <=> IF j + 1 <= Width THEN BitOf(x, j) ELSE Top(x)
    <3>1. CASE j + 1 <= Width
      BY <3>1, <2>5, <2>6
    <3>2. CASE ~(j + 1 <= Width)
      <4>1. j >= Width
        BY <1>1, <3>2
      <4> QED BY <1>6, <3>2, <2>4, <2>6, <4>1
    <3> QED BY <3>1, <3>2
  <2> QED BY <2>1, <2>6, <2>7, <2>8 DEF v
<1> QED BY <1>5, <1>6

\* Right by one, with the bit that leaves coming back at the top.
LEMMA RorStep ==
  ASSUME NEW x \in Words, NEW j \in 0 .. Width - 1
  PROVE  LET v == ror32(x, j)
         IN  /\ (IF v % 2 = 1 THEN SignBit ELSE 0) + (v \div 2) = ror32(x, (j + 1) % Width)
             /\ v % 2 = 1 <=> BitOf(x, j)
             /\ BitOf(x, j) <=> ror32(x, (j + 1) % Width) >= SignBit
<1> DEFINE p == 2^j
           k == 2^(Width - j)
           g == 2^(Width - j - 1)
           q == x \div p
           r == x % p
           u == q \div 2
           b == q % 2
<1>1. /\ p \in Nat \ {0} /\ k = 2 * g /\ g \in Nat \ {0} /\ x \in 0 .. (p * k) - 1 /\ x \in Nat
      /\ SignBit = p * g /\ WordSize = p * k /\ SignBit \in Nat \ {0} /\ Width \in Nat \ {0} /\ 2^(j + 1) = 2 * p
  <2>1. j \in Nat /\ Width \in Nat \ {0} /\ Width - j - 1 \in Nat /\ Width - j \in Nat
    BY WidthAssumption
  <2>2. (Width - j - 1) + 1 = Width - j /\ j + (Width - j - 1) = Width - 1 /\ j \in 0 .. Width
    BY <2>1
  <2>3. p \in Nat \ {0} /\ g \in Nat \ {0} /\ k = 2 * g /\ 2^(j + 1) = 2 * p
    BY <2>1, <2>2, PowerTyped, PowerDoubles
  <2>4. SignBit = p * g
    BY <2>1, <2>2, PowerSum, HalfIsPower
  <2>5. WordSize = p * k
    BY <2>2, SplitPower, WordIsWords
  <2> QED BY <2>1, <2>3, <2>4, <2>5, HalfIsPower, WordIsWords DEF Words
<1>2. q \in 0 .. k - 1 /\ r \in 0 .. p - 1 /\ x = (p * q) + r
  <2> HIDE DEF p, k
  <2>1. k \in Nat
    BY <1>1
  <2> QED BY <1>1, <2>1, DivBelow, DivMod
<1>3. BitOf(x, j) <=> b = 1
  BY DEF BitOf
<1>4. ror32(x, j) = q + (r * k)
  BY RorIs
<1>5. u \in 0 .. g - 1 /\ b \in 0 .. 1 /\ q = (2 * u) + b
  <2> HIDE DEF k, g, q
  <2>1. q \in Nat /\ q < 2 * g
    BY <1>1, <1>2
  <2> QED BY <1>1, <2>1
<1> DEFINE rest == u + (r * g)
           v == ror32(x, j)
           w == ror32(x, (j + 1) % Width)
<1> HIDE DEF k, g, p, q, r, u, b
<1>6. v = (2 * rest) + b
  <2>1. r * k = 2 * (r * g) /\ r * g \in Nat
    BY <1>1, <1>2
  <2> QED BY <1>1, <1>2, <1>4, <1>5, <2>1
<1>7. rest \in 0 .. SignBit - 1
  <2>1. PICK d \in Nat : p = (r + 1) + d
    BY <1>1, <1>2
  <2>2. p * g = ((r * g) + g) + (d * g) /\ d * g \in Nat /\ r * g \in Nat
    BY <1>1, <1>2, <2>1
  <2> QED BY <1>1, <1>5, <2>2
<1>8. w = (SignBit * b) + rest
  <2>1. CASE j + 1 = Width
    <3>1. g = 1
      <4>1. Width - j - 1 = 0
        BY <1>1, <2>1
      <4>2. 2^0 = 1
        OBVIOUS
      <4> QED BY <4>1, <4>2 DEF g
    <3>2. w = x
      BY <1>1, <2>1, Width % Width = 0 DEF ror32
    <3>3. u = 0 /\ SignBit = p /\ r * 1 = r
      BY <1>1, <1>2, <1>5, <3>1
    <3>4. rest = r
      BY <1>2, <3>1, <3>3
    <3> QED BY <1>1, <1>2, <1>5, <3>2, <3>3, <3>4
  <2>2. CASE j + 1 # Width
    <3> DEFINE t == (p * b) + r
               m == 2 * p
    <3>1. j + 1 \in 0 .. Width - 1 /\ (j + 1) % Width = j + 1 /\ Width - (j + 1) = Width - j - 1
      BY <1>1, <2>2
    <3>2. w = (x \div m) + ((x % m) * g)
      BY <1>1, <3>1, RorIs DEF g
    <3>3. t \in 0 .. m - 1 /\ m \in Nat \ {0}
      BY <1>1, <1>2, <1>5
    <3>4. x = (m * u) + t
      BY <1>1, <1>2, <1>5
    <3>5. t * g = (SignBit * b) + (r * g)
      <4>1. CASE b = 0
        BY <4>1, <1>1, <1>2
      <4>2. CASE b = 1
        <5>1. (p + r) * g = (p * g) + (r * g)
          BY <1>1, <1>2
        <5> QED BY <4>2, <5>1, <1>1, <1>2
      <4> QED BY <4>1, <4>2, <1>5
    <3> HIDE DEF t, m, w
    <3>6. x \div m = u /\ x % m = t
      <4>1. u \in Nat
        BY <1>5
      <4> QED BY <3>3, <3>4, <4>1, DivUnique
    <3>7. w = u + (t * g)
      BY <3>2, <3>6
    <3>8. r * g \in Nat /\ SignBit * b \in Nat /\ u \in Nat
      BY <1>1, <1>2, <1>5
    <3> DEFINE rg == r * g
               hb == SignBit * b
               tg == t * g
    <3>9. tg = hb + rg /\ rg \in Nat /\ hb \in Nat
      BY <3>5, <3>8
    <3> HIDE DEF rg, hb, tg
    <3>10. u + tg = hb + (u + rg)
      BY <3>8, <3>9
    <3> QED BY <3>7, <3>10 DEF rg, hb, tg
  <2> QED BY <2>1, <2>2
<1> HIDE DEF rest, v, w
<1>9. v % 2 = b /\ v \div 2 = rest
  BY <1>5, <1>6, <1>7
<1>10. (w >= SignBit <=> b = 1) /\ w = (IF b = 1 THEN SignBit ELSE 0) + rest
  BY <1>1, <1>5, <1>7, <1>8
<1> QED BY <1>3, <1>9, <1>10 DEF v, w

-----------------------------------------------------------------------------
\* One more one-bit shift of the closed form.
LEMMA OneMore ==
  ASSUME NEW t \in ShiftTypes, NEW x \in Words, NEW c \in BOOLEAN, NEW j \in Nat
  PROVE  OneBit(t, ValAfter(t, x, j), CarryAfter(t, x, c, j), FALSE)
           = Out(ValAfter(t, x, j + 1), CarryAfter(t, x, c, j + 1))
<1> DEFINE v == ValAfter(t, x, j)
           d == CarryAfter(t, x, c, j)
<1>1. SignBit = 2^(Width - 1) /\ 2 * SignBit = WordSize /\ SignBit \in Nat /\ Width \in Nat \ {0}
  BY HalfIsPower, WidthAssumption
<1>2. j + 1 # 0 /\ (j + 1) - 1 = j
  OBVIOUS
<1>3. CASE t = "LSL"
  <2>1. v = (x * 2^j) % WordSize /\ ValAfter(t, x, j + 1) = (x * 2^(j + 1)) % WordSize
    BY <1>3 DEF ValAfter
  <2>2. CarryAfter(t, x, c, j + 1) = (j + 1 <= Width /\ BitOf(x, Width - (j + 1)))
    BY <1>2, <1>3 DEF CarryAfter
  <2> HIDE DEF v, d
  <2>3. OneBit(t, v, d, FALSE) = Out((2 * v) % WordSize, v >= SignBit)
    BY <1>1, <1>3 DEF OneBit
  <2>4. (2 * v) % WordSize = (x * 2^(j + 1)) % WordSize
        /\ (v >= SignBit <=> j + 1 <= Width /\ BitOf(x, Width - (j + 1)))
    BY <2>1, LslStep
  <2>5. v \in Int
    BY <2>1, WordIsWords, PowerTyped
  <2>6. (v >= SignBit) = (j + 1 <= Width /\ BitOf(x, Width - (j + 1)))
    BY <1>1, <2>4, <2>5, BitTyped
  <2> QED BY <2>1, <2>2, <2>3, <2>4, <2>6 DEF v, d
<1>4. CASE t = "LSR"
  <2>1. v = x \div 2^j /\ ValAfter(t, x, j + 1) = x \div 2^(j + 1)
    BY <1>4 DEF ValAfter
  <2>2. CarryAfter(t, x, c, j + 1) = (v % 2 = 1)
    BY <1>2, <1>4, <2>1 DEF CarryAfter, BitOf
  <2> HIDE DEF v, d
  <2>3. OneBit(t, v, d, FALSE) = Out(v \div 2, v % 2 = 1)
    BY <1>4 DEF OneBit
  <2>4. v \div 2 = x \div 2^(j + 1)
    BY <2>1, HalfOfRight, WordIsWords
  <2> QED BY <2>1, <2>2, <2>3, <2>4 DEF v, d
<1>5. CASE t = "ASR"
  <2> DEFINE a == ValAfter("ASR", x, j)
  <2>1. v = a /\ ValAfter(t, x, j + 1) = ValAfter("ASR", x, j + 1)
    BY <1>5
  <2>2. CarryAfter(t, x, c, j + 1) = IF j + 1 <= Width THEN BitOf(x, j) ELSE Top(x)
    BY <1>2, <1>5 DEF CarryAfter
  <2>3. /\ (IF a >= SignBit THEN SignBit ELSE 0) + (a \div 2) = ValAfter("ASR", x, j + 1)
        /\ a % 2 = 1 <=> IF j + 1 <= Width THEN BitOf(x, j) ELSE Top(x)
    BY AsrStep
  <2> HIDE DEF v, d, a
  <2>4. OneBit(t, v, d, FALSE) = Out((IF v >= SignBit THEN SignBit ELSE 0) + (v \div 2), v % 2 = 1)
    BY <1>1, <1>5 DEF OneBit
  <2>5. (v % 2 = 1) = IF j + 1 <= Width THEN BitOf(x, j) ELSE Top(x)
    BY <2>1, <2>3, BitTyped
  <2> QED BY <2>1, <2>2, <2>3, <2>4, <2>5 DEF v, d
<1>6. CASE t = "ROR"
  <2> DEFINE i == j % Width
  <2>1. i \in 0 .. Width - 1 /\ (j + 1) % Width = (i + 1) % Width
    <3> DEFINE q == j \div Width
    <3>1. i \in 0 .. Width - 1 /\ q \in Nat /\ j = (Width * q) + i
      BY <1>1, DivMod
    <3> HIDE DEF i, q
    <3>2. CASE i + 1 < Width
      <4>1. j + 1 = (Width * q) + (i + 1) /\ i + 1 \in 0 .. Width - 1
        BY <1>1, <3>1, <3>2
      <4> DEFINE n == i + 1
      <4>2. n \in 0 .. Width - 1 /\ j + 1 = (Width * q) + n /\ n = (Width * 0) + n
        BY <1>1, <3>1, <4>1
      <4> HIDE DEF n
      <4>3. (j + 1) % Width = n
        BY <1>1, <3>1, <4>2, DivUnique
      <4>4. n % Width = n
        BY <1>1, <4>2, DivUnique, 0 \in Nat
      <4> QED BY <3>1, <4>3, <4>4 DEF n
    <3>3. CASE ~(i + 1 < Width)
      <4>1. j + 1 = (Width * (q + 1)) + 0 /\ i + 1 = Width /\ 0 \in 0 .. Width - 1 /\ q + 1 \in Nat
        BY <1>1, <3>1, <3>3
      <4>2. (j + 1) % Width = 0 /\ Width % Width = 0
        BY <1>1, <4>1, DivUnique
      <4> QED BY <3>1, <4>1, <4>2
    <3> QED BY <3>2, <3>3
  <2>2. v = ror32(x, i) /\ ValAfter(t, x, j + 1) = ror32(x, (i + 1) % Width)
    BY <1>6, <2>1 DEF ValAfter
  <2>3. CarryAfter(t, x, c, j + 1) = BitOf(x, i)
    BY <1>2, <1>6 DEF CarryAfter
  <2> HIDE DEF v, d, i
  <2>4. /\ (IF v % 2 = 1 THEN SignBit ELSE 0) + (v \div 2) = ror32(x, (i + 1) % Width)
        /\ v % 2 = 1 <=> BitOf(x, i)
    BY <2>1, <2>2, RorStep
  <2>5. OneBit(t, v, d, FALSE) = Out((IF v % 2 = 1 THEN SignBit ELSE 0) + (v \div 2), v % 2 = 1)
    BY <1>1, <1>6 DEF OneBit
  <2>6. (v % 2 = 1) = BitOf(x, i)
    BY <2>4, BitTyped
  <2> QED BY <2>2, <2>3, <2>4, <2>5, <2>6 DEF v, d
<1> QED BY <1>3, <1>4, <1>5, <1>6 DEF ShiftTypes

\* No shift at all.
LEMMA NoShift ==
  ASSUME NEW t \in ShiftTypes, NEW x \in Words, NEW c
  PROVE  ValAfter(t, x, 0) = x /\ CarryAfter(t, x, c, 0) = c
<1>1. x \in Nat /\ x \in 0 .. WordSize - 1 /\ WordSize \in Nat \ {0} /\ Ones \in Nat
  BY WordIsWords, EndsTyped DEF Words
<1>2. x * 1 = x /\ x % WordSize = x /\ x \div 1 = x
  BY <1>1
<1>3. Ones - x \in Nat /\ (Ones - x) \div 1 = Ones - x /\ Ones - (Ones - x) = x
  BY <1>1, WordIsWords DEF Ones, Words
<1>4. 2^0 = 1 /\ 0 % Width = 0
  BY WidthAssumption
<1>5. CarryAfter(t, x, c, 0) = c
  BY DEF CarryAfter
<1> QED BY <1>2, <1>3, <1>4, <1>5 DEF ValAfter, ror32, ShiftTypes

\* The code's shifts by less than the width.
LEMMA WithinIs ==
  ASSUME NEW t \in ShiftTypes, NEW x \in Words, NEW c, NEW n \in 1 .. Width - 1
  PROVE  Within(t, x, n) = Out(ValAfter(t, x, n), CarryAfter(t, x, c, n))
<1>1. n # 0 /\ n <= Width /\ n % Width = n /\ (n - 1) % Width = n - 1 /\ n \in 0 .. Width
  BY WidthAssumption
<1>2. CASE t = "LSL"
  <2>1. CarryAfter(t, x, c, n) = BitOf(x, Width - n)
    BY <1>1, <1>2, BitTyped DEF CarryAfter
  <2>2. ValAfter(t, x, n) = Left(x, n)
    BY <1>2, WordIsWords DEF ValAfter, Left
  <2> QED BY <1>2, <2>1, <2>2 DEF Within
<1>3. CASE t = "LSR"
  BY <1>1, <1>3 DEF Within, ValAfter, CarryAfter, Right
<1>4. CASE t = "ASR"
  <2>1. CarryAfter(t, x, c, n) = BitOf(x, n - 1)
    BY <1>1, <1>4 DEF CarryAfter
  <2>2. ValAfter(t, x, n) = ArithmeticRight(x, n)
    BY <1>1, <1>4, AsrIs DEF ValAfter
  <2> QED BY <1>4, <2>1, <2>2 DEF Within
<1>5. CASE t = "ROR"
  BY <1>1, <1>5 DEF Within, ValAfter, CarryAfter
<1> QED BY <1>2, <1>3, <1>4, <1>5 DEF ShiftTypes

\* At the width and above it.
LEMMA BeyondIs ==
  ASSUME NEW x \in Words, NEW c, NEW n \in Nat, n >= Width
  PROVE  /\ ValAfter("LSL", x, n) = 0 /\ ValAfter("LSR", x, n) = 0
         /\ CarryAfter("LSL", x, c, n) = (n = Width /\ BitOf(x, 0))
         /\ CarryAfter("LSR", x, c, n) = (n = Width /\ Top(x))
         /\ Out(ValAfter("ASR", x, n), CarryAfter("ASR", x, c, n)) = SignFill(x)
<1>1. n # 0 /\ Width \in Nat \ {0} /\ n - 1 \in Nat
  BY WidthAssumption
<1>2. x \div 2^n = 0 /\ (x * 2^n) % WordSize = 0
  BY RightBeyond
<1>3. Ones - x \in Words /\ Ones - 0 = Ones
  BY WordIsWords DEF Ones, Words
<1>4. (Ones - x) \div 2^n = 0
  BY <1>3, RightBeyond
<1>5. CarryAfter("LSL", x, c, n) = (n = Width /\ BitOf(x, 0))
  <2>1. CASE n = Width
    BY <1>1, <2>1, BitTyped, Width - Width = 0 DEF CarryAfter
  <2>2. CASE n # Width
    <3>1. ~(n <= Width)
      BY <1>1, <2>2
    <3> QED BY <1>1, <2>2, <3>1 DEF CarryAfter
  <2> QED BY <2>1, <2>2
<1>6. BitOf(x, n - 1) = (n = Width /\ Top(x))
  <2>1. CASE n = Width
    BY <2>1, BitTyped DEF Top
  <2>2. CASE n # Width
    <3>1. Width <= n - 1 /\ x \in 0 .. 2^Width - 1
      BY <1>1, <2>2, WordIsWords
    <3>2. ~BitOf(x, n - 1)
      BY <1>1, <3>1, NoBitAbove
    <3> QED BY <2>2, <3>2, BitTyped
  <2> QED BY <2>1, <2>2
<1>7. CarryAfter("LSR", x, c, n) = (n = Width /\ Top(x))
  BY <1>1, <1>6 DEF CarryAfter
<1>8. CarryAfter("ASR", x, c, n) = Top(x)
  <2>1. CASE n = Width
    BY <1>1, <2>1 DEF CarryAfter, Top
  <2>2. CASE n # Width
    <3>1. ~(n <= Width)
      BY <1>1, <2>2
    <3> QED BY <1>1, <3>1 DEF CarryAfter
  <2> QED BY <2>1, <2>2
<1>9. ValAfter("ASR", x, n) = IF Top(x) THEN Ones ELSE 0
  BY <1>2, <1>3, <1>4 DEF ValAfter
<1> QED BY <1>2, <1>5, <1>7, <1>8, <1>9 DEF ValAfter, SignFill

\* What a behaviour of ShiftSteps may ask for.
Asked(f, t, x, n, c) ==
  /\ t \in ShiftTypes /\ x \in Words /\ c \in BOOLEAN
  /\ \/ f = "imm" /\ n \in 0 .. Width - 1
     \/ f = "reg" /\ n \in Nat
     \/ f = "rot" /\ t = "ROR" /\ n \in 0 .. (Width \div 2) - 1
     \/ f = "am2" /\ n \in 0 .. Width - 1 /\ ~c

\* A rotation by RRX takes the carry in and is one step.
IsRrx(f, t, n) == f \in {"imm", "am2"} /\ t = "ROR" /\ n = 0

\* The code's answer is the closed form after all the steps.
LEMMA AnswerIs ==
  ASSUME NEW f, NEW t, NEW x, NEW n, NEW c, Asked(f, t, x, n, c), ~IsRrx(f, t, n),
         ~(f = "am2" /\ t = "ASR" /\ n = 0)
  PROVE  LET j == Steps(f, t, n)
         IN  /\ Answer(f, t, x, n, c).val = ValAfter(t, x, j)
             /\ f # "am2" => Answer(f, t, x, n, c).c = CarryAfter(t, x, c, j)
<1> DEFINE Is(j) == Out(ValAfter(t, x, j), CarryAfter(t, x, c, j))
<1>1. t \in ShiftTypes /\ x \in Words /\ c \in BOOLEAN /\ Width \in Nat \ {0}
  BY WidthAssumption DEF Asked
<1>2. Is(0) = Out(x, c)
  BY <1>1, NoShift
<1>3. \A j \in 1 .. Width - 1 : Within(t, x, j) = Is(j)
  BY <1>1, WithinIs
<1>4. ASSUME f = "imm" PROVE Answer(f, t, x, n, c) = Is(Steps(f, t, n))
  <2>0. n \in 0 .. Width - 1
    BY <1>4 DEF Asked
  <2>1. Answer(f, t, x, n, c) = ShiftByImm(t, x, n, c)
    BY <1>4 DEF Answer
  <2>2. CASE n > 0
    <3>1. Steps(f, t, n) = n /\ n \in 1 .. Width - 1
      BY <1>4, <2>0, <2>2 DEF Steps
    <3> QED BY <1>3, <2>1, <2>2, <3>1 DEF ShiftByImm
  <2>3. CASE n = 0
    <3>1. /\ t = "LSL" => Steps(f, t, n) = 0
          /\ t \in {"LSR", "ASR"} => Steps(f, t, n) = Width
      BY <1>4, <2>3 DEF Steps
    <3>2. ~(n > 0)
      BY <2>3
    <3>3. CASE t = "LSL"
      BY <1>2, <2>1, <3>1, <3>2, <3>3 DEF ShiftByImm
    <3>4. CASE t = "LSR"
      <4>1. Is(Width) = Out(0, Top(x))
        BY <1>1, <3>4, BeyondIs, BitTyped
      <4> HIDE DEF Is
      <4> QED BY <2>1, <3>1, <3>2, <3>4, <4>1 DEF ShiftByImm
    <3>5. CASE t = "ASR"
      <4>1. Is(Width) = SignFill(x)
        BY <1>1, <3>5, BeyondIs
      <4> HIDE DEF Is
      <4> QED BY <2>1, <3>1, <3>2, <3>5, <4>1 DEF ShiftByImm
    <3> QED BY <1>1, <1>4, <2>3, <3>3, <3>4, <3>5 DEF ShiftTypes, IsRrx
  <2> QED BY <2>0, <2>2, <2>3
<1>5. ASSUME f = "reg" PROVE Answer(f, t, x, n, c) = Is(Steps(f, t, n))
  <2> DEFINE j == n % 256
             s == j % Width
  <2>1. n \in Nat /\ j \in Nat
    BY <1>5 DEF Asked
  <2>2. Answer(f, t, x, n, c) = ShiftByReg(t, x, n, c) /\ Steps(f, t, n) = j
    BY <1>5 DEF Answer, Steps
  <2>3. ShiftByReg(t, x, n, c) =
          IF j = 0 THEN Out(x, c)
          ELSE IF t = "ROR" THEN (IF s = 0 THEN Out(x, Top(x)) ELSE Within(t, x, s))
          ELSE IF j < Width THEN Within(t, x, j)
          ELSE CASE t = "LSL" -> Out(0, j = Width /\ BitOf(x, 0))
                 [] t = "LSR" -> Out(0, j = Width /\ Top(x))
                 [] t = "ASR" -> SignFill(x)
    BY DEF ShiftByReg
  <2> HIDE DEF j
  <2>4. CASE j = 0
    BY <1>2, <2>2, <2>3, <2>4
  <2>5. CASE j # 0 /\ t = "ROR"
    <3> DEFINE q == j \div Width
    <3>1. s \in 0 .. Width - 1 /\ q \in Nat /\ j = (Width * q) + s
      BY <1>1, <2>1, DivMod
    <3>2. ValAfter(t, x, j) = ror32(x, s) /\ CarryAfter(t, x, c, j) = BitOf(x, (j - 1) % Width)
      BY <2>5 DEF ValAfter, CarryAfter
    <3> HIDE DEF q, s
    <3>3. CASE s = 0
      <4>1. q # 0
        BY <1>1, <2>5, <3>1, <3>3
      <4>2. q - 1 \in Nat /\ Width - 1 \in 0 .. Width - 1
        BY <1>1, <3>1, <4>1
      <4>3. j - 1 = (Width * (q - 1)) + (Width - 1)
        <5>1. Width * (q - 1) = Width * q - Width
          BY <1>1, <3>1
        <5> QED BY <1>1, <3>1, <3>3, <5>1
      <4>4. (j - 1) % Width = Width - 1
        <5> DEFINE a == q - 1
                   b == Width - 1
        <5>1. a \in Nat /\ b \in 0 .. Width - 1 /\ j - 1 = (Width * a) + b
          BY <4>2, <4>3
        <5> HIDE DEF a, b
        <5>2. ((Width * a) + b) % Width = b
          BY <1>1, <5>1, DivUnique
        <5> QED BY <5>1, <5>2 DEF b
      <4> QED BY <2>2, <2>3, <2>5, <3>2, <3>3, <4>4 DEF Top, ror32
    <3>4. CASE s # 0
      <4> DEFINE b == s - 1
      <4>1. b \in 0 .. Width - 1 /\ j - 1 = (Width * q) + b
        BY <1>1, <3>1, <3>4
      <4>2. s \in 1 .. Width - 1
        BY <3>1, <3>4
      <4> HIDE DEF b
      <4>3. (j - 1) % Width = b
        BY <1>1, <3>1, <4>1, DivUnique
      <4>4. Within(t, x, s) = Out(ror32(x, s), BitOf(x, s - 1))
        BY <2>5 DEF Within
      <4> QED BY <2>2, <2>3, <2>5, <3>2, <3>4, <4>3, <4>4 DEF b
    <3> QED BY <3>3, <3>4
  <2>6. CASE j # 0 /\ t # "ROR" /\ j < Width
    <3>1. j \in 1 .. Width - 1
      BY <1>1, <2>1, <2>6
    <3> QED BY <1>3, <2>2, <2>3, <2>6, <3>1
  <2>7. CASE j # 0 /\ t # "ROR" /\ ~(j < Width)
    <3>1. j >= Width
      BY <1>1, <2>1, <2>7
    <3>2. CASE t = "LSL"
      <4>1. Is(j) = Out(0, j = Width /\ BitOf(x, 0))
        BY <1>1, <2>1, <3>1, <3>2, BeyondIs
      <4> HIDE DEF Is
      <4> QED BY <2>2, <2>3, <2>7, <3>2, <4>1
    <3>3. CASE t = "LSR"
      <4>1. Is(j) = Out(0, j = Width /\ Top(x))
        BY <1>1, <2>1, <3>1, <3>3, BeyondIs
      <4> HIDE DEF Is
      <4> QED BY <2>2, <2>3, <2>7, <3>3, <4>1
    <3>4. CASE t = "ASR"
      <4>1. Is(j) = SignFill(x)
        BY <1>1, <2>1, <3>1, <3>4, BeyondIs
      <4> HIDE DEF Is
      <4> QED BY <2>2, <2>3, <2>7, <3>4, <4>1
    <3> QED BY <1>1, <2>7, <3>2, <3>3, <3>4 DEF ShiftTypes
  <2> QED BY <2>4, <2>5, <2>6, <2>7
<1>6. ASSUME f = "rot" PROVE Answer(f, t, x, n, c) = Is(Steps(f, t, n))
  <2> DEFINE j == 2 * n
  <2>1. t = "ROR" /\ n \in 0 .. (Width \div 2) - 1
    BY <1>6 DEF Asked
  <2>2. Answer(f, t, x, n, c) = Immediate(x, n, c) /\ Steps(f, t, n) = j
    BY <1>6 DEF Answer, Steps
  <2>3. CASE n = 0
    BY <1>2, <2>2, <2>3 DEF Immediate
  <2>4. CASE n # 0
    <3>1. j \in 1 .. Width - 1 /\ j - 1 \in 0 .. Width - 1
      BY <1>1, <2>1, <2>4
    <3>2. Immediate(x, n, c) = Out(ror32(x, j), Top(ror32(x, j)))
      BY <2>4 DEF Immediate
    <3> HIDE DEF j
    <3>3. (j - 1) + 1 = j /\ j % Width = j
      BY <1>1, <3>1
    <3>4. BitOf(x, j - 1) <=> ror32(x, j) >= SignBit
      BY <1>1, <3>1, <3>3, RorStep
    <3>5. ror32(x, j) \in Words
      BY <1>1, <3>1, RorTyped, j \in 0 .. Width - 1
    <3>6. Top(ror32(x, j)) = BitOf(x, j - 1)
      BY <3>4, <3>5, TopIsUpper, BitTyped
    <3>7. Is(j) = Within(t, x, j) /\ Within(t, x, j) = Out(ror32(x, j), BitOf(x, j - 1))
      BY <1>3, <2>1, <3>1 DEF Within
    <3> QED BY <2>2, <3>2, <3>6, <3>7
  <2> QED BY <2>3, <2>4
<1>7. ASSUME f = "am2" PROVE Answer(f, t, x, n, c).val = ValAfter(t, x, Steps(f, t, n))
  <2>0. n \in 0 .. Width - 1
    BY <1>7 DEF Asked
  <2>1. Answer(f, t, x, n, c).val = Am2Shift(t, x, n)
    BY <1>7 DEF Answer, Out
  <2>2. CASE n > 0
    <3>1. Steps(f, t, n) = n /\ n \in 1 .. Width - 1 /\ n # 0 /\ n % Width = n
      BY <1>1, <1>7, <2>0, <2>2 DEF Steps
    <3>2. Is(n).val = ValAfter(t, x, n)
      BY DEF Out
    <3>3. Within(t, x, n).val = ValAfter(t, x, n)
      BY <1>3, <3>1, <3>2
    <3>4. Within(t, x, n).val = Am2Shift(t, x, n)
      BY <1>1, <3>1 DEF Within, Am2Shift, Out, ShiftTypes
    <3> QED BY <2>1, <3>1, <3>3, <3>4
  <2>3. CASE n = 0
    <3>1. /\ t = "LSL" => Steps(f, t, n) = 0
          /\ t \in {"LSR", "ASR"} => Steps(f, t, n) = Width
      BY <1>7, <2>3 DEF Steps
    <3>2. CASE t = "LSL"
      <4>1. ValAfter(t, x, 0) = x /\ ValAfter(t, x, 0) = (x * 2^0) % WordSize
        BY <1>1, <3>2, NoShift DEF ValAfter
      <4>2. Am2Shift(t, x, 0) = (x * 2^0) % WordSize
        BY <3>2, WordIsWords DEF Am2Shift, Left
      <4> QED BY <2>1, <2>3, <3>1, <3>2, <4>1, <4>2
    <3>3. CASE t = "LSR"
      <4>1. ValAfter(t, x, Width) = 0
        BY <1>1, <3>3, BeyondIs
      <4>2. Am2Shift(t, x, 0) = 0
        BY <3>3 DEF Am2Shift
      <4> QED BY <2>1, <2>3, <3>1, <3>3, <4>1, <4>2
    <3> QED BY <1>1, <1>7, <2>3, <3>2, <3>3 DEF ShiftTypes, IsRrx
  <2> QED BY <2>0, <2>2, <2>3
<1>8. f \in {"imm", "reg", "rot"} => Answer(f, t, x, n, c) = Is(Steps(f, t, n))
  BY <1>4, <1>5, <1>6
<1>9. \A j : Is(j).val = ValAfter(t, x, j) /\ Is(j).c = CarryAfter(t, x, c, j)
  BY DEF Out
<1>10. f \in {"imm", "reg", "rot", "am2"}
  BY DEF Asked
<1> HIDE DEF Is
<1> QED BY <1>7, <1>8, <1>9, <1>10

LEMMA StepsTyped ==
  ASSUME NEW f, NEW t, NEW x, NEW n, NEW c, Asked(f, t, x, n, c)
  PROVE  Steps(f, t, n) \in Nat
<1>1. t \in ShiftTypes /\ Width \in Nat /\ Width \div 2 \in Nat
  BY WidthAssumption DEF Asked
<1>2. CASE f = "rot"
  BY <1>1, <1>2 DEF Asked, Steps
<1>3. CASE f = "reg"
  <2>1. n \in Nat /\ n % 256 \in Nat
    BY <1>3 DEF Asked
  <2> QED BY <1>3, <2>1 DEF Steps
<1>4. CASE f \in {"imm", "am2"}
  <2>1. n \in Nat
    BY <1>1, <1>4 DEF Asked
  <2>2. CASE n > 0
    BY <1>4, <2>1, <2>2 DEF Steps
  <2>3. CASE n = 0
    BY <1>1, <1>4, <2>3 DEF Steps, ShiftTypes
  <2> QED BY <2>1, <2>2, <2>3
<1> QED BY <1>2, <1>3, <1>4 DEF Asked

RrxVal(x, c) == (IF c THEN SignBit ELSE 0) + (x \div 2)

\* The inductive invariant: some value and carry went in, the answer is the
\* code's for them, and the steps that are done have their closed form.
InStep(x, c) ==
  /\ Asked(form, type, x, amount, c) /\ out = Answer(form, type, x, amount, c) /\ todo \in Nat
  /\ IF IsRrx(form, type, amount)
     THEN (todo = 1 /\ now = Out(x, c)) \/ (todo = 0 /\ now = Out(RrxVal(x, c), x % 2 = 1))
     ELSE LET j == Steps(form, type, amount) - todo
          IN  j \in Nat /\ now = Out(ValAfter(type, x, j), CarryAfter(type, x, c, j))
StepsInv == \E x, c : InStep(x, c)

LEMMA BeginsInStep ==
  ASSUME NEW f, NEW t, NEW x, NEW n, NEW c, Asked(f, t, x, n, c), Begin(f, t, x, n, c)
  PROVE  InStep(x, c)
<1>1. Steps(f, t, n) \in Nat /\ t \in ShiftTypes /\ x \in Words
  BY StepsTyped DEF Asked
<1>2. form = f /\ type = t /\ amount = n /\ out = Answer(f, t, x, n, c)
      /\ now = Out(x, c) /\ todo = Steps(f, t, n)
  BY DEF Begin
<1>3. CASE IsRrx(f, t, n)
  <2>1. Steps(f, t, n) = 1
    BY <1>3 DEF IsRrx, Steps
  <2> QED BY <1>2, <1>3, <2>1 DEF InStep
<1>4. CASE ~IsRrx(f, t, n)
  <2>1. Steps(f, t, n) - todo = 0
    BY <1>1, <1>2
  <2>2. Out(ValAfter(t, x, 0), CarryAfter(t, x, c, 0)) = Out(x, c)
    BY <1>1, NoShift
  <2> QED BY <1>1, <1>2, <1>4, <2>1, <2>2 DEF InStep
<1> QED BY <1>3, <1>4

LEMMA StepKeeps ==
  ASSUME NEW x, NEW c, InStep(x, c), Step
  PROVE  InStep(x, c)'
<1> DEFINE rrx == form \in {"imm", "am2"} /\ amount = 0
<1>1. /\ todo > 0 /\ todo' = todo - 1 /\ now' = OneBit(type, now.val, now.c, rrx)
      /\ form' = form /\ type' = type /\ amount' = amount /\ out' = out
  BY DEF Step
<1>2. Asked(form, type, x, amount, c) /\ out = Answer(form, type, x, amount, c) /\ todo \in Nat
  BY DEF InStep
<1>3. type \in ShiftTypes /\ x \in Words /\ c \in BOOLEAN
  BY <1>2 DEF Asked
<1>4. CASE IsRrx(form, type, amount)
  <2>1. todo = 1 /\ now = Out(x, c)
    BY <1>1, <1>4 DEF InStep
  <2>2. type = "ROR" /\ rrx = TRUE
    BY <1>4 DEF IsRrx
  <2>3. OneBit(type, x, c, TRUE) = Out(RrxVal(x, c), x % 2 = 1)
    BY <2>2, HalfIsPower DEF OneBit, RrxVal
  <2>4. now.val = x /\ now.c = c
    BY <2>1 DEF Out
  <2>5. todo' = 0 /\ now' = Out(RrxVal(x, c), x % 2 = 1)
    <3>1. todo' = 0
      BY <1>1, <2>1
    <3> HIDE DEF rrx
    <3>2. now' = OneBit(type, x, c, rrx)
      BY ONLY <1>1, <2>4
    <3>3. OneBit(type, x, c, rrx) = OneBit(type, x, c, TRUE)
      BY ONLY <2>2
    <3> QED BY ONLY <3>1, <3>2, <3>3, <2>3
  <2>6. IsRrx(form', type', amount') /\ Asked(form', type', x, amount', c)
        /\ out' = Answer(form', type', x, amount', c)
    BY <1>1, <1>2, <1>4
  <2> QED BY <2>5, <2>6 DEF InStep
<1>5. CASE ~IsRrx(form, type, amount)
  <2> DEFINE s == Steps(form, type, amount)
             j == s - todo
             v == ValAfter(type, x, j)
             d == CarryAfter(type, x, c, j)
  <2>1. j \in Nat /\ now = Out(v, d)
    BY <1>5 DEF InStep
  <2>2. now.val = v /\ now.c = d
    BY <2>1 DEF Out
  <2>3. s \in Nat /\ s - (todo - 1) = j + 1
    BY <1>2, StepsTyped
  <2>4. OneBit(type, v, d, FALSE) = Out(ValAfter(type, x, j + 1), CarryAfter(type, x, c, j + 1))
    BY <1>3, <2>1, OneMore
  <2> HIDE DEF j, v, d, s
  <2>5. OneBit(type, v, d, rrx) = OneBit(type, v, d, FALSE)
    <3>1. CASE ~rrx
      <4>1. rrx = FALSE
        BY <3>1
      <4> QED BY <4>1
    <3>2. CASE type # "ROR"
      BY <1>3, <3>2 DEF OneBit, ShiftTypes
    <3> QED BY <1>5, <3>1, <3>2 DEF IsRrx
  <2>6. now' = Out(ValAfter(type', x, j + 1), CarryAfter(type', x, c, j + 1))
    BY <1>1, <2>2, <2>4, <2>5
  <2>7. Steps(form', type', amount') - todo' = j + 1 /\ todo' \in Nat /\ j + 1 \in Nat
    BY <1>1, <1>2, <2>1, <2>3 DEF s
  <2>8. ~IsRrx(form', type', amount') /\ Asked(form', type', x, amount', c)
        /\ out' = Answer(form', type', x, amount', c)
    BY <1>1, <1>2, <1>5
  <2> QED BY <2>6, <2>7, <2>8 DEF InStep
<1> QED BY <1>4, <1>5

LEMMA InStepAnswers ==
  ASSUME NEW x, NEW c, InStep(x, c)
  PROVE  ShiftIsSteps
<1> SUFFICES ASSUME todo = 0, ~(form = "am2" /\ type = "ASR" /\ amount = 0) PROVE Answered
  BY DEF ShiftIsSteps
<1>1. Asked(form, type, x, amount, c) /\ out = Answer(form, type, x, amount, c)
  BY DEF InStep
<1>2. CASE ~IsRrx(form, type, amount)
  <2> DEFINE s == Steps(form, type, amount)
  <2>1. s \in Nat /\ s - todo = s
    BY <1>1, StepsTyped
  <2>2. now = Out(ValAfter(type, x, s), CarryAfter(type, x, c, s))
    BY <1>2, <2>1 DEF InStep
  <2>3. /\ out.val = ValAfter(type, x, s)
        /\ form # "am2" => out.c = CarryAfter(type, x, c, s)
    BY <1>1, <1>2, AnswerIs
  <2> HIDE DEF s
  <2>4. now.val = ValAfter(type, x, s) /\ now.c = CarryAfter(type, x, c, s)
    BY <2>2 DEF Out
  <2> QED BY <2>3, <2>4 DEF Answered
<1>3. CASE IsRrx(form, type, amount)
  <2>1. now = Out(RrxVal(x, c), x % 2 = 1)
    BY <1>3 DEF InStep
  <2>2. now.val = RrxVal(x, c) /\ now.c = (x % 2 = 1)
    BY <2>1 DEF Out
  <2>3. x \in Nat
    BY <1>1, WordIsWords DEF Asked
  <2>4. Right(x, 1) = x \div 2 /\ BitOf(x, 0) = (x % 2 = 1)
    BY <2>3, 2^1 = 2, 2^0 = 1, x \div 1 = x DEF Right, BitOf
  <2>5. type = "ROR" /\ amount = 0 /\ ~(0 > 0)
    BY <1>3 DEF IsRrx
  <2>6. CASE form = "imm"
    <3>1. out = ShiftByImm("ROR", x, 0, c)
      BY <1>1, <2>5, <2>6 DEF Answer
    <3>2. out = Out((IF c THEN SignBit ELSE 0) + Right(x, 1), BitOf(x, 0))
      BY <3>1, <2>5, HalfIsPower DEF ShiftByImm
    <3>3. out.val = (IF c THEN SignBit ELSE 0) + Right(x, 1) /\ out.c = BitOf(x, 0)
      BY <3>2 DEF Out
    <3> QED BY <2>2, <2>4, <3>3 DEF Answered, RrxVal
  <2>7. CASE form = "am2"
    <3>1. ~c
      BY <1>1, <2>7 DEF Asked
    <3>2. out = Out(Am2Shift("ROR", x, 0), FALSE)
      BY <1>1, <2>5, <2>7 DEF Answer
    <3>3. Am2Shift("ROR", x, 0) = Right(x, 1)
      BY DEF Am2Shift
    <3>4. out.val = x \div 2
      BY <2>4, <3>2, <3>3 DEF Out
    <3>5. x \div 2 \in Nat
      BY <2>3
    <3>6. RrxVal(x, c) = x \div 2
      BY <3>1, <3>5 DEF RrxVal
    <3> QED BY <2>2, <2>7, <3>4, <3>6 DEF Answered
  <2> QED BY <1>3, <2>6, <2>7 DEF IsRrx
<1> QED BY <1>2, <1>3

\* For words of every size, every form of shift and every amount: the code's
\* value and carry are those of so many shifts by one bit.
THEOREM ShiftsAreSteps == StepsSpec => []ShiftIsSteps
<1>1. StepsInit => StepsInv
  <2> SUFFICES ASSUME StepsInit PROVE StepsInv
    OBVIOUS
  <2>1. PICK x \in Words, t \in ShiftTypes, c \in BOOLEAN :
          \/ \E n \in 0 .. Width - 1 : Begin("imm", t, x, n, c)
          \/ \E n \in Words : Begin("reg", t, x, n, c)
          \/ \E n \in 0 .. (Width \div 2) - 1 : x < 2^(Width \div 4) /\ Begin("rot", "ROR", x, n, c)
          \/ \E n \in 0 .. Width - 1 : Begin("am2", t, x, n, FALSE)
    BY DEF StepsInit
  <2>2. x \in Words /\ Words \subseteq Nat /\ "ROR" \in ShiftTypes
    BY WordIsWords DEF Words, ShiftTypes
  <2>3. ASSUME NEW n \in 0 .. Width - 1, Begin("imm", t, x, n, c) PROVE StepsInv
    <3>1. Asked("imm", t, x, n, c)
      BY <2>2 DEF Asked
    <3> QED BY <2>3, <3>1, BeginsInStep DEF StepsInv
  <2>4. ASSUME NEW n \in Words, Begin("reg", t, x, n, c) PROVE StepsInv
    <3>1. Asked("reg", t, x, n, c)
      BY <2>2 DEF Asked
    <3> QED BY <2>4, <3>1, BeginsInStep DEF StepsInv
  <2>5. ASSUME NEW n \in 0 .. (Width \div 2) - 1, Begin("rot", "ROR", x, n, c) PROVE StepsInv
    <3>1. Asked("rot", "ROR", x, n, c)
      BY <2>2 DEF Asked
    <3> QED BY <2>5, <3>1, BeginsInStep DEF StepsInv
  <2>6. ASSUME NEW n \in 0 .. Width - 1, Begin("am2", t, x, n, FALSE) PROVE StepsInv
    <3>1. Asked("am2", t, x, n, FALSE)
      BY <2>2 DEF Asked
    <3> QED BY <2>6, <3>1, BeginsInStep DEF StepsInv
  <2> QED BY <2>1, <2>3, <2>4, <2>5, <2>6
<1>2. StepsInv /\ [StepsNext]_stepVars => StepsInv'
  <2> SUFFICES ASSUME StepsInv, [StepsNext]_stepVars PROVE StepsInv'
    OBVIOUS
  <2>1. PICK x, c : InStep(x, c)
    BY DEF StepsInv
  <2>2. CASE Step
    BY <2>1, <2>2, StepKeeps DEF StepsInv
  <2>3. CASE UNCHANGED stepVars
    <3>1. InStep(x, c)'
      BY <2>1, <2>3 DEF InStep, stepVars
    <3> QED BY <3>1 DEF StepsInv
  <2> QED BY <2>2, <2>3 DEF StepsNext
<1>3. StepsInv => ShiftIsSteps
  BY InStepAnswers DEF StepsInv
<1> QED BY <1>1, <1>2, <1>3, PTL DEF StepsSpec
=============================================================================
