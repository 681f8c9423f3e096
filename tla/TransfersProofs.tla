---------------------------- MODULE TransfersProofs ----------------------------
(***************************************************************************)
(* Loads and stores, for bytes of every size, every RAM, every set of      *)
(* registers and of offsets, and any number of transfers.                  *)
(***************************************************************************)
EXTENDS LoadStore, ShifterProofs

(***************************************************************************)
(* Sizes, addresses and the bytes of a word.                               *)
(***************************************************************************)
LEMMA Sizes ==
  /\ ByteBits \in Nat \ {0} /\ Width \in Nat \ {0} /\ WordSize = W /\ W \in Nat \ {0} /\ W % 4 = 0 /\ W >= 16
  /\ Bytes(0) = 1 /\ Bytes(1) \in Nat \ {0} /\ Bytes(1) % 2 = 0 /\ Bytes(1) > 1
  /\ Bytes(2) = Times(Bytes(1), Bytes(1)) /\ Bytes(3) = Times(Bytes(2), Bytes(1))
  /\ Bytes(4) = W /\ W = Bytes(2) * Bytes(2)
  /\ Bytes(2) \in Nat \ {0} /\ Bytes(3) \in Nat \ {0}
<1> DEFINE b == 2^ByteBits
           h == 2^(ByteBits - 1)
<1>1. ByteBits \in Nat \ {0} /\ Width = 4 * ByteBits /\ ByteBits - 1 \in Nat
  BY LoadStoreAssumption
<1>2. b = 2 * h /\ h \in Nat \ {0} /\ b \in Nat \ {0}
  BY <1>1, PowerDoubles, PowerTyped, (ByteBits - 1) + 1 = ByteBits
<1>3. 2^(ByteBits + ByteBits) = b * b
  BY <1>1, PowerSum
<1>4. 2^((ByteBits + ByteBits) + ByteBits) = (b * b) * b
  BY <1>1, <1>3, PowerSum, ByteBits + ByteBits \in Nat
<1>5. 2^((ByteBits + ByteBits) + (ByteBits + ByteBits)) = (b * b) * (b * b)
  BY <1>1, <1>3, PowerSum, ByteBits + ByteBits \in Nat
<1>6. /\ ByteBits * 0 = 0 /\ ByteBits * 1 = ByteBits /\ ByteBits * 2 = ByteBits + ByteBits
      /\ ByteBits * 3 = (ByteBits + ByteBits) + ByteBits
      /\ ByteBits * 4 = (ByteBits + ByteBits) + (ByteBits + ByteBits)
      /\ Width = (ByteBits + ByteBits) + (ByteBits + ByteBits)
  BY <1>1
<1>7. /\ Bytes(0) = 1 /\ Bytes(1) = b /\ Bytes(2) = b * b /\ Bytes(3) = (b * b) * b
      /\ Bytes(4) = (b * b) * (b * b) /\ W = (b * b) * (b * b) /\ WordSize = W
  BY <1>3, <1>4, <1>5, <1>6, 2^0 = 1 DEF Bytes, W, WordSize
<1> HIDE DEF b, h
<1> DEFINE k == h * h
<1>8. k \in Nat \ {0}
  BY <1>2
<1>9. b * b = 4 * k
  BY <1>2
<1> HIDE DEF k
<1>10. k * k \in Nat \ {0}
  BY <1>8
<1>11. (b * b) * (b * b) = 16 * (k * k)
  BY <1>8, <1>9
<1>12. W = 16 * (k * k)
  BY <1>7, <1>11
<1>13. W \in Nat \ {0} /\ W % 4 = 0 /\ W >= 16
  BY <1>10, <1>12
<1>14. b * b \in Nat \ {0} /\ (b * b) * b \in Nat \ {0} /\ b % 2 = 0 /\ b > 1
  BY <1>2
<1> QED BY <1>1, <1>2, <1>7, <1>13, <1>14 DEF Times

LEMMA WordsAre == Words = 0 .. W - 1 /\ Words \subseteq Nat /\ Byte = 0 .. Bytes(1) - 1 /\ Byte \subseteq Words /\ 0 \in Byte
<1>1. Bytes(1) <= W
  <2> DEFINE b == Bytes(1)
             c == Bytes(3)
  <2>1. b \in Nat \ {0} /\ c \in Nat \ {0}
    BY Sizes
  <2>2. W = b * c
    <3>1. W = (b * b) * (b * b) /\ c = (b * b) * b
      BY Sizes DEF Times
    <3> HIDE DEF b, c
    <3> QED BY <2>1, <3>1
  <2> HIDE DEF b, c
  <2>3. b <= b * c
    BY <2>1
  <2> QED BY <2>2, <2>3 DEF b
<1> QED BY <1>1, Sizes DEF Words, Byte

\* Remainders of whole numbers.
LEMMA IntMod ==
  ASSUME NEW x \in Int, NEW m \in Nat \ {0}
  PROVE  \E q \in Int : x = (m * q) + (x % m)
<1>1. x = (m * (x \div m)) + (x % m) /\ x \div m \in Int
  OBVIOUS
<1> QED BY <1>1

LEMMA IntModUnique ==
  ASSUME NEW m \in Nat \ {0}, NEW q \in Int, NEW r \in 0 .. m - 1
  PROVE  ((m * q) + r) % m = r
OBVIOUS

LEMMA ModSum ==
  ASSUME NEW m \in Nat \ {0}, NEW x \in Int, NEW y \in Int
  PROVE  ((x % m) + y) % m = (x + y) % m
<1>1. PICK q \in Int : x = (m * q) + (x % m)
  BY IntMod
<1>2. x % m \in 0 .. m - 1
  BY ModTyped
<1> DEFINE r == x % m
           s == r + y
<1>3. r \in Int /\ s \in Int
  BY <1>2
<1> HIDE DEF r
<1>4. x + y = (m * q) + s
  BY <1>1, <1>3 DEF r
<1> HIDE DEF s
<1>5. PICK p \in Int : s = (m * p) + (s % m)
  BY <1>3, IntMod
<1>6. s % m \in 0 .. m - 1
  BY <1>3, ModTyped
<1> DEFINE t == s % m
<1> HIDE DEF t
<1>7. (m * q) + ((m * p) + t) = (m * (q + p)) + t
  BY <1>6 DEF t
<1>8. x + y = (m * (q + p)) + t
  BY <1>4, <1>5, <1>7 DEF t
<1>9. (x + y) % m = t
  BY <1>6, <1>8, IntModUnique, q + p \in Int DEF t
<1> QED BY <1>9 DEF t, s, r

\* Addresses wrap.
LEMMA Wraps ==
  /\ \A x \in Int : Wrapped(x) \in Words
  /\ \A x \in Words : Wrapped(x) = x
  /\ \A x, y \in Int : Wrapped(Wrapped(x) + y) = Wrapped(x + y)
  /\ \A x \in Words, y \in 0 .. W : Wrapped(x + y) = IF x + y < W THEN x + y ELSE (x + y) - W
<1>1. W \in Nat \ {0} /\ Words = 0 .. W - 1
  BY Sizes, WordsAre
<1>2. ASSUME NEW x \in Int PROVE Wrapped(x) \in Words
  BY <1>1, ModTyped DEF Wrapped
<1>3. ASSUME NEW x \in Words PROVE Wrapped(x) = x
  <2>1. x \in 0 .. W - 1
    BY <1>1
  <2> QED BY <1>1, <2>1 DEF Wrapped
<1>4. ASSUME NEW x \in Int, NEW y \in Int PROVE Wrapped(Wrapped(x) + y) = Wrapped(x + y)
  BY <1>1, ModSum DEF Wrapped
<1>5. ASSUME NEW x \in Words, NEW y \in 0 .. W
      PROVE  Wrapped(x + y) = IF x + y < W THEN x + y ELSE (x + y) - W
  <2>1. x \in 0 .. W - 1 /\ x \in Nat /\ y \in Nat
    BY <1>1
  <2>2. CASE x + y < W
    BY <1>1, <1>3, <2>1, <2>2
  <2>3. CASE ~(x + y < W)
    <3> DEFINE r == (x + y) - W
    <3>1. r \in 0 .. W - 1 /\ x + y = (W * 1) + r
      BY <1>1, <2>1, <2>3
    <3> HIDE DEF r
    <3>2. ((W * 1) + r) % W = r
      BY <1>1, <3>1, IntModUnique, 1 \in Int
    <3> QED BY <2>3, <3>1, <3>2 DEF Wrapped, r
  <2> QED BY <2>2, <2>3
<1> QED BY <1>2, <1>3, <1>4, <1>5

LEMMA AlignedTyped ==
  ASSUME NEW v \in Words
  PROVE  Aligned(v) \in Words /\ Aligned(Aligned(v)) = Aligned(v)
<1>1. v \in Nat /\ v \in 0 .. W - 1 /\ W \in Nat
  BY WordsAre, Sizes
<1>2. v - (v % 4) \in 0 .. W - 1 /\ (v - (v % 4)) % 4 = 0
  BY <1>1
<1> QED BY <1>1, <1>2, WordsAre DEF Aligned
(***************************************************************************)
(* The bytes of a value.                                                   *)
(***************************************************************************)
LEMMA DigitTyped ==
  ASSUME NEW v \in Nat, NEW i \in Nat
  PROVE  Digit(v, i) \in Byte /\ Digit(v, i) \in Words /\ Digit(v, i) \in Nat
<1>1. ByteBits * i \in Nat /\ 2^(ByteBits * i) \in Nat \ {0}
  BY Sizes, PowerTyped
<1>2. v \div 2^(ByteBits * i) \in Nat
  BY <1>1, DivMod
<1> DEFINE q == v \div 2^(ByteBits * i)
<1>3. q % Bytes(1) \in 0 .. Bytes(1) - 1
  <2>1. q \in Int /\ Bytes(1) \in Nat \ {0}
    BY <1>2, Sizes
  <2> HIDE DEF q
  <2> QED BY ONLY <2>1, ModTyped
<1>4. Digit(v, i) \in Byte
  BY <1>3, WordsAre DEF Digit, Right
<1> QED BY <1>4, WordsAre

LEMMA DigitIs ==
  ASSUME NEW v \in Nat
  PROVE  /\ Digit(v, 0) = Rem(v, Bytes(1))
         /\ Digit(v, 1) = Rem(Quo(v, Bytes(1)), Bytes(1))
         /\ Digit(v, 2) = Rem(Quo(v, Bytes(2)), Bytes(1))
         /\ Digit(v, 3) = Rem(Quo(v, Bytes(3)), Bytes(1))
<1>1. v \div 1 = v
  OBVIOUS
<1>2. Digit(v, 0) = Rem(v, Bytes(1))
  <2>1. 2^(ByteBits * 0) = 1
    BY Sizes DEF Bytes
  <2> QED BY <1>1, <2>1 DEF Digit, Right, Rem
<1> QED BY <1>2 DEF Digit, Right, Rem, Quo, Bytes

\* A word is its four bytes, a halfword its two, a byte its one.
LEMMA WordIsBytes ==
  ASSUME NEW v \in Words
  PROVE  v = Digit(v, 0) + Digit(v, 1) * Bytes(1) + Digit(v, 2) * Bytes(2) + Digit(v, 3) * Bytes(3)
<1> DEFINE b == Bytes(1)
           m == Bytes(2)
<1>1. b \in Nat \ {0} /\ m \in Nat \ {0} /\ m = Times(b, b) /\ Bytes(3) = Times(m, b)
  BY Sizes
<1>2. v \in 0 .. (m * m) - 1 /\ v \in Nat
  BY Sizes, WordsAre
<1>3. /\ Digit(v, 0) = v % b /\ Digit(v, 1) = (v \div b) % b
      /\ Digit(v, 2) = (v \div m) % b /\ Digit(v, 3) = (v \div Times(m, b)) % b
  BY <1>1, <1>2, DigitIs DEF Rem, Quo
<1> HIDE DEF b, m
<1>4. v = (v % b) + ((v \div b) % b) * b + ((v \div m) % b) * m
            + ((v \div Times(m, b)) % b) * Times(m, b)
  BY ONLY <1>1, <1>2, FourDigits
<1>5. Bytes(1) = b /\ Bytes(2) = m /\ Bytes(3) = Times(m, b)
  BY <1>1 DEF b, m
<1> QED BY ONLY <1>3, <1>4, <1>5

LEMMA HalfIsBytes ==
  ASSUME NEW v \in 0 .. Bytes(2) - 1
  PROVE  v = Digit(v, 0) + Digit(v, 1) * Bytes(1)
<1> DEFINE b == Bytes(1)
<1>1. b \in Nat \ {0} /\ Bytes(2) = Times(b, b) /\ v \in Nat /\ Bytes(2) \in Nat \ {0}
  BY Sizes
<1>2. Rem(v, Bytes(2)) = v
  BY <1>1 DEF Rem
<1>3. Rem(v, Times(b, b)) = Times(b, Rem(Quo(v, b), b)) + Rem(v, b)
  BY ONLY <1>1, DivDiv
<1>4. Digit(v, 0) = Rem(v, b) /\ Digit(v, 1) = Rem(Quo(v, b), b) /\ Digit(v, 0) \in Nat /\ Digit(v, 1) \in Nat
  BY <1>1, DigitIs, DigitTyped, 0 \in Nat, 1 \in Nat
<1> HIDE DEF b
<1>5. v = (b * Digit(v, 1)) + Digit(v, 0)
  BY <1>1, <1>2, <1>3, <1>4 DEF Times
<1>6. v = Digit(v, 0) + Digit(v, 1) * b
  BY ONLY <1>1, <1>4, <1>5
<1> QED BY <1>6 DEF b

LEMMA ByteIsByte ==
  ASSUME NEW v \in Byte
  PROVE  Digit(v, 0) = v
<1>1. v \in 0 .. Bytes(1) - 1 /\ v \in Nat /\ Bytes(1) \in Nat \ {0}
  BY Sizes, WordsAre
<1>2. v % Bytes(1) = v
  BY <1>1
<1> QED BY <1>1, <1>2, DigitIs DEF Rem

\* What is kept of a stored value has its bytes.
LEMMA LowIs ==
  ASSUME NEW v \in Words
  PROVE  /\ Low(v, 4) = v
         /\ Low(v, 2) \in 0 .. Bytes(2) - 1 /\ Digit(Low(v, 2), 0) = Digit(v, 0) /\ Digit(Low(v, 2), 1) = Digit(v, 1)
         /\ Low(v, 1) = Digit(v, 0) /\ Low(v, 1) \in 0 .. Bytes(1) - 1
<1> DEFINE b == Bytes(1)
           q == v \div b
           r == v % b
           d == q % b
           l == v % Bytes(2)
<1>1. b \in Nat \ {0} /\ Bytes(2) = Times(b, b) /\ v \in Nat /\ Bytes(2) \in Nat \ {0} /\ v \in 0 .. W - 1 /\ Bytes(4) = W /\ W \in Nat \ {0}
  BY Sizes, WordsAre
<1>2. q \in Nat /\ r \in 0 .. b - 1 /\ d \in 0 .. b - 1
  BY <1>1, DivMod
<1>3. l \in 0 .. Bytes(2) - 1
  <2>1. v \in Int /\ Bytes(2) \in Nat \ {0}
    BY <1>1
  <2> QED BY ONLY <2>1, ModTyped
<1>4. l = (b * d) + r
  <2>1. Rem(v, Times(b, b)) = Times(b, Rem(Quo(v, b), b)) + Rem(v, b)
    BY ONLY <1>1, DivDiv
  <2> QED BY <1>1, <2>1 DEF Rem, Quo, Times
<1>5. Digit(v, 0) = r /\ Digit(v, 1) = d
  BY <1>1, DigitIs DEF Rem, Quo
<1>6. l \in Nat
  BY <1>1, <1>3
<1>7. Digit(l, 0) = l % b /\ Digit(l, 1) = (l \div b) % b
  BY <1>6, DigitIs DEF Rem, Quo
<1>8. l % b = r /\ (l \div b) % b = d
  <2> HIDE DEF b, q, r, d, l
  <2>1. l \div b = d /\ l % b = r
    BY ONLY <1>1, <1>2, <1>4, DivUnique, d \in Nat
  <2>2. d % b = d
    BY <1>1, <1>2
  <2> QED BY <2>1, <2>2
<1>9. v % W = v
  BY <1>1
<1> QED BY <1>1, <1>2, <1>3, <1>5, <1>7, <1>8, <1>9 DEF Low

(***************************************************************************)
(* Reading and writing RAM.                                                *)
(***************************************************************************)
LEMMA RamIs ==
  /\ RamSize \in Nat \ {0} /\ RamSize <= W /\ Regs \subseteq 0 .. 14 /\ Pc \in Words /\ Offsets \subseteq Words
  /\ MaxSteps \in Nat
BY LoadStoreAssumption, Sizes

LEMMA BytesRead ==
  ASSUME NEW s \in States, NEW i \in 0 .. RamSize - 1
  PROVE  s.ram[i] \in Byte /\ s.ram[i] \in Nat /\ s.ram[i] \in Words
BY WordsAre, RamIs DEF States

LEMMA FourBelow ==
  ASSUME NEW x \in Byte, NEW y \in Byte, NEW z \in Byte, NEW u \in Byte
  PROVE  x + y * Bytes(1) + z * Bytes(2) + u * Bytes(3) \in Words
<1> DEFINE b == Bytes(1)
           m == b * b
           k == m * b
           yb == y * b
           zm == z * m
           uk == u * k
<1>1. b \in Nat \ {0} /\ x \in 0 .. b - 1 /\ y \in 0 .. b - 1 /\ z \in 0 .. b - 1 /\ u \in 0 .. b - 1
  BY Sizes, WordsAre
<1>2. m \in Nat \ {0} /\ k \in Nat \ {0} /\ Bytes(2) = m /\ Bytes(3) = k /\ W = m * m
  BY <1>1, Sizes DEF Times
<1> HIDE DEF b
<1>3. yb \in Nat /\ yb <= m - b
  BY <1>1
<1>5. m * m = k * b
  BY <1>1
<1> HIDE DEF m
<1>4. zm \in Nat /\ zm <= k - m
  <2>1. (b - 1) * m = k - m
    BY <1>1, <1>2
  <2>2. z * m <= (b - 1) * m
    BY <1>1, <1>2
  <2> QED BY <1>1, <1>2, <2>1, <2>2
<1> HIDE DEF k
<1>6. uk \in Nat /\ uk <= (k * b) - k
  <2>1. (b - 1) * k = (k * b) - k
    BY <1>1, <1>2
  <2>2. u * k <= (b - 1) * k
    BY <1>1, <1>2
  <2> QED BY <1>1, <1>2, <2>1, <2>2
<1> HIDE DEF yb, zm, uk
<1> DEFINE kb == k * b
<1>7. kb \in Nat /\ W = kb
  BY <1>1, <1>2, <1>5
<1> HIDE DEF kb
<1>8. x + yb + zm + uk \in 0 .. W - 1
  BY <1>1, <1>2, <1>3, <1>4, <1>6, <1>7 DEF kb
<1> QED BY <1>8, <1>2, WordsAre DEF yb, zm, uk, b

LEMMA GetTyped ==
  ASSUME NEW s \in States, NEW a \in Words, NEW n \in {1, 4}
  PROVE  Get(s, a, n) \in Words /\ (n = 1 => Get(s, a, n) \in Byte)
<1>1. a \in Nat /\ 0 \in Words /\ 0 \in Byte
  BY WordsAre
<1>2. CASE a + n > RamSize
  BY <1>1, <1>2, RamIs DEF Get
<1>3. CASE a + n <= RamSize /\ n = 1
  <2>1. Get(s, a, n) = s.ram[a]
    BY <1>1, <1>3, RamIs DEF Get
  <2>2. a \in 0 .. RamSize - 1
    BY <1>1, <1>3, RamIs
  <2> QED BY <2>1, <2>2, BytesRead
<1>4. CASE a + n <= RamSize /\ n = 4
  <2>1. Get(s, a, n) = s.ram[a] + s.ram[a + 1] * Bytes(1) + s.ram[a + 2] * Bytes(2) + s.ram[a + 3] * Bytes(3)
    BY <1>1, <1>4, RamIs DEF Get
  <2>2. a \in 0 .. RamSize - 1 /\ a + 1 \in 0 .. RamSize - 1 /\ a + 2 \in 0 .. RamSize - 1 /\ a + 3 \in 0 .. RamSize - 1
    BY <1>1, <1>4, RamIs
  <2>3. s.ram[a] \in Byte /\ s.ram[a + 1] \in Byte /\ s.ram[a + 2] \in Byte /\ s.ram[a + 3] \in Byte
    BY <2>2, BytesRead
  <2> QED BY <1>4, <2>1, <2>3, FourBelow
<1> QED BY <1>1, <1>2, <1>3, <1>4, RamIs

LEMMA PutIs ==
  ASSUME NEW s \in States, NEW a \in Words, NEW n \in {1, 4}, NEW v \in Words
  PROVE  /\ Put(s, a, n, v) \in States
         /\ Put(s, a, n, v).r = s.r /\ Put(s, a, n, v).npc = s.npc
<1>1. a \in Nat /\ v \in Nat /\ DOMAIN s.ram = 0 .. RamSize - 1 /\ s.ram \in [0 .. RamSize - 1 -> Byte]
  BY WordsAre DEF States
<1>2. CASE a + n > RamSize
  <2>1. Put(s, a, n, v) = s
    BY <1>2 DEF Put
  <2> QED BY <2>1
<1>3. CASE ~(a + n > RamSize)
  <2> DEFINE f == [i \in 0 .. RamSize - 1 |-> IF i \in a .. a + n - 1 THEN Digit(v, i - a) ELSE s.ram[i]]
  <2>1. Put(s, a, n, v) = [s EXCEPT !.ram = f]
    BY <1>1, <1>3 DEF Put
  <2>2. ASSUME NEW i \in 0 .. RamSize - 1 PROVE f[i] \in Byte
    <3>1. CASE i \in a .. a + n - 1
      <4>1. i - a \in Nat
        BY <1>1, <3>1
      <4> QED BY <1>1, <3>1, <4>1, DigitTyped
    <3> QED BY <1>1, <3>1, BytesRead
  <2>3. f \in [0 .. RamSize - 1 -> Byte]
    BY <2>2
  <2> HIDE DEF f
  <2>5. [s EXCEPT !.ram = f] \in States /\ [s EXCEPT !.ram = f].r = s.r /\ [s EXCEPT !.ram = f].npc = s.npc
    BY <2>3 DEF States
  <2> QED BY <2>1, <2>5
<1> QED BY <1>2, <1>3

\* What a byte of RAM is after a store.
Afterwards(s, a, n, v, i) == IF a + n <= RamSize /\ i \in a .. a + n - 1 THEN Digit(v, i - a) ELSE s.ram[i]

LEMMA PutReads ==
  ASSUME NEW s \in States, NEW a \in Words, NEW n \in {1, 4}, NEW v \in Words, NEW i \in 0 .. RamSize - 1
  PROVE  Put(s, a, n, v).ram[i] = Afterwards(s, a, n, v, i)
<1>1. a \in Nat /\ n \in Nat /\ DOMAIN s.ram = 0 .. RamSize - 1
  BY WordsAre DEF States
<1>2. CASE a + n > RamSize
  <2>1. Put(s, a, n, v) = s /\ ~(a + n <= RamSize)
    BY <1>1, <1>2, RamIs DEF Put
  <2> QED BY <2>1 DEF Afterwards
<1>3. CASE ~(a + n > RamSize)
  <2> DEFINE f == [x \in DOMAIN s.ram |-> IF x \in a .. a + n - 1 THEN Digit(v, x - a) ELSE s.ram[x]]
  <2>1. Put(s, a, n, v) = [s EXCEPT !.ram = f]
    BY <1>3 DEF Put
  <2>2. f[i] = IF i \in a .. a + n - 1 THEN Digit(v, i - a) ELSE s.ram[i]
    BY <1>1
  <2>3. a + n <= RamSize
    BY <1>1, <1>3, RamIs
  <2> HIDE DEF f
  <2>4. Put(s, a, n, v).ram = f
    BY <2>1 DEF States
  <2> QED BY <2>2, <2>3, <2>4 DEF Afterwards
<1> QED BY <1>2, <1>3

(***************************************************************************)
(* A record of a store lies in RAM while its bytes are there.              *)
(***************************************************************************)
Records == [at : Words, n : {0, 1, 2, 4}, val : Words]
Lies(ram, w) ==
  w.n > 0 => /\ w.at + w.n <= RamSize
             /\ w.val \in 0 .. Bytes(w.n) - 1
             /\ \A i \in 0 .. w.n - 1 : ram[w.at + i] = Digit(w.val, i)

\* What a store does: its records lie in RAM, as do those that it is apart from.
Stores(before, after, new) ==
  /\ \A x \in new : x \in Records /\ Lies(after, x)
  /\ \A w \in Records : Lies(before, w) /\ (\A x \in new : Apart(x, w)) => Lies(after, w)

LEMMA NothingLies == Nothing \in Records /\ \A ram : Lies(ram, Nothing)
BY WordsAre DEF Nothing, Records, Lies

LEMMA StoredIs ==
  ASSUME NEW a \in Words, NEW n \in {1, 2, 4}, NEW v \in Words
  PROVE  /\ Stored(a, n, v) \in Records
         /\ a + n <= RamSize => Stored(a, n, v) = [at |-> a, n |-> n, val |-> Low(v, n)]
         /\ a + n > RamSize => Stored(a, n, v) = Nothing
<1>1. a \in Nat /\ RamSize \in Nat
  BY WordsAre, RamIs
<1>2. Low(v, n) \in Words
  <2>1. v \in Nat /\ Bytes(n) \in Nat \ {0}
    BY Sizes, WordsAre
  <2>2. v % Bytes(n) \in Nat /\ v % Bytes(n) <= v
    <3> DEFINE m == Bytes(n)
    <3> HIDE DEF m
    <3>1. m \in Nat \ {0}
      BY <2>1 DEF m
    <3>2. v % m \in Nat /\ v % m <= v
      BY ONLY <2>1, <3>1
    <3> QED BY <3>2 DEF m
  <2> QED BY <2>2, WordsAre, Sizes DEF Low
<1>3. [at |-> a, n |-> n, val |-> Low(v, n)] \in Records
  BY <1>2 DEF Records
<1> QED BY <1>1, <1>3, NothingLies DEF Stored

LEMMA OnePut ==
  ASSUME NEW s \in States, NEW a \in Words, NEW n \in {1, 4}, NEW v \in Words
  PROVE  Stores(s.ram, Put(s, a, n, v).ram, {Stored(a, n, v)})
<1> DEFINE t == Put(s, a, n, v)
           x == Stored(a, n, v)
<1>1. a \in Nat /\ RamSize \in Nat /\ v \in Nat
  BY WordsAre, RamIs
<1>2. \A i \in 0 .. RamSize - 1 :
        t.ram[i] = IF a + n <= RamSize /\ i \in a .. a + n - 1 THEN Digit(v, i - a) ELSE s.ram[i]
  <2> TAKE i \in 0 .. RamSize - 1
  <2>1. Put(s, a, n, v).ram[i] = Afterwards(s, a, n, v, i)
    BY PutReads
  <2> QED BY <2>1 DEF Afterwards
<1>3. x \in Records
  BY StoredIs
<1>4. CASE a + n > RamSize
  <2>1. t = s /\ x = Nothing
    BY <1>4, StoredIs DEF Put
  <2> QED BY <2>1, NothingLies DEF Stores
<1>5. CASE ~(a + n > RamSize)
  <2>1. a + n <= RamSize
    BY <1>1, <1>5
  <2>2. x = [at |-> a, n |-> n, val |-> Low(v, n)]
    BY <2>1, StoredIs
  <2>3. Lies(t.ram, x)
    <3>1. Low(v, n) \in 0 .. Bytes(n) - 1
      <4>1. Low(v, 4) \in 0 .. Bytes(4) - 1
        <5>1. Low(v, 4) = v
          BY LowIs
        <5>2. Bytes(4) = W /\ v \in 0 .. W - 1
          BY Sizes, WordsAre
        <5> QED BY <5>1, <5>2
      <4>2. n = 1 => Low(v, n) \in 0 .. Bytes(n) - 1
        BY LowIs
      <4>3. CASE n = 4
        BY <4>1, <4>3
      <4>4. CASE n = 1
        BY <4>2, <4>4
      <4> QED BY <4>3, <4>4
    <3>2. ASSUME NEW i \in 0 .. n - 1 PROVE t.ram[a + i] = Digit(Low(v, n), i)
      <4>1. a + i \in 0 .. RamSize - 1 /\ a + i \in a .. a + n - 1 /\ (a + i) - a = i
        BY <1>1, <2>1
      <4>2. t.ram[a + i] = Digit(v, i)
        <5> HIDE DEF t
        <5> QED BY <1>2, <2>1, <4>1
      <4>3. Digit(Low(v, n), i) = Digit(v, i)
        <5>1. CASE n = 4
          BY <5>1, LowIs
        <5>2. CASE n = 1
          <6>1. i = 0
            BY <5>2
          <6>2. Low(v, 1) \in Byte /\ Low(v, 1) = Digit(v, 0)
            BY LowIs, DigitTyped, 0 \in Nat, <1>1
          <6> QED BY <5>2, <6>1, <6>2, ByteIsByte
        <5> QED BY <5>1, <5>2
      <4> QED BY <4>2, <4>3
    <3> HIDE DEF t, x
    <3> QED BY <2>1, <2>2, <3>1, <3>2 DEF Lies
  <2>4. ASSUME NEW w \in Records, Lies(s.ram, w), Apart(x, w)
        PROVE  Lies(t.ram, w)
    <3>1. SUFFICES ASSUME w.n > 0 PROVE Lies(t.ram, w)
      BY DEF Lies
    <3>2. w.at \in Nat /\ w.n \in 1 .. 4 /\ w.at + w.n <= RamSize
      BY <2>4, <3>1, WordsAre DEF Records, Lies
    <3>3. a + n <= w.at \/ w.at + w.n <= a
      BY <2>2, <2>4 DEF Apart
    <3>4. ASSUME NEW i \in 0 .. w.n - 1 PROVE t.ram[w.at + i] = s.ram[w.at + i]
      <4>1. w.at + i \in 0 .. RamSize - 1 /\ w.at + i \notin a .. a + n - 1
        BY <1>1, <3>2, <3>3
      <4> HIDE DEF t
      <4> QED BY <1>2, <4>1
    <3> HIDE DEF t, x
    <3> QED BY <2>4, <3>1, <3>4 DEF Lies
  <2> HIDE DEF t, x
  <2>5. Stores(s.ram, t.ram, {x})
    BY <1>3, <2>3, <2>4 DEF Stores
  <2> QED BY <2>5 DEF t, x
<1> QED BY <1>4, <1>5

\* One store after others that it is apart from.
LEMMA OneMoreStore ==
  ASSUME NEW r0, NEW r1, NEW r2, NEW S, NEW y,
         Stores(r0, r1, S), Stores(r1, r2, {y}), \A x \in S : Apart(y, x)
  PROVE  Stores(r0, r2, S \union {y})
<1>1. ASSUME NEW x \in S \union {y} PROVE x \in Records /\ Lies(r2, x)
  <2>1. CASE x = y
    BY <2>1 DEF Stores
  <2>2. CASE x \in S
    <3>1. x \in Records /\ Lies(r1, x) /\ Apart(y, x)
      BY <2>2 DEF Stores
    <3> QED BY <3>1 DEF Stores
  <2> QED BY <2>1, <2>2
<1>2. ASSUME NEW w \in Records, Lies(r0, w), \A x \in S \union {y} : Apart(x, w)
      PROVE  Lies(r2, w)
  <2>1. Lies(r1, w)
    BY <1>2 DEF Stores
  <2> QED BY <1>2, <2>1 DEF Stores
<1> QED BY <1>1, <1>2 DEF Stores

LEMMA Unstored == ASSUME NEW ram PROVE Stores(ram, ram, {})
BY DEF Stores

\* Words at addresses that differ by whole words, once around at most.
LEMMA SlotsApart ==
  ASSUME NEW a \in Words, NEW d \in 4 .. W - 4, NEW u \in Words, NEW v \in Words,
         NEW n \in {1, 4}
  PROVE  /\ Apart(Stored(Wrapped(a + d), n, u), Stored(a, n, v))
         /\ Apart(Stored(a, n, v), Stored(Wrapped(a + d), n, u))
<1> DEFINE b == Wrapped(a + d)
<1>1. a \in Nat /\ a < W /\ RamSize \in Nat /\ RamSize <= W /\ W \in Nat /\ d \in 0 .. W /\ a + d \in Int
  <2>1. W \in Nat
    BY Sizes
  <2>2. a \in 0 .. W - 1
    BY WordsAre
  <2> QED BY <2>1, <2>2, RamIs
<1>2. b = IF a + d < W THEN a + d ELSE (a + d) - W
  BY <1>1, Wraps
<1>3. b \in Words /\ b \in Nat
  BY <1>1, Wraps, WordsAre
<1>4. a + n <= b \/ b + n <= a
  BY <1>1, <1>2
<1> HIDE DEF b
<1>5. Apart(Stored(b, n, u), Stored(a, n, v)) /\ Apart(Stored(a, n, v), Stored(b, n, u))
  BY <1>1, <1>3, <1>4 DEF Stored, Nothing, Apart
<1> QED BY <1>5 DEF b

LEMMA BytesApart ==
  ASSUME NEW a \in Words, NEW u \in Words, NEW v \in Words
  PROVE  Apart(Stored(Wrapped(a + 1), 1, u), Stored(a, 1, v))
<1> DEFINE b == Wrapped(a + 1)
<1>1. a \in Nat /\ a < W /\ RamSize \in Nat /\ W \in Nat /\ W >= 16
  BY WordsAre, RamIs, Sizes
<1>2. b = IF a + 1 < W THEN a + 1 ELSE (a + 1) - W
  BY <1>1, Wraps
<1>4. b \in Nat /\ (a + 1 <= b \/ b + 1 <= a)
  BY <1>1, <1>2
<1> HIDE DEF b
<1>5. Apart(Stored(b, 1, u), Stored(a, 1, v))
  BY <1>1, <1>4 DEF Stored, Nothing, Apart
<1> QED BY <1>5 DEF b

(***************************************************************************)
(* Registers and addresses.                                                *)
(***************************************************************************)
LEMMA SourceTyped ==
  ASSUME NEW s \in States, NEW r \in All
  PROVE  Src(s, r) \in Words /\ Raw(s, r) \in Words /\ (r # 15 => r \in Regs /\ Src(s, r) = s.r[r] /\ Raw(s, r) = s.r[r])
<1>1. Pc \in Words /\ 15 \notin Regs
  BY RamIs
<1>2. Wrapped(Aligned(Pc) + 8) \in Words
  <2>1. Aligned(Pc) + 8 \in Int
    BY <1>1, AlignedTyped, WordsAre
  <2> QED BY <2>1, Wraps
<1>3. r # 15 => r \in Regs /\ s.r[r] \in Words
  BY DEF All, States
<1> QED BY <1>1, <1>2, <1>3 DEF Src, Raw

LEMMA MovedTyped ==
  ASSUME NEW base \in Words, NEW off \in Nat, NEW m
  PROVE  Moved(base, off, m) \in Words /\ Ea(base, off, m) \in Words
<1>1. base + off \in Int /\ base - off \in Int
  BY WordsAre
<1> QED BY <1>1, Wraps DEF Moved, Ea

LEMMA AtTyped ==
  ASSUME NEW s \in States, NEW rn \in All, NEW off \in Words, NEW m
  PROVE  At(s, rn, off, m) \in Words
<1>1. off \in Nat
  BY WordsAre
<1> QED BY <1>1, SourceTyped, MovedTyped DEF At

LEMMA OffsetTyped ==
  ASSUME NEW s \in States, NEW rn \in All, NEW rm \in All, NEW kind \in ShiftTypes, NEW n \in 0 .. Width - 1
  PROVE  RegOffset(s, rn, rm, kind, n) \in Words
<1> DEFINE x == Src(s, rm)
<1>1. x \in Words /\ Src(s, rn) \in Words /\ n \in Nat /\ Width \in Nat \ {0} /\ 0 \in Words
  BY SourceTyped, Sizes, WordsAre
<1>2. /\ Left(x, n) \in Words /\ Right(x, n) \in Words /\ Right(x, 1) \in Words
      /\ ror32(x, n) \in Words
  BY <1>1, LeftTyped, RightTyped, RorTyped, 1 \in Nat
<1>3. ArithmeticRight(x, (IF n = 0 THEN Width ELSE n) % Width) \in Words
  <2>1. (IF n = 0 THEN Width ELSE n) % Width \in Nat
    <3>1. (IF n = 0 THEN Width ELSE n) \in Nat
      BY <1>1
    <3> QED BY <1>1, <3>1, ModTyped
  <2> QED BY <1>1, <2>1, ArithmeticRightTyped
<1> HIDE DEF x
<1>4. Am2Shift(kind, x, n) \in Words
  BY <1>1, <1>2, <1>3 DEF Am2Shift, ShiftTypes
<1>5. Src(s, rn) + Am2Shift(kind, x, n) \in Int
  BY <1>1, <1>4, WordsAre
<1> QED BY <1>5, Wraps DEF RegOffset, x

LEMMA SetRegIs ==
  ASSUME NEW s \in States, NEW r \in Regs, NEW v \in Words
  PROVE  /\ SetReg(s, r, v) \in States
         /\ SetReg(s, r, v).ram = s.ram /\ SetReg(s, r, v).npc = s.npc
         /\ SetReg(s, r, v).r = [s.r EXCEPT ![r] = v]
         /\ SetReg(s, r, v).r[r] = v
BY DEF SetReg, States

\* A state that a handler may leave: RAM as it was found, the next PC too or aligned.
GoodPc(pc) == pc = Wrapped(Pc + 4) \/ Aligned(pc) = pc
Follows(s, t) == t \in States /\ t.ram = s.ram /\ (GoodPc(s.npc) => GoodPc(t.npc))

LEMMA SetRegFollows ==
  ASSUME NEW s \in States, NEW r \in Regs, NEW v \in Words
  PROVE  Follows(s, SetReg(s, r, v))
<1> DEFINE t == SetReg(s, r, v)
<1>1. t \in States /\ t.ram = s.ram /\ t.npc = s.npc
  BY DEF SetReg, States
<1> HIDE DEF t
<1>2. Follows(s, t)
  BY <1>1 DEF Follows
<1> QED BY <1>2 DEF t

LEMMA LoadRegIs ==
  ASSUME NEW s \in States, NEW r \in All, NEW v \in Words
  PROVE  /\ Follows(s, LoadReg(s, r, v))
         /\ r # 15 => LoadReg(s, r, v) = SetReg(s, r, v)
<1>1. CASE r = 15
  BY <1>1, AlignedTyped DEF LoadReg, States, Follows, GoodPc
<1>2. CASE r # 15
  <2>1. r \in Regs /\ LoadReg(s, r, v) = SetReg(s, r, v)
    BY <1>2 DEF All, LoadReg
  <2> QED BY <2>1, SetRegFollows
<1> QED BY <1>1, <1>2

LEMMA FollowsOn ==
  ASSUME NEW s, NEW t, NEW u, Follows(s, t), Follows(t, u)
  PROVE  Follows(s, u)
BY DEF Follows

LEMMA WriteBackIs ==
  ASSUME NEW s \in States, NEW rn \in All, NEW off \in Words, NEW m, NEW before \in States, Indexed(rn, m)
  PROVE  Follows(s, WriteBack(s, rn, off, m, before))
<1>1. CASE ~WritesBack(m)
  BY <1>1 DEF WriteBack, Follows
<1>2. CASE WritesBack(m)
  <2>1. rn # 15 /\ rn \in Regs
    BY <1>2 DEF Indexed, All
  <2>2. Moved(Src(before, rn), off, m) \in Words
    BY SourceTyped, MovedTyped, WordsAre
  <2>3. WriteBack(s, rn, off, m, before) = SetReg(s, rn, Moved(Src(before, rn), off, m))
    BY <1>2 DEF WriteBack
  <2> QED BY <2>1, <2>2, <2>3, SetRegFollows
<1> QED BY <1>1, <1>2

LEMMA LoadWithIs ==
  ASSUME NEW s \in States, NEW rd \in All, NEW rn \in All, NEW off \in Words, NEW m, Indexed(rn, m), NEW v \in Words
  PROVE  Follows(s, LoadWith(s, rd, rn, off, m, v))
<1>1. Follows(s, LoadReg(s, rd, v)) /\ LoadReg(s, rd, v) \in States
  BY LoadRegIs DEF Follows
<1>2. Follows(LoadReg(s, rd, v), LoadWith(s, rd, rn, off, m, v))
  BY <1>1, WriteBackIs DEF LoadWith
<1> QED BY <1>1, <1>2, FollowsOn

LEMMA HalfTyped ==
  ASSUME NEW s \in States, NEW a \in Words
  PROVE  GetHalf(s, a) \in 0 .. Bytes(2) - 1 /\ GetHalf(s, a) \in Words
<1> DEFINE b == Bytes(1)
           c == Wrapped(a + 1)
           x == Get(s, a, 1)
           y == Get(s, c, 1)
<1>1. c \in Words
  BY WordsAre, Wraps, a + 1 \in Int
<1>2. x \in Byte /\ y \in Byte
  BY <1>1, GetTyped
<1>3. b \in Nat \ {0} /\ Bytes(2) = b * b /\ Byte = 0 .. b - 1
  BY Sizes, WordsAre DEF Times
<1>4. GetHalf(s, a) = x + y * b
  BY DEF GetHalf
<1>5. x + y * b \in 0 .. (b * b) - 1
  <2> HIDE DEF b, c, x, y
  <2>1. (b - 1) * b = (b * b) - b /\ b * b \in Nat
    BY <1>3
  <2>2. y * b <= (b - 1) * b /\ y * b \in Nat
    BY <1>2, <1>3
  <2> QED BY <1>2, <1>3, <2>1, <2>2
<1>6. 0 .. Bytes(2) - 1 \subseteq Words
  <2>1. Bytes(2) \in Nat \ {0} /\ W = Bytes(2) * Bytes(2)
    BY Sizes
  <2>2. Bytes(2) <= Bytes(2) * Bytes(2)
    <3> DEFINE k == Bytes(2)
    <3>1. k \in Nat \ {0}
      BY <2>1
    <3> HIDE DEF k
    <3>2. k <= k * k
      BY <3>1
    <3> QED BY <3>2 DEF k
  <2>3. Bytes(2) <= W
    BY <2>1, <2>2
  <2>4. Words = 0 .. W - 1 /\ W \in Nat
    BY WordsAre, Sizes
  <2> QED BY ONLY <2>1, <2>3, <2>4
<1> QED BY <1>3, <1>4, <1>5, <1>6

\* Extension keeps the low bytes and copies the top bit.
LEMMA SignExtendIs ==
  ASSUME NEW n \in {1, 2}, NEW v \in 0 .. Bytes(n) - 1
  PROVE  /\ SignExtend(v, n) \in Words
         /\ SignExtend(v, n) % Bytes(n) = v
         /\ Top(SignExtend(v, n)) <=> v >= Bytes(n) \div 2
<1> DEFINE b == Bytes(n)
           e == SignExtend(v, n)
<1>1. PICK k \in Nat \ {0} : W = b * k /\ k >= 2
  <2>1. CASE n = 1
    <3>1. W = Bytes(2) * Bytes(2) /\ Bytes(2) = Bytes(1) * Bytes(1) /\ Bytes(3) = Bytes(2) * Bytes(1)
          /\ Bytes(1) \in Nat \ {0} /\ Bytes(2) \in Nat \ {0} /\ Bytes(3) \in Nat \ {0} /\ Bytes(1) > 1
      BY Sizes DEF Times
    <3> DEFINE x == Bytes(1)
               y == Bytes(3)
               z == Bytes(2)
    <3>2. W = z * z /\ z = x * x /\ y = z * x /\ x \in Nat \ {0} /\ y \in Nat \ {0} /\ z \in Nat \ {0} /\ x > 1
      BY <3>1
    <3> HIDE DEF x, y, z
    <3>3. W = x * y
      BY <3>2
    <3>4. y >= 2
      <4>1. z * x >= x
        BY <3>2
      <4> QED BY <3>2, <4>1
    <3> QED BY <2>1, <3>2, <3>3, <3>4 DEF x
  <2>2. CASE n = 2
    <3>1. W = Bytes(2) * Bytes(2) /\ Bytes(2) = Bytes(1) * Bytes(1) /\ Bytes(1) > 1 /\ Bytes(1) \in Nat \ {0} /\ Bytes(2) \in Nat \ {0}
      BY Sizes DEF Times
    <3> DEFINE x == Bytes(1)
               z == Bytes(2)
    <3>2. W = z * z /\ z = x * x /\ x > 1 /\ x \in Nat /\ z \in Nat \ {0}
      BY <3>1
    <3> HIDE DEF x, z
    <3>3. x * x >= x
      BY <3>2
    <3>4. z \in Nat \ {0} /\ z >= 2
      BY <3>2, <3>3
    <3>5. W = b * z
      BY <2>2, <3>2 DEF z
    <3> QED BY <3>4, <3>5
  <2> QED BY <2>1, <2>2
<1>2. b \in Nat \ {0} /\ b % 2 = 0
  <2>1. Bytes(1) \in Nat \ {0} /\ Bytes(2) \in Nat \ {0} /\ Bytes(1) % 2 = 0 /\ Bytes(2) = Bytes(1) * Bytes(1)
    BY Sizes DEF Times
  <2>2. Bytes(2) % 2 = 0
    <3> DEFINE x == Bytes(1)
               h == x \div 2
    <3>1. x \in Nat /\ x = 2 * h /\ h \in Nat
      BY <2>1
    <3> HIDE DEF x, h
    <3>2. x * x = 2 * (h * x) /\ h * x \in Nat
      BY <3>1
    <3>3. (x * x) % 2 = 0
      BY <3>2
    <3> QED BY <2>1, <3>3 DEF x
  <2> QED BY <2>1, <2>2
<1>3. Words = 0 .. W - 1 /\ W \in Nat \ {0} /\ W = 2 * SignBit /\ SignBit \in Nat
  BY WordsAre, Sizes, HalfIsPower
<1> DEFINE h == b \div 2
           w == b * (k - 1)
<1>4. v \in 0 .. b - 1
  OBVIOUS
<1>5. e = IF v >= h THEN W - b + v ELSE v
  BY DEF SignExtend
<1> HIDE DEF b, e
<1>6. b = 2 * h /\ h \in Nat
  BY <1>2
<1> HIDE DEF h
<1>7. w \in Nat /\ w >= b /\ W = w + b
  BY <1>1, <1>2
<1>8. e \in 0 .. W - 1
  <2> HIDE DEF w
  <2> QED BY <1>3, <1>4, <1>5, <1>6, <1>7
<1>9. e >= SignBit <=> v >= h
  <2> HIDE DEF w
  <2> QED BY <1>3, <1>4, <1>5, <1>6, <1>7
<1>10. e % b = v
  <2>1. CASE v >= h
    <3>1. e = (b * (k - 1)) + v
      <4> HIDE DEF w
      <4>1. e = w + v
        BY <2>1, <1>3, <1>4, <1>5, <1>6, <1>7
      <4> QED BY <4>1 DEF w
    <3>2. k - 1 \in Int
      BY <1>1
    <3> QED BY <1>2, <1>4, <3>1, <3>2, IntModUnique
  <2>2. CASE ~(v >= h)
    <3>1. e = v
      BY <2>2, <1>5
    <3> QED BY <1>2, <1>4, <3>1
  <2> QED BY <2>1, <2>2
<1>11. Top(e) <=> e >= SignBit
  BY <1>3, <1>8, TopIsUpper
<1> QED BY <1>3, <1>8, <1>9, <1>10, <1>11 DEF b, e, h

(***************************************************************************)
(* The registers of a list and their addresses.                            *)
(***************************************************************************)
\* The registers that i turns of a loop have done.
Done(list, u, i) == {j \in list : IF u THEN j < i ELSE j >= 16 - i}

LEMMA ListIs ==
  ASSUME NEW list \in SUBSET All
  PROVE  /\ list \subseteq 0 .. 15 /\ IsFiniteSet(list)
         /\ Cardinality(list) \in Nat /\ 4 * Cardinality(list) <= W
<1>1. All \subseteq 0 .. 15 /\ 15 \notin Regs
  BY RamIs DEF All
<1>2. IsFiniteSet(0 .. 14)
  BY FS_Interval, 0 \in Int, 14 \in Int
<1>3. IsFiniteSet(Regs)
  BY <1>2, RamIs, FS_Subset
<1>4. IsFiniteSet(All) /\ Cardinality(All) = Cardinality(Regs) + 1 /\ Cardinality(Regs) \in Nat
  BY <1>1, <1>3, FS_AddElement, FS_CardinalityType DEF All
<1>5. IsFiniteSet(list) /\ Cardinality(list) <= Cardinality(All) /\ Cardinality(list) \in Nat
  BY <1>4, FS_Subset, FS_CardinalityType
<1>6. 4 * (Cardinality(Regs) + 1) <= W
  BY LoadStoreAssumption, Sizes
<1> DEFINE n == Cardinality(list)
           k == Cardinality(Regs)
<1>7. n \in Nat /\ k \in Nat /\ n <= k + 1 /\ 4 * (k + 1) <= W /\ W \in Nat
  BY <1>4, <1>5, <1>6, Sizes
<1>8. 4 * n <= W
  <2> HIDE DEF n, k
  <2> QED BY ONLY <1>7
<1>9. list \subseteq 0 .. 15
  BY <1>1
<1> QED BY <1>5, <1>8, <1>9

LEMMA DoneIs ==
  ASSUME NEW list \in SUBSET All, NEW u \in BOOLEAN
  PROVE  /\ Done(list, u, 0) = {} /\ Done(list, u, 16) = list
         /\ \A i \in 0 .. 15 :
              LET q == Turn(u, i + 1)
              IN  /\ q \in 0 .. 15 /\ q \notin Done(list, u, i)
                  /\ Done(list, u, i + 1) = IF q \in list THEN Done(list, u, i) \union {q} ELSE Done(list, u, i)
<1>1. list \subseteq 0 .. 15
  BY ListIs
<1>2. Done(list, u, 0) = {} /\ Done(list, u, 16) = list
  <2>1. \A j \in list : j \in 0 .. 15 /\ ~(j < 0) /\ ~(j >= 16 - 0) /\ j < 16 /\ j >= 16 - 16
    BY <1>1
  <2>2. CASE u
    BY <2>1, <2>2 DEF Done
  <2>3. CASE ~u
    BY <2>1, <2>3 DEF Done
  <2> QED BY <2>2, <2>3
<1>3. ASSUME NEW i \in 0 .. 15
      PROVE  LET q == Turn(u, i + 1)
             IN  /\ q \in 0 .. 15 /\ q \notin Done(list, u, i)
                 /\ Done(list, u, i + 1) = IF q \in list THEN Done(list, u, i) \union {q} ELSE Done(list, u, i)
  <2> DEFINE q == Turn(u, i + 1)
  <2>1. q = IF u THEN i ELSE 15 - i
    BY DEF Turn
  <2>2. \A j \in 0 .. 15 : /\ u => (j < i + 1 <=> j < i \/ j = i)
                           /\ ~u => (j >= 16 - (i + 1) <=> j >= 16 - i \/ j = 15 - i)
    OBVIOUS
  <2>3. Done(list, u, i + 1) = Done(list, u, i) \union ({q} \cap list)
    <3>1. CASE u
      BY <1>1, <2>1, <2>2, <3>1 DEF Done
    <3>2. CASE ~u
      BY <1>1, <2>1, <2>2, <3>2 DEF Done
    <3> QED BY <3>1, <3>2
  <2>4. q \in 0 .. 15 /\ q \notin Done(list, u, i)
    BY <2>1 DEF Done
  <2> QED BY <2>3, <2>4
<1> QED BY <1>2, <1>3

LEMMA DoneUp ==
  ASSUME NEW list \in SUBSET All
  PROVE  /\ Done(list, TRUE, 0) = {} /\ Done(list, TRUE, 16) = list
         /\ \A i \in 0 .. 15 :
              /\ i \notin Done(list, TRUE, i)
              /\ Done(list, TRUE, i + 1) = IF i \in list THEN Done(list, TRUE, i) \union {i} ELSE Done(list, TRUE, i)
<1>1. list \subseteq 0 .. 15
  BY ListIs
<1>2. \A j \in list : j \in 0 .. 15 /\ ~(j < 0) /\ j < 16
  BY <1>1
<1>3. ASSUME NEW i \in 0 .. 15
      PROVE  /\ i \notin Done(list, TRUE, i)
             /\ Done(list, TRUE, i + 1) = IF i \in list THEN Done(list, TRUE, i) \union {i} ELSE Done(list, TRUE, i)
  <2>1. ~(i < i) /\ \A j \in 0 .. 15 : j < i + 1 <=> j < i \/ j = i
    OBVIOUS
  <2> QED BY <1>2, <2>1 DEF Done
<1> QED BY <1>2, <1>3 DEF Done

LEMMA BelowIs ==
  ASSUME NEW list \in SUBSET All, NEW i \in Nat
  PROVE  /\ Below(list, i) = Cardinality(Done(list, TRUE, i)) /\ Below(list, i) \in Nat
         /\ IsFiniteSet(Done(list, TRUE, i))
<1>1. {j \in list : j < i} = Done(list, TRUE, i)
  BY DEF Done
<1>2. IsFiniteSet(Done(list, TRUE, i)) /\ Cardinality(Done(list, TRUE, i)) \in Nat
  BY <1>1, ListIs, FS_Subset, FS_CardinalityType, {j \in list : j < i} \subseteq list
<1> QED BY <1>1, <1>2 DEF Below

\* How many were done tells how many are below.
LEMMA CountDone ==
  ASSUME NEW list \in SUBSET All, NEW u \in BOOLEAN, NEW i \in 0 .. 15, Turn(u, i + 1) \in list
  PROVE  LET c == Cardinality(Done(list, u, i))
             q == Turn(u, i + 1)
         IN  /\ c \in Nat /\ Cardinality(Done(list, u, i + 1)) = c + 1
             /\ u => Below(list, q) = c
             /\ ~u => Cardinality(list) = Below(list, q) + c + 1
<1> DEFINE q == Turn(u, i + 1)
           D == Done(list, u, i)
           E == Done(list, u, i + 1)
<1>1. list \subseteq 0 .. 15 /\ IsFiniteSet(list) /\ D \subseteq list /\ E \subseteq list
  BY ListIs DEF Done
<1>2. q \in 0 .. 15 /\ q \notin D /\ E = D \union {q}
  BY DoneIs
<1>3. IsFiniteSet(D) /\ Cardinality(D) \in Nat /\ IsFiniteSet(E)
  BY <1>1, FS_Subset, FS_CardinalityType
<1>4. Cardinality(E) = Cardinality(D) + 1
  <2> HIDE DEF D, E, q
  <2> QED BY <1>2, <1>3, FS_AddElement
<1>5. ASSUME u PROVE Below(list, q) = Cardinality(D)
  <2>1. q = i
    BY <1>5 DEF Turn
  <2>2. Below(list, i) = Cardinality(Done(list, TRUE, i))
    BY BelowIs, i \in Nat
  <2>3. u = TRUE
    BY <1>5
  <2> QED BY <2>1, <2>2, <2>3
<1>6. ASSUME ~u PROVE Cardinality(list) = Below(list, q) + Cardinality(D) + 1
  <2> DEFINE B == Done(list, TRUE, q)
  <2>1. q = 15 - i
    BY <1>6 DEF Turn
  <2>2. \A j \in 0 .. 15 : ~(j < q) <=> j >= 16 - (i + 1)
    BY <2>1
  <2>3. list = B \union E /\ B \cap E = {}
    BY <1>1, <1>6, <2>2 DEF Done
  <2>4. IsFiniteSet(B) /\ Below(list, q) = Cardinality(B) /\ Cardinality(B) \in Nat
    <3>1. q \in Nat
      BY <1>2
    <3> HIDE DEF q
    <3>2. IsFiniteSet(B) /\ Below(list, q) = Cardinality(B)
      BY <3>1, BelowIs
    <3> QED BY <3>2, FS_CardinalityType
  <2>5. Cardinality(list) = Cardinality(B) + Cardinality(E)
    <3> HIDE DEF B, E
    <3>1. Cardinality(B \union E) = Cardinality(B) + Cardinality(E) - Cardinality(B \cap E)
      BY <1>3, <2>4, FS_Union
    <3>2. Cardinality(B \cap E) = 0
      BY <2>3, FS_EmptySet
    <3>3. Cardinality(E) \in Nat
      BY <1>3, FS_CardinalityType
    <3> QED BY <2>3, <2>4, <3>1, <3>2, <3>3
  <2> HIDE DEF B, D, E
  <2> QED BY <1>3, <1>4, <2>4, <2>5
<1> QED BY <1>3, <1>4, <1>5, <1>6

LEMMA FirstTyped ==
  ASSUME NEW base \in Words, NEW n \in Nat, NEW m
  PROVE  First(base, n, m) \in Int
BY WordsAre DEF First

LEMMA SlotTyped ==
  ASSUME NEW s \in States, NEW rn \in Regs, NEW list \in SUBSET All, NEW m, NEW q \in Nat
  PROVE  Slot(s, rn, list, m, q) \in Words
<1>1. s.r[rn] \in Words
  BY DEF States
<1>2. First(s.r[rn], Cardinality(list), m) + 4 * Below(list, q) \in Int
  <2> DEFINE f == First(s.r[rn], Cardinality(list), m)
             b == Below(list, q)
  <2>1. f \in Int
    BY <1>1, ListIs, FirstTyped
  <2>2. b \in Nat
    BY BelowIs
  <2> HIDE DEF f, b
  <2>3. f + 4 * b \in Int
    BY <2>1, <2>2
  <2> QED BY <2>3 DEF f, b
<1> QED BY <1>2, Wraps DEF Slot

\* The words of two registers do not overlap.
LEMMA SlotsDiffer ==
  ASSUME NEW s \in States, NEW rn \in Regs, NEW list \in SUBSET All, NEW m, NEW p \in list, NEW q \in list, p < q
  PROVE  \E d \in 4 .. W - 4 : Slot(s, rn, list, m, q) = Wrapped(Slot(s, rn, list, m, p) + d)
<1> DEFINE P == Done(list, TRUE, p)
           Q == Done(list, TRUE, q)
           n == Cardinality(list)
           f == First(s.r[rn], n, m)
           b == Below(list, p)
           c == Below(list, q)
<1>1. list \subseteq 0 .. 15 /\ IsFiniteSet(list) /\ n \in Nat /\ 4 * n <= W /\ W \in Nat
  BY ListIs, Sizes
<1>2. p \in 0 .. 15 /\ q \in 0 .. 15 /\ p \in Nat /\ q \in Nat
  BY <1>1
<1>3. IsFiniteSet(P) /\ IsFiniteSet(Q) /\ b = Cardinality(P) /\ c = Cardinality(Q) /\ b \in Nat /\ c \in Nat
  BY <1>2, BelowIs
<1>4. p \notin P /\ P \union {p} \subseteq Q /\ q \notin Q /\ Q \union {q} \subseteq list
  <2>1. /\ \A j \in P : j \in list /\ j < p
        /\ \A j \in list : j < q => j \in Q
        /\ \A j \in Q : j \in list /\ j < q
    BY DEF Done
  <2>2. \A j \in 0 .. 15 : j < p => j < q
    BY <1>2
  <2>3. ~(p < p) /\ ~(q < q)
    BY <1>2
  <2> HIDE DEF P, Q
  <2> QED BY <1>1, <2>1, <2>2, <2>3
<1>5. f \in Int
  <2>1. s.r[rn] \in Words
    BY DEF States
  <2> QED BY <1>1, <2>1, FirstTyped
<1> HIDE DEF P, Q, n, f, b, c
<1>6. b + 1 <= c
  <2>1. IsFiniteSet(P \union {p}) /\ Cardinality(P \union {p}) = Cardinality(P) + 1
    BY <1>3, <1>4, FS_AddElement
  <2> QED BY <1>3, <1>4, <2>1, FS_Subset
<1>7. c + 1 <= n
  <2>1. IsFiniteSet(Q \union {q}) /\ Cardinality(Q \union {q}) = Cardinality(Q) + 1
    BY <1>3, <1>4, FS_AddElement
  <2> QED BY <1>1, <1>3, <1>4, <2>1, FS_Subset DEF n
<1>8. 4 * (c - b) \in 4 .. W - 4
  BY <1>1, <1>3, <1>6, <1>7
<1>9. Wrapped(Wrapped(f + 4 * b) + 4 * (c - b)) = Wrapped((f + 4 * b) + 4 * (c - b))
  BY <1>3, <1>5, Wraps, f + 4 * b \in Int, 4 * (c - b) \in Int
<1>10. (f + 4 * b) + 4 * (c - b) = f + 4 * c
  BY <1>3, <1>5
<1>11. Slot(s, rn, list, m, p) = Wrapped(f + 4 * b) /\ Slot(s, rn, list, m, q) = Wrapped(f + 4 * c)
  BY DEF Slot, f, b, c, n
<1> QED BY <1>8, <1>9, <1>10, <1>11

\* The word that a single transfer finds is the register's.
LEMMA SlotOfTurn ==
  ASSUME NEW s \in States, NEW rn \in Regs, NEW list \in SUBSET All, NEW m \in Modes, NEW i \in 0 .. 15,
         Turn(m.u, i + 1) \in list
  PROVE  LET c == Cardinality(Done(list, m.u, i))
             v == Moved(s.r[rn], 4 * c, m)
         IN  /\ v \in Words /\ c \in Nat
             /\ Ea(v, 4, m) = Slot(s, rn, list, m, Turn(m.u, i + 1))
             /\ Moved(v, 4, m) = Moved(s.r[rn], 4 * Cardinality(Done(list, m.u, i + 1)), m)
<1> DEFINE c == Cardinality(Done(list, m.u, i))
           q == Turn(m.u, i + 1)
           base == s.r[rn]
           v == Moved(base, 4 * c, m)
           n == Cardinality(list)
           b == Below(list, q)
<1>1. m.u \in BOOLEAN /\ m.p \in BOOLEAN /\ base \in Words /\ base \in Int
  BY WordsAre DEF Modes, States
<1>2. q \in 0 .. 15 /\ q \in Nat
  BY <1>1, DoneIs
<1>3. /\ c \in Nat /\ Cardinality(Done(list, m.u, i + 1)) = c + 1
      /\ m.u => b = c
      /\ ~m.u => n = b + c + 1
  BY <1>1, CountDone
<1>4. n \in Nat /\ b \in Nat
  BY <1>2, ListIs, BelowIs
<1>5. v \in Words
  BY <1>1, <1>3, MovedTyped, 4 * c \in Nat
<1>6. Slot(s, rn, list, m, q) = Wrapped(First(base, n, m) + 4 * b)
  BY DEF Slot
<1>7. Moved(base, 4 * Cardinality(Done(list, m.u, i + 1)), m) = Moved(base, 4 * (c + 1), m)
  BY <1>3
<1> HIDE DEF c, n, b, base, q
<1>8. CASE m.u
  <2>1. v = Wrapped(base + 4 * c)
    BY <1>8 DEF Moved
  <2>2. Moved(v, 4, m) = Wrapped(base + 4 * (c + 1)) /\ Moved(base, 4 * (c + 1), m) = Wrapped(base + 4 * (c + 1))
    <3>1. Wrapped(Wrapped(base + 4 * c) + 4) = Wrapped((base + 4 * c) + 4)
      BY <1>1, <1>3, Wraps, base + 4 * c \in Int, 4 \in Int
    <3>2. (base + 4 * c) + 4 = base + 4 * (c + 1)
      BY <1>1, <1>3
    <3> QED BY <1>8, <2>1, <3>1, <3>2 DEF Moved
  <2>3. First(base, n, m) + 4 * b = IF m.p THEN base + 4 * (c + 1) ELSE base + 4 * c
    BY <1>1, <1>3, <1>8 DEF First
  <2>4. Ea(v, 4, m) = Wrapped(First(base, n, m) + 4 * b)
    <3>1. CASE m.p
      BY <2>2, <2>3, <3>1 DEF Ea
    <3>2. CASE ~m.p
      BY <2>1, <2>3, <3>2 DEF Ea
    <3> QED BY <3>1, <3>2
  <2> QED BY <1>3, <1>5, <1>6, <1>7, <2>2, <2>4 DEF c, n, b, base, q
<1>9. CASE ~m.u
  <2>1. v = Wrapped(base - 4 * c)
    BY <1>9 DEF Moved
  <2>2. Moved(v, 4, m) = Wrapped(base - 4 * (c + 1)) /\ Moved(base, 4 * (c + 1), m) = Wrapped(base - 4 * (c + 1))
    <3>1. Wrapped(Wrapped(base - 4 * c) + (0 - 4)) = Wrapped((base - 4 * c) + (0 - 4))
      BY <1>1, <1>3, Wraps, base - 4 * c \in Int, 0 - 4 \in Int
    <3>2. (base - 4 * c) + (0 - 4) = base - 4 * (c + 1)
      BY <1>1, <1>3
    <3>3. Wrapped(base - 4 * c) + (0 - 4) = Wrapped(base - 4 * c) - 4
      BY <1>5, <2>1, WordsAre
    <3> QED BY <1>9, <2>1, <3>1, <3>2, <3>3 DEF Moved
  <2>3. First(base, n, m) + 4 * b = IF m.p THEN base - 4 * (c + 1) ELSE base - 4 * c
    BY <1>1, <1>3, <1>4, <1>9 DEF First
  <2>4. Ea(v, 4, m) = Wrapped(First(base, n, m) + 4 * b)
    <3>1. CASE m.p
      BY <2>2, <2>3, <3>1 DEF Ea
    <3>2. CASE ~m.p
      BY <2>1, <2>3, <3>2 DEF Ea
    <3> QED BY <3>1, <3>2
  <2> QED BY <1>3, <1>5, <1>6, <1>7, <2>2, <2>4 DEF c, n, b, base, q
<1> QED BY <1>1, <1>8, <1>9

(***************************************************************************)
(* Block loads.  After some of the registers, those hold the words that    *)
(* were found at their addresses.                                          *)
(***************************************************************************)
Found(s, rn, list, m, q) == Get(s, Slot(s, rn, list, m, q), 4)
Taken(s, rn, list, m, D) ==
  [r |-> [q \in Regs |-> IF q \in D THEN Found(s, rn, list, m, q) ELSE s.r[q]],
   ram |-> s.ram,
   npc |-> IF 15 \in D THEN Aligned(Found(s, rn, list, m, 15)) ELSE s.npc]

LEMMA FoundTyped ==
  ASSUME NEW s \in States, NEW rn \in Regs, NEW list \in SUBSET All, NEW m, NEW q \in Nat
  PROVE  Found(s, rn, list, m, q) \in Words
BY SlotTyped, GetTyped DEF Found

LEMMA TakenTyped ==
  ASSUME NEW s \in States, NEW rn \in Regs, NEW list \in SUBSET All, NEW m, NEW D
  PROVE  /\ Taken(s, rn, list, m, D) \in States
         /\ Follows(s, Taken(s, rn, list, m, D))
<1> DEFINE t == Taken(s, rn, list, m, D)
<1>1. \A q \in Regs : Found(s, rn, list, m, q) \in Words /\ s.r[q] \in Words
  <2> TAKE q \in Regs
  <2>1. q \in Nat
    BY RamIs
  <2> QED BY <2>1, FoundTyped DEF States
<1>2. Found(s, rn, list, m, 15) \in Words
  BY FoundTyped, 15 \in Nat
<1>3. t.r \in [Regs -> Words]
  BY <1>1 DEF Taken
<1>4. t.npc \in Words /\ (GoodPc(s.npc) => GoodPc(t.npc))
  <2>1. CASE 15 \in D
    BY <1>2, <2>1, AlignedTyped DEF Taken, GoodPc
  <2>2. CASE 15 \notin D
    BY <2>2 DEF Taken, States
  <2> QED BY <2>1, <2>2
<1>5. t.ram = s.ram /\ s.ram \in [0 .. RamSize - 1 -> Byte]
  BY DEF Taken, States
<1>6. t = [r |-> t.r, ram |-> t.ram, npc |-> t.npc]
  BY DEF Taken
<1> HIDE DEF t
<1>7. t \in States
  BY <1>3, <1>4, <1>5, <1>6 DEF States
<1> QED BY <1>4, <1>5, <1>7 DEF t, Follows

LEMMA TakenNone ==
  ASSUME NEW s \in States, NEW rn, NEW list, NEW m
  PROVE  Taken(s, rn, list, m, {}) = s
BY DEF Taken, States

LEMMA TakenOneMore ==
  ASSUME NEW s \in States, NEW rn \in Regs, NEW list \in SUBSET All, NEW m, NEW D, NEW q \in All, q \notin D
  PROVE  LoadReg(Taken(s, rn, list, m, D), q, Found(s, rn, list, m, q)) = Taken(s, rn, list, m, D \union {q})
<1> DEFINE v == Found(s, rn, list, m, q)
           t == Taken(s, rn, list, m, D)
           u == Taken(s, rn, list, m, D \union {q})
<1>1. CASE q = 15
  <2>1. \A k \in Regs : k \in D \union {q} <=> k \in D
    BY <1>1, RamIs
  <2>2. u.r = t.r
    BY <2>1 DEF Taken
  <2>3. u.npc = Aligned(v) /\ u.ram = t.ram /\ u = [r |-> u.r, ram |-> u.ram, npc |-> u.npc]
        /\ t = [r |-> t.r, ram |-> t.ram, npc |-> t.npc]
    BY <1>1 DEF Taken
  <2>4. LoadReg(t, q, v) = [t EXCEPT !.npc = Aligned(v)]
    BY <1>1 DEF LoadReg
  <2> HIDE DEF v, t, u
  <2>5. [t EXCEPT !.npc = Aligned(v)] = [r |-> t.r, ram |-> t.ram, npc |-> Aligned(v)]
    BY <2>3
  <2> QED BY <2>2, <2>3, <2>4, <2>5 DEF v, t, u
<1>2. CASE q # 15
  <2>1. q \in Regs
    BY <1>2 DEF All
  <2>2. u.r = [t.r EXCEPT ![q] = v]
    BY <2>1 DEF Taken
  <2>3. u.npc = t.npc /\ u.ram = t.ram /\ u = [r |-> u.r, ram |-> u.ram, npc |-> u.npc]
        /\ t = [r |-> t.r, ram |-> t.ram, npc |-> t.npc]
    BY <1>2 DEF Taken
  <2>4. LoadReg(t, q, v) = [t EXCEPT !.r[q] = v]
    BY <1>2 DEF LoadReg, SetReg
  <2> HIDE DEF v, t, u
  <2>5. [t EXCEPT !.r[q] = v] = [r |-> [t.r EXCEPT ![q] = v], ram |-> t.ram, npc |-> t.npc]
    BY <2>3
  <2> QED BY <2>2, <2>3, <2>4, <2>5 DEF v, t, u
<1> QED BY <1>1, <1>2

\* The loop of LDM as an equation.
LEMMA LoadingIs ==
  ASSUME NEW s \in States, NEW rn \in Regs, NEW list \in SUBSET All, NEW m
  PROVE  LET F == Loading(s, rn, list, m)
         IN  F = [i \in 0 .. 16 |->
                   IF i = 0 THEN s
                   ELSE IF i - 1 \in list THEN LoadReg(F[i - 1], i - 1, Get(s, Slot(s, rn, list, m, i - 1), 4))
                   ELSE F[i - 1]]
<1> DEFINE Turned(i, t) == IF i - 1 \in list THEN LoadReg(t, i - 1, Get(s, Slot(s, rn, list, m, i - 1), 4)) ELSE t
           step == [i \in 1 .. 16 |-> [t \in States |-> Turned(i, t)]]
           Eq(f) == f = [i \in 0 .. 16 |->
                          IF i = 0 THEN s
                          ELSE IF i - 1 \in list THEN LoadReg(f[i - 1], i - 1, Get(s, Slot(s, rn, list, m, i - 1), 4))
                          ELSE f[i - 1]]
<1>1. ASSUME NEW i \in 1 .. 16, NEW t \in States PROVE Turned(i, t) \in States
  <2>1. CASE i - 1 \in list
    <3>1. i - 1 \in All /\ i - 1 \in Nat
      BY <2>1
    <3>2. Found(s, rn, list, m, i - 1) \in Words
      BY <3>1, FoundTyped
    <3> QED BY <2>1, <3>1, <3>2, LoadRegIs DEF Found, Follows
  <2>2. CASE i - 1 \notin list
    BY <2>2
  <2> QED BY <2>1, <2>2
<1>2. step \in [1 .. 16 -> [States -> States]]
  <2> HIDE DEF Turned
  <2> QED BY <1>1
<1>3. PICK f \in [0 .. 16 -> States] : Stepped(f, 16, s, step)
  <2> HIDE DEF step
  <2> QED BY <1>2, RecursionIn, 16 \in Nat
<1>4. \A n \in 0 .. 16 : f[n] = IF n = 0 THEN s ELSE step[n][f[n - 1]]
  <2> HIDE DEF step
  <2> QED BY <1>3 DEF Stepped
<1>5. ASSUME NEW n \in 0 .. 16 PROVE f[n] = IF n = 0 THEN s ELSE Turned(n, f[n - 1])
  <2>1. CASE n = 0
    BY <1>4, <2>1
  <2>2. CASE n # 0
    <3>1. n \in 1 .. 16 /\ n - 1 \in 0 .. 16
      BY <2>2
    <3>2. f[n - 1] \in States
      BY <3>1
    <3>3. step[n][f[n - 1]] = Turned(n, f[n - 1])
      <4> HIDE DEF Turned
      <4> QED BY <3>1, <3>2
    <3> HIDE DEF step, Turned
    <3> QED BY <1>4, <2>2, <3>3
  <2> QED BY <2>1, <2>2
<1>6. Eq(f)
  <2> DEFINE g == [i \in 0 .. 16 |-> IF i = 0 THEN s ELSE Turned(i, f[i - 1])]
  <2>1. f = g
    <3> HIDE DEF Turned
    <3> QED BY <1>5
  <2> QED BY <2>1
<1>7. \E h : Eq(h)
  <2> HIDE DEF Eq
  <2> QED BY <1>6
<1>8. Eq(CHOOSE h : Eq(h))
  <2> HIDE DEF Eq
  <2> QED BY <1>7
<1> QED BY <1>8 DEF Loading

LEMMA LoadingTakes ==
  ASSUME NEW s \in States, NEW rn \in Regs, NEW list \in SUBSET All, NEW m
  PROVE  Loading(s, rn, list, m)[16] = Taken(s, rn, list, m, list)
<1> DEFINE F == Loading(s, rn, list, m)
           P(i) == F[i] = Taken(s, rn, list, m, Done(list, TRUE, i))
           T == {i \in 0 .. 16 : P(i)}
<1>1. F = [i \in 0 .. 16 |->
            IF i = 0 THEN s
            ELSE IF i - 1 \in list THEN LoadReg(F[i - 1], i - 1, Get(s, Slot(s, rn, list, m, i - 1), 4))
            ELSE F[i - 1]]
  BY LoadingIs
<1> HIDE DEF F
<1>2. 0 \in T
  <2>1. F[0] = s
    BY <1>1
  <2>2. Done(list, TRUE, 0) = {}
    BY DoneUp
  <2>3. F[0] = Taken(s, rn, list, m, Done(list, TRUE, 0))
    BY <2>1, <2>2, TakenNone
  <2>4. P(0)
    BY <2>3
  <2> HIDE DEF P
  <2> QED BY <2>4
<1>3. ASSUME NEW i \in 0 .. 15, i \in T PROVE i + 1 \in T
  <2> DEFINE D == Done(list, TRUE, i)
             E == Done(list, TRUE, i + 1)
             t == Taken(s, rn, list, m, D)
  <2>1. i + 1 \in 0 .. 16 /\ i + 1 # 0 /\ (i + 1) - 1 = i
    OBVIOUS
  <2>2. F[i + 1] = IF i \in list THEN LoadReg(F[i], i, Found(s, rn, list, m, i)) ELSE F[i]
    BY <1>1, <2>1 DEF Found
  <2>3. F[i] = t
    BY <1>3
  <2>4. i \notin D /\ E = IF i \in list THEN D \union {i} ELSE D
    BY DoneUp
  <2>5. F[i + 1] = Taken(s, rn, list, m, E)
    <3>1. CASE i \in list
      <4>1. LoadReg(t, i, Found(s, rn, list, m, i)) = Taken(s, rn, list, m, D \union {i})
        <5>1. i \in All /\ i \notin D
          BY <2>4, <3>1
        <5> HIDE DEF D
        <5> QED BY <5>1, TakenOneMore
      <4> QED BY <2>2, <2>3, <2>4, <3>1, <4>1
    <3>2. CASE i \notin list
      BY <2>2, <2>3, <2>4, <3>2
    <3> QED BY <3>1, <3>2
  <2>6. P(i + 1)
    BY <2>5
  <2> HIDE DEF P
  <2> QED BY <2>1, <2>6
<1>4. 0 .. 16 \subseteq T
  <2> HIDE DEF T
  <2> QED BY <1>2, <1>3, InductionUpTo, 16 \in Nat
<1>5. F[16] = Taken(s, rn, list, m, Done(list, TRUE, 16))
  <2>1. 16 \in T
    <3> HIDE DEF T
    <3> QED BY <1>4, 16 \in 0 .. 16
  <2>2. P(16)
    <3> HIDE DEF P
    <3> QED BY <2>1
  <2> QED BY <2>2
<1> QED BY <1>5, DoneUp DEF F

LEMMA BlockBaseTyped ==
  ASSUME NEW s \in States, NEW rn \in Regs, NEW list \in SUBSET All, NEW m
  PROVE  BlockBase(s, rn, list, m) \in Words
<1>1. s.r[rn] \in Words /\ 4 * Cardinality(list) \in Nat
  BY ListIs DEF States
<1> QED BY <1>1, MovedTyped DEF BlockBase

LEMMA LdmFollows ==
  ASSUME NEW s \in States, NEW rn \in Regs, NEW list \in SUBSET All, NEW m
  PROVE  Follows(s, Ldm(s, rn, list, m))
<1> DEFINE t == Taken(s, rn, list, m, list)
           b == BlockBase(s, rn, list, m)
<1>1. Ldm(s, rn, list, m) = IF m.w THEN SetReg(t, rn, b) ELSE t
  BY LoadingTakes DEF Ldm, BlockWriteBack
<1>2. t \in States /\ Follows(s, t)
  BY TakenTyped
<1>3. Follows(t, SetReg(t, rn, b))
  BY <1>2, BlockBaseTyped, SetRegFollows
<1> HIDE DEF t, b
<1> QED BY <1>1, <1>2, <1>3, FollowsOn

(***************************************************************************)
(* Block stores.  After some of the registers, the words at their          *)
(* addresses hold them and the rest of RAM is as it was.                   *)
(***************************************************************************)
Covers(s, rn, list, m, j, x) ==
  LET a == Slot(s, rn, list, m, j) IN a + 4 <= RamSize /\ x \in a .. a + 3
Written(s, rn, list, m, ram, D) ==
  \A x \in 0 .. RamSize - 1 :
    /\ \A j \in D : Covers(s, rn, list, m, j, x) => ram[x] = Digit(Raw(s, j), x - Slot(s, rn, list, m, j))
    /\ (\A j \in D : ~Covers(s, rn, list, m, j, x)) => ram[x] = s.ram[x]
StoredFor(s, rn, list, m, D) == {Stored(Slot(s, rn, list, m, i), 4, Raw(s, i)) : i \in D}

LEMMA SlotsDisjoint ==
  ASSUME NEW s \in States, NEW rn \in Regs, NEW list \in SUBSET All, NEW m, NEW p \in list, NEW q \in list, p # q
  PROVE  /\ \A x \in Nat : ~(Covers(s, rn, list, m, p, x) /\ Covers(s, rn, list, m, q, x))
         /\ Apart(Stored(Slot(s, rn, list, m, p), 4, Raw(s, p)), Stored(Slot(s, rn, list, m, q), 4, Raw(s, q)))
<1> DEFINE Goal(i, j) ==
             /\ \A x \in Nat : ~(Covers(s, rn, list, m, i, x) /\ Covers(s, rn, list, m, j, x))
             /\ Apart(Stored(Slot(s, rn, list, m, i), 4, Raw(s, i)), Stored(Slot(s, rn, list, m, j), 4, Raw(s, j)))
             /\ Apart(Stored(Slot(s, rn, list, m, j), 4, Raw(s, j)), Stored(Slot(s, rn, list, m, i), 4, Raw(s, i)))
<1>1. ASSUME NEW i \in list, NEW j \in list, i < j PROVE Goal(i, j)
  <2> DEFINE a == Slot(s, rn, list, m, i)
             b == Slot(s, rn, list, m, j)
  <2>1. PICK d \in 4 .. W - 4 : b = Wrapped(a + d)
    BY <1>1, SlotsDiffer
  <2>2. a \in Words /\ b \in Words /\ Raw(s, i) \in Words /\ Raw(s, j) \in Words
    BY ListIs, SlotTyped, SourceTyped
  <2>3. /\ Apart(Stored(b, 4, Raw(s, j)), Stored(a, 4, Raw(s, i)))
        /\ Apart(Stored(a, 4, Raw(s, i)), Stored(b, 4, Raw(s, j)))
    <3> HIDE DEF a, b
    <3> QED BY <2>1, <2>2, SlotsApart
  <2>4. \A x \in Nat : ~((a + 4 <= RamSize /\ x \in a .. a + 3) /\ (b + 4 <= RamSize /\ x \in b .. b + 3))
    <3> HIDE DEF a, b
    <3>1. b = IF a + d < W THEN a + d ELSE (a + d) - W
      <4>1. d \in 0 .. W
        BY Sizes
      <4> QED BY <2>1, <2>2, <4>1, Wraps
    <3>2. a \in 0 .. W - 1 /\ W \in Nat
      BY <2>2, WordsAre, Sizes
    <3>3. a + 4 <= b \/ b + 4 <= a
      BY <3>1, <3>2
    <3>4. a \in Nat /\ b \in Nat
      BY <2>2, WordsAre
    <3> QED BY <3>3, <3>4
  <2> QED BY <2>3, <2>4 DEF Covers
<1>2. p \in Nat /\ q \in Nat
  BY ListIs
<1>3. CASE p < q
  <2>1. Goal(p, q)
    <3> HIDE DEF Goal
    <3> QED BY <1>1, <1>3
  <2> QED BY <2>1
<1>4. CASE q < p
  <2>1. Goal(q, p)
    <3> HIDE DEF Goal
    <3> QED BY <1>1, <1>4
  <2> QED BY <2>1
<1> QED BY <1>2, <1>3, <1>4

LEMMA WrittenNone ==
  ASSUME NEW s, NEW rn, NEW list, NEW m
  PROVE  Written(s, rn, list, m, s.ram, {})
BY DEF Written

LEMMA WrittenOneMore ==
  ASSUME NEW s \in States, NEW rn \in Regs, NEW list \in SUBSET All, NEW m, NEW D \in SUBSET list, NEW q \in list \ D,
         NEW t \in States, Written(s, rn, list, m, t.ram, D)
  PROVE  Written(s, rn, list, m, Put(t, Slot(s, rn, list, m, q), 4, Raw(s, q)).ram, D \union {q})
<1> DEFINE a == Slot(s, rn, list, m, q)
           ram == Put(t, a, 4, Raw(s, q)).ram
           Here(x) == a + 4 <= RamSize /\ x \in a .. a + 3
<1>1. a \in Words /\ Raw(s, q) \in Words /\ a \in Nat
  <2>1. q \in All /\ q \in Nat
    BY ListIs
  <2> QED BY <2>1, SlotTyped, SourceTyped, WordsAre
<1>2. \A x \in 0 .. RamSize - 1 : ram[x] = IF Here(x) THEN Digit(Raw(s, q), x - a) ELSE t.ram[x]
  <2> TAKE x \in 0 .. RamSize - 1
  <2>1. ram[x] = Afterwards(t, a, 4, Raw(s, q), x)
    <3> HIDE DEF a
    <3> QED BY <1>1, PutReads, 4 \in {1, 4}
  <2>2. a + 4 - 1 = a + 3
    BY <1>1
  <2> HIDE DEF ram, a
  <2> QED BY <2>1, <2>2 DEF Afterwards
<1>3. \A x : Covers(s, rn, list, m, q, x) <=> Here(x)
  BY DEF Covers
<1> HIDE DEF Here, ram
<1>4. ASSUME NEW x \in 0 .. RamSize - 1, NEW j \in D \union {q}, Covers(s, rn, list, m, j, x)
      PROVE  ram[x] = Digit(Raw(s, j), x - Slot(s, rn, list, m, j))
  <2>1. CASE j = q
    BY <1>2, <1>3, <1>4, <2>1
  <2>2. CASE j \in D
    <3>1. j \in list /\ j # q /\ x \in Nat
      BY <2>2, RamIs
    <3>2. ~Covers(s, rn, list, m, q, x)
      BY <1>4, <3>1, SlotsDisjoint
    <3> QED BY <1>2, <1>3, <1>4, <2>2, <3>2 DEF Written
  <2> QED BY <2>1, <2>2
<1>5. ASSUME NEW x \in 0 .. RamSize - 1, \A j \in D \union {q} : ~Covers(s, rn, list, m, j, x)
      PROVE  ram[x] = s.ram[x]
  BY <1>2, <1>3, <1>5 DEF Written
<1>6. Written(s, rn, list, m, ram, D \union {q})
  BY <1>4, <1>5 DEF Written
<1> QED BY <1>6 DEF ram

\* It says what RAM holds.
LEMMA WrittenOnce ==
  ASSUME NEW s, NEW rn, NEW list, NEW m, NEW D,
         NEW f \in [0 .. RamSize - 1 -> Byte], NEW g \in [0 .. RamSize - 1 -> Byte],
         Written(s, rn, list, m, f, D), Written(s, rn, list, m, g, D)
  PROVE  f = g
<1>1. ASSUME NEW x \in 0 .. RamSize - 1 PROVE f[x] = g[x]
  BY DEF Written
<1>2. f = [x \in 0 .. RamSize - 1 |-> f[x]] /\ g = [x \in 0 .. RamSize - 1 |-> g[x]]
  OBVIOUS
<1> QED BY ONLY <1>1, <1>2

\* The loop of STM as an equation.
LEMMA StoringIs ==
  ASSUME NEW s \in States, NEW rn \in Regs, NEW list \in SUBSET All, NEW m
  PROVE  LET F == Storing(s, rn, list, m)
         IN  F = [i \in 0 .. 16 |->
                   IF i = 0 THEN s
                   ELSE IF i - 1 \in list THEN Put(F[i - 1], Slot(s, rn, list, m, i - 1), 4, Raw(s, i - 1))
                   ELSE F[i - 1]]
<1> DEFINE Turned(i, t) == IF i - 1 \in list THEN Put(t, Slot(s, rn, list, m, i - 1), 4, Raw(s, i - 1)) ELSE t
           step == [i \in 1 .. 16 |-> [t \in States |-> Turned(i, t)]]
           Eq(f) == f = [i \in 0 .. 16 |->
                          IF i = 0 THEN s
                          ELSE IF i - 1 \in list THEN Put(f[i - 1], Slot(s, rn, list, m, i - 1), 4, Raw(s, i - 1))
                          ELSE f[i - 1]]
<1>1. ASSUME NEW i \in 1 .. 16, NEW t \in States PROVE Turned(i, t) \in States
  <2>1. CASE i - 1 \in list
    <3>1. i - 1 \in All /\ i - 1 \in Nat
      BY <2>1
    <3>2. Slot(s, rn, list, m, i - 1) \in Words /\ Raw(s, i - 1) \in Words
      BY <3>1, SlotTyped, SourceTyped
    <3> QED BY <2>1, <3>2, PutIs
  <2>2. CASE i - 1 \notin list
    BY <2>2
  <2> QED BY <2>1, <2>2
<1>2. step \in [1 .. 16 -> [States -> States]]
  <2> HIDE DEF Turned
  <2> QED BY <1>1
<1>3. PICK f \in [0 .. 16 -> States] : Stepped(f, 16, s, step)
  <2> HIDE DEF step
  <2> QED BY <1>2, RecursionIn, 16 \in Nat
<1>4. \A n \in 0 .. 16 : f[n] = IF n = 0 THEN s ELSE step[n][f[n - 1]]
  <2> HIDE DEF step
  <2> QED BY <1>3 DEF Stepped
<1>5. ASSUME NEW n \in 0 .. 16 PROVE f[n] = IF n = 0 THEN s ELSE Turned(n, f[n - 1])
  <2>1. CASE n = 0
    BY <1>4, <2>1
  <2>2. CASE n # 0
    <3>1. n \in 1 .. 16 /\ n - 1 \in 0 .. 16
      BY <2>2
    <3>2. f[n - 1] \in States
      BY <3>1
    <3>3. step[n][f[n - 1]] = Turned(n, f[n - 1])
      <4> HIDE DEF Turned
      <4> QED BY <3>1, <3>2
    <3> HIDE DEF step, Turned
    <3> QED BY <1>4, <2>2, <3>3
  <2> QED BY <2>1, <2>2
<1>6. Eq(f)
  <2> DEFINE g == [i \in 0 .. 16 |-> IF i = 0 THEN s ELSE Turned(i, f[i - 1])]
  <2>1. f = g
    <3> HIDE DEF Turned
    <3> QED BY <1>5
  <2> QED BY <2>1
<1>7. \E h : Eq(h)
  <2> HIDE DEF Eq
  <2> QED BY <1>6
<1>8. Eq(CHOOSE h : Eq(h))
  <2> HIDE DEF Eq
  <2> QED BY <1>7
<1> QED BY <1>8 DEF Storing

\* A store: registers and next PC as they were, in RAM the new records.
Saves(s, t, new) ==
  t \in States /\ t.r = s.r /\ t.npc = s.npc /\ Stores(s.ram, t.ram, new)

LEMMA PutSaves ==
  ASSUME NEW s \in States, NEW a \in Words, NEW n \in {1, 4}, NEW v \in Words
  PROVE  Saves(s, Put(s, a, n, v), {Stored(a, n, v)})
<1> DEFINE t == Put(s, a, n, v)
<1>1. t \in States /\ t.r = s.r /\ t.npc = s.npc
  <2>1. t \in States
    BY PutIs
  <2>2. t.r = s.r
    BY DEF Put, States
  <2>3. t.npc = s.npc
    BY DEF Put, States
  <2> QED BY <2>1, <2>2, <2>3
<1>2. Stores(s.ram, t.ram, {Stored(a, n, v)})
  BY OnePut
<1> HIDE DEF t
<1>3. Saves(s, t, {Stored(a, n, v)})
  BY <1>1, <1>2 DEF Saves
<1> QED BY <1>3 DEF t

LEMMA SavesOneMore ==
  ASSUME NEW s, NEW t, NEW S, Saves(s, t, S), NEW a \in Words, NEW n \in {1, 4}, NEW v \in Words,
         \A x \in S : Apart(Stored(a, n, v), x)
  PROVE  Saves(s, Put(t, a, n, v), S \union {Stored(a, n, v)})
<1> DEFINE u == Put(t, a, n, v)
           y == Stored(a, n, v)
<1>1. t \in States /\ t.r = s.r /\ t.npc = s.npc /\ Stores(s.ram, t.ram, S)
  BY DEF Saves
<1>2. Saves(t, u, {y})
  BY <1>1, PutSaves
<1> HIDE DEF u, y
<1>3. u \in States /\ u.r = t.r /\ u.npc = t.npc /\ Stores(t.ram, u.ram, {y})
  BY <1>2 DEF Saves
<1>4. \A x \in S : Apart(y, x)
  BY DEF y
<1>5. Stores(s.ram, u.ram, S \union {y})
  BY <1>1, <1>3, <1>4, OneMoreStore
<1>6. Saves(s, u, S \union {y})
  BY <1>1, <1>3, <1>5 DEF Saves
<1> QED BY <1>6 DEF u, y

LEMMA StoringSaves ==
  ASSUME NEW s \in States, NEW rn \in Regs, NEW list \in SUBSET All, NEW m
  PROVE  /\ Saves(s, Storing(s, rn, list, m)[16], StoredFor(s, rn, list, m, list))
         /\ Written(s, rn, list, m, Storing(s, rn, list, m)[16].ram, list)
<1> DEFINE F == Storing(s, rn, list, m)
           Good(t, D) == Saves(s, t, StoredFor(s, rn, list, m, D)) /\ Written(s, rn, list, m, t.ram, D)
           P(i) == Good(F[i], Done(list, TRUE, i))
           T == {i \in 0 .. 16 : P(i)}
<1>1. F = [i \in 0 .. 16 |->
            IF i = 0 THEN s
            ELSE IF i - 1 \in list THEN Put(F[i - 1], Slot(s, rn, list, m, i - 1), 4, Raw(s, i - 1))
            ELSE F[i - 1]]
  BY StoringIs
<1> HIDE DEF F
<1>2. P(0)
  <2>1. F[0] = s /\ Done(list, TRUE, 0) = {}
    <3>1. F[0] = s
      BY <1>1
    <3> QED BY <3>1, DoneUp
  <2>2. StoredFor(s, rn, list, m, {}) = {}
    BY DEF StoredFor
  <2>3. Good(s, {})
    BY <2>2, Unstored, WrittenNone DEF Saves
  <2> HIDE DEF Good
  <2> QED BY <2>1, <2>3
<1>3. ASSUME NEW i \in 0 .. 15, P(i) PROVE P(i + 1)
  <2> DEFINE D == Done(list, TRUE, i)
             E == Done(list, TRUE, i + 1)
             t == F[i]
             a == Slot(s, rn, list, m, i)
             v == Raw(s, i)
  <2>1. i + 1 \in 0 .. 16 /\ i + 1 # 0 /\ (i + 1) - 1 = i
    OBVIOUS
  <2>2. F[i + 1] = IF i \in list THEN Put(t, a, 4, v) ELSE t
    BY <1>1, <2>1
  <2>3. i \notin D /\ E = IF i \in list THEN D \union {i} ELSE D
    BY DoneUp
  <2>4. Good(t, D)
    BY <1>3
  <2>5. CASE i \in list
    <3>1. i \in list \ D /\ D \in SUBSET list /\ i \in All /\ i \in Nat
      BY <2>3, <2>5 DEF Done
    <3>2. a \in Words /\ v \in Words
      BY <3>1, SlotTyped, SourceTyped
    <3>3. \A x \in StoredFor(s, rn, list, m, D) : Apart(Stored(a, 4, v), x)
      <4> TAKE x \in StoredFor(s, rn, list, m, D)
      <4>1. PICK j \in D : x = Stored(Slot(s, rn, list, m, j), 4, Raw(s, j))
        BY DEF StoredFor
      <4>2. j \in list /\ i # j
        BY <3>1
      <4> QED BY <2>5, <4>1, <4>2, SlotsDisjoint
    <3>4. StoredFor(s, rn, list, m, D \union {i}) = StoredFor(s, rn, list, m, D) \union {Stored(a, 4, v)}
      BY DEF StoredFor
    <3>5. Saves(s, Put(t, a, 4, v), StoredFor(s, rn, list, m, D) \union {Stored(a, 4, v)})
      <4> HIDE DEF t, a, v, D
      <4> QED BY <2>4, <3>2, <3>3, SavesOneMore
    <3>6. Written(s, rn, list, m, Put(t, a, 4, v).ram, D \union {i})
      <4>1. t \in States /\ Written(s, rn, list, m, t.ram, D)
        BY <2>4 DEF Saves
      <4> HIDE DEF t, D
      <4> QED BY <3>1, <4>1, WrittenOneMore
    <3>7. Good(Put(t, a, 4, v), D \union {i})
      BY <3>4, <3>5, <3>6
    <3>8. F[i + 1] = Put(t, a, 4, v) /\ E = D \union {i}
      BY <2>2, <2>3, <2>5
    <3> HIDE DEF Good, t, a, v, D
    <3> QED BY <3>7, <3>8
  <2>6. CASE i \notin list
    <3>1. F[i + 1] = t /\ E = D
      BY <2>2, <2>3, <2>6
    <3> HIDE DEF Good, t, D
    <3> QED BY <2>4, <3>1
  <2> QED BY <2>5, <2>6
<1>4. P(16)
  <2> HIDE DEF P
  <2>1. 0 \in T /\ \A n \in 0 .. 15 : n \in T => n + 1 \in T
    BY <1>2, <1>3
  <2>2. 0 .. 16 \subseteq T
    <3> HIDE DEF T
    <3> QED BY <2>1, InductionUpTo, 16 \in Nat
  <2> QED BY <2>2, 16 \in 0 .. 16
<1>5. Done(list, TRUE, 16) = list
  BY DoneUp
<1> QED BY <1>4, <1>5 DEF F

(***************************************************************************)
(* What each store does.                                                   *)
(***************************************************************************)
\* A store that then writes a base or a destination.
SavesThen(s, t, new) == t \in States /\ (GoodPc(s.npc) => GoodPc(t.npc)) /\ Stores(s.ram, t.ram, new)

LEMMA SavesFollows ==
  ASSUME NEW s, NEW t, NEW u, NEW new, Saves(s, t, new), Follows(t, u)
  PROVE  SavesThen(s, u, new)
BY DEF Saves, Follows, SavesThen

LEMMA SavesAlone ==
  ASSUME NEW s, NEW t, NEW new, Saves(s, t, new)
  PROVE  SavesThen(s, t, new)
BY DEF Saves, SavesThen

LEMMA StmSaves ==
  ASSUME NEW s \in States, NEW rn \in Regs, NEW list \in SUBSET All, NEW m
  PROVE  SavesThen(s, Stm(s, rn, list, m), StoredFor(s, rn, list, m, list))
<1> DEFINE t == Storing(s, rn, list, m)[16]
           b == BlockBase(s, rn, list, m)
<1>1. Saves(s, t, StoredFor(s, rn, list, m, list))
  BY StoringSaves
<1>2. Stm(s, rn, list, m) = IF m.w THEN SetReg(t, rn, b) ELSE t
  BY DEF Stm, BlockWriteBack
<1>3. b \in Words
  BY BlockBaseTyped
<1> HIDE DEF t, b
<1>4. t \in States
  BY <1>1 DEF Saves
<1>5. Follows(t, SetReg(t, rn, b))
  BY <1>3, <1>4, SetRegFollows
<1> QED BY <1>1, <1>2, <1>5, SavesFollows, SavesAlone

LEMMA StrSaves ==
  ASSUME NEW s \in States, NEW rd \in All, NEW rn \in All, NEW off \in Words, NEW m, Indexed(rn, m), NEW n \in {1, 4}
  PROVE  SavesThen(s, WriteBack(Put(s, At(s, rn, off, m), n, Raw(s, rd)), rn, off, m, s),
                   {Stored(At(s, rn, off, m), n, Raw(s, rd))})
<1> DEFINE a == At(s, rn, off, m)
           v == Raw(s, rd)
           t == Put(s, a, n, v)
<1>1. a \in Words /\ v \in Words
  BY AtTyped, SourceTyped
<1> HIDE DEF a, v
<1>2. Saves(s, t, {Stored(a, n, v)})
  BY <1>1, PutSaves
<1> HIDE DEF t
<1>3. t \in States
  BY <1>2 DEF Saves
<1>4. Follows(t, WriteBack(t, rn, off, m, s))
  BY <1>3, WriteBackIs
<1> QED BY <1>2, <1>4, SavesFollows DEF t, a, v

LEMMA PutHalfSaves ==
  ASSUME NEW s \in States, NEW a \in Words, NEW v \in Words
  PROVE  Saves(s, PutHalf(s, a, v), StoredHalf(a, v))
<1> DEFINE c == Wrapped(a + 1)
           v0 == Digit(v, 0)
           v1 == Digit(v, 1)
           x == Stored(a, 1, v0)
           y == Stored(c, 1, v1)
           t == Put(s, a, 1, v0)
           u == Put(t, c, 1, v1)
           h == Stored(a, 2, v)
<1>1. a \in Nat /\ a < W /\ v \in Nat /\ RamSize \in Nat /\ RamSize <= W /\ W \in Nat /\ W >= 16
  BY WordsAre, RamIs, Sizes
<1>2. c \in Words /\ v0 \in Words /\ v1 \in Words /\ v0 \in Byte /\ v1 \in Byte
  BY <1>1, Wraps, DigitTyped, 0 \in Nat, 1 \in Nat, a + 1 \in Int
<1>3. Saves(s, t, {x})
  BY <1>2, PutSaves, 1 \in {1, 4}
<1>4. Apart(y, x)
  BY <1>2, BytesApart
<1>5. Saves(s, u, {x} \union {y})
  <2> HIDE DEF t, v0, v1, c
  <2> QED BY <1>2, <1>3, <1>4, SavesOneMore, 1 \in {1, 4}
<1>6. PutHalf(s, a, v) = u
  BY DEF PutHalf
<1>7. CASE ~(a + 2 <= RamSize)
  <2>1. StoredHalf(a, v) = {x, y}
    BY <1>7 DEF StoredHalf
  <2>2. {x} \union {y} = {x, y}
    OBVIOUS
  <2> HIDE DEF x, y, u
  <2> QED BY <1>5, <1>6, <2>1, <2>2
<1>8. CASE a + 2 <= RamSize
  <2>1. StoredHalf(a, v) = {h} /\ h = [at |-> a, n |-> 2, val |-> Low(v, 2)] /\ h \in Records
    BY <1>1, <1>8, StoredIs DEF StoredHalf
  <2>2. c = a + 1
    BY <1>1, <1>8, Wraps, 1 \in 0 .. W
  <2>3. a + 1 <= RamSize /\ c + 1 <= RamSize
    BY <1>1, <1>8, <2>2
  <2>4. x = [at |-> a, n |-> 1, val |-> Low(v0, 1)] /\ y = [at |-> a + 1, n |-> 1, val |-> Low(v1, 1)]
    BY <1>2, <2>2, <2>3, StoredIs
  <2>5. Low(v0, 1) = v0 /\ Low(v1, 1) = v1 /\ Digit(v0, 0) = v0 /\ Digit(v1, 0) = v1
    BY <1>2, LowIs, ByteIsByte
  <2>6. u \in States /\ u.r = s.r /\ u.npc = s.npc /\ Stores(s.ram, u.ram, {x, y})
    <3>1. {x} \union {y} = {x, y}
      OBVIOUS
    <3> HIDE DEF u, x, y
    <3> QED BY <1>5, <3>1 DEF Saves
  <2> HIDE DEF u
  <2>7. u.ram[a] = v0 /\ u.ram[a + 1] = v1
    <3>1. Lies(u.ram, x) /\ Lies(u.ram, y)
      BY <2>6 DEF Stores
    <3>2. x.n = 1 /\ y.n = 1 /\ x.at = a /\ y.at = a + 1 /\ x.val = v0 /\ y.val = v1
      BY <2>4, <2>5
    <3> HIDE DEF x, y
    <3>3. u.ram[a + 0] = Digit(v0, 0) /\ u.ram[(a + 1) + 0] = Digit(v1, 0)
      BY <3>1, <3>2 DEF Lies
    <3> QED BY <1>1, <2>5, <3>3, a + 0 = a, (a + 1) + 0 = a + 1
  <2>8. Lies(u.ram, h)
    <3>1. Low(v, 2) \in 0 .. Bytes(2) - 1 /\ Digit(Low(v, 2), 0) = v0 /\ Digit(Low(v, 2), 1) = v1
      BY LowIs
    <3>2. \A i \in 0 .. 1 : i = 0 \/ i = 1
      OBVIOUS
    <3>3. \A i \in 0 .. 1 : u.ram[a + i] = Digit(Low(v, 2), i)
      BY <1>1, <2>7, <3>1, <3>2, a + 0 = a
    <3>4. h.n = 2 /\ h.at = a /\ h.val = Low(v, 2)
      BY <2>1
    <3> HIDE DEF h
    <3> QED BY <1>8, <3>1, <3>3, <3>4 DEF Lies
  <2>9. ASSUME NEW w \in Records, Lies(s.ram, w), Apart(h, w)
        PROVE  Lies(u.ram, w)
    <3>1. w.at \in Nat /\ w.n \in Nat
      BY WordsAre DEF Records
    <3>2. h.at = a /\ h.n = 2 /\ x.at = a /\ x.n = 1 /\ y.at = a + 1 /\ y.n = 1
      BY <2>1, <2>4
    <3>3. Apart(x, w) /\ Apart(y, w)
      <4> HIDE DEF x, y, h
      <4> QED BY <1>1, <2>9, <3>1, <3>2 DEF Apart
    <3> HIDE DEF x, y, h
    <3> QED BY <2>6, <2>9, <3>3 DEF Stores
  <2>10. Stores(s.ram, u.ram, {h})
    <3> HIDE DEF h
    <3> QED BY <2>1, <2>8, <2>9 DEF Stores
  <2>11. Saves(s, u, {h})
    BY <2>6, <2>10 DEF Saves
  <2> HIDE DEF h
  <2> QED BY <1>6, <2>1, <2>11 DEF u
<1> QED BY <1>7, <1>8

LEMMA StrhSaves ==
  ASSUME NEW s \in States, NEW rd \in All, NEW rn \in All, NEW off \in Words, NEW m, Indexed(rn, m)
  PROVE  SavesThen(s, Strh(s, rd, rn, off, m), StoredHalf(At(s, rn, off, m), Raw(s, rd)))
<1> DEFINE a == At(s, rn, off, m)
           v == Raw(s, rd)
           t == PutHalf(s, a, v)
<1>1. a \in Words /\ v \in Words
  BY AtTyped, SourceTyped
<1> HIDE DEF a, v
<1>2. Saves(s, t, StoredHalf(a, v))
  BY <1>1, PutHalfSaves
<1> HIDE DEF t
<1>3. t \in States
  BY <1>2 DEF Saves
<1>4. Follows(t, WriteBack(t, rn, off, m, s))
  BY <1>3, WriteBackIs
<1> QED BY <1>2, <1>4, SavesFollows DEF t, a, v, Strh

LEMMA StrdSaves ==
  ASSUME NEW s \in States, NEW rd \in Regs, rd + 1 \in Regs, NEW rn \in All, NEW off \in Words, NEW m, Indexed(rn, m)
  PROVE  LET a == At(s, rn, off, m)
         IN  SavesThen(s, Strd(s, rd, rn, off, m),
                       {Stored(a, 4, Raw(s, rd)), Stored(Wrapped(a + 4), 4, Raw(s, rd + 1))})
<1> DEFINE a == At(s, rn, off, m)
           c == Wrapped(a + 4)
           v == Raw(s, rd)
           w == Raw(s, rd + 1)
           t == Put(s, a, 4, v)
           u == Put(t, c, 4, w)
           x == Stored(a, 4, v)
           y == Stored(c, 4, w)
<1>1. a \in Words /\ v \in Words /\ w \in Words
  BY AtTyped, SourceTyped DEF All
<1>2. Strd(s, rd, rn, off, m) = WriteBack(u, rn, off, m, s)
  BY DEF Strd
<1> HIDE DEF a, v, w
<1>3. c \in Words /\ Apart(y, x)
  <2>1. a + 4 \in Int /\ 4 \in 4 .. W - 4
    BY <1>1, WordsAre, Sizes
  <2> QED BY <1>1, <2>1, Wraps, SlotsApart, 4 \in {1, 4}
<1>4. Saves(s, t, {x})
  BY <1>1, PutSaves, 4 \in {1, 4}
<1>5. Saves(s, u, {x} \union {y})
  <2> HIDE DEF t, c
  <2> QED BY <1>1, <1>3, <1>4, SavesOneMore, 4 \in {1, 4}
<1> HIDE DEF u
<1>6. u \in States
  BY <1>5 DEF Saves
<1>7. Follows(u, WriteBack(u, rn, off, m, s))
  BY <1>6, WriteBackIs
<1>8. {x} \union {y} = {x, y}
  OBVIOUS
<1>9. SavesThen(s, WriteBack(u, rn, off, m, s), {x, y})
  <2> HIDE DEF x, y
  <2> QED BY <1>5, <1>7, <1>8, SavesFollows
<1> QED BY <1>2, <1>9 DEF a, v, w

LEMMA SwapSaves ==
  ASSUME NEW s \in States, NEW rd \in Regs, NEW rn \in Regs, NEW rm \in Regs, NEW n \in {1, 4}
  PROVE  SavesThen(s, SetReg(Put(s, s.r[rn], n, s.r[rm]), rd, Get(s, s.r[rn], n)), {Stored(s.r[rn], n, s.r[rm])})
<1> DEFINE a == s.r[rn]
           v == s.r[rm]
           g == Get(s, a, n)
           t == Put(s, a, n, v)
<1>1. a \in Words /\ v \in Words
  BY DEF States
<1> HIDE DEF a, v
<1>2. g \in Words
  BY <1>1, GetTyped
<1>3. Saves(s, t, {Stored(a, n, v)})
  BY <1>1, PutSaves
<1> HIDE DEF t, g
<1>4. t \in States
  BY <1>3 DEF Saves
<1>5. Follows(t, SetReg(t, rd, g))
  BY <1>2, <1>4, SetRegFollows
<1> QED BY <1>3, <1>5, SavesFollows DEF a, v, t, g

(***************************************************************************)
(* What each load does.                                                    *)
(***************************************************************************)
LEMMA ImmFollows ==
  ASSUME NEW s \in States, NEW rd \in All, NEW rn \in All, NEW off \in Words, NEW m, Indexed(rn, m)
  PROVE  /\ Follows(s, LdrImm(s, rd, rn, off, m)) /\ Follows(s, LdrbImm(s, rd, rn, off, m))
         /\ Follows(s, Ldrh(s, rd, rn, off, m)) /\ Follows(s, Ldrsb(s, rd, rn, off, m))
         /\ Follows(s, Ldrsh(s, rd, rn, off, m))
<1> DEFINE a == At(s, rn, off, m)
<1>1. a \in Words
  BY AtTyped
<1>2. Get(s, a, 4) \in Words /\ Get(s, a, 1) \in Words /\ Get(s, a, 1) \in Byte /\ GetHalf(s, a) \in Words
  BY <1>1, GetTyped, HalfTyped, 1 \in {1, 4}, 4 \in {1, 4}
<1>3. SignExtend(Get(s, a, 1), 1) \in Words
  <2>1. Get(s, a, 1) \in 0 .. Bytes(1) - 1
    BY <1>2, WordsAre
  <2> QED BY <2>1, SignExtendIs, 1 \in {1, 2}
<1>4. SignExtend(GetHalf(s, a), 2) \in Words
  <2>1. GetHalf(s, a) \in 0 .. Bytes(2) - 1
    BY <1>1, HalfTyped
  <2> QED BY <2>1, SignExtendIs, 2 \in {1, 2}
<1> QED BY <1>2, <1>3, <1>4, LoadWithIs DEF LdrImm, LdrbImm, Ldrh, Ldrsb, Ldrsh

LEMMA LdrdFollows ==
  ASSUME NEW s \in States, NEW rd \in Regs, rd + 1 \in Regs, NEW rn \in All, NEW off \in Words, NEW m, Indexed(rn, m)
  PROVE  Follows(s, Ldrd(s, rd, rn, off, m))
<1> DEFINE a == At(s, rn, off, m)
           v == Get(s, a, 4)
           w == Get(s, Wrapped(a + 4), 4)
           t == SetReg(s, rd, v)
           u == SetReg(t, rd + 1, w)
<1>1. a \in Words
  BY AtTyped
<1>2. Wrapped(a + 4) \in Words
  BY <1>1, Wraps, WordsAre, a + 4 \in Int
<1>3. v \in Words /\ w \in Words
  BY <1>1, <1>2, GetTyped, 4 \in {1, 4}
<1>4. Ldrd(s, rd, rn, off, m) = WriteBack(u, rn, off, m, s)
  BY DEF Ldrd
<1> HIDE DEF v, w
<1>5. Follows(s, t) /\ t \in States
  BY <1>3, SetRegFollows DEF Follows
<1> HIDE DEF t
<1>6. Follows(t, u) /\ u \in States
  BY <1>3, <1>5, SetRegFollows DEF Follows
<1> HIDE DEF u
<1>7. Follows(u, WriteBack(u, rn, off, m, s))
  BY <1>6, WriteBackIs
<1>8. Follows(s, u)
  BY <1>5, <1>6, FollowsOn
<1> QED BY <1>4, <1>7, <1>8, FollowsOn

LEMMA LiteralFollows ==
  ASSUME NEW s \in States, NEW rd \in All, NEW off \in Words, NEW u \in BOOLEAN
  PROVE  Follows(s, LdrLiteral(s, rd, off, u))
<1> DEFINE base == Aligned(Src(s, 15))
           a == Wrapped(IF u THEN base + off ELSE base - off)
<1>1. base \in Words
  BY SourceTyped, AlignedTyped DEF All
<1>2. (IF u THEN base + off ELSE base - off) \in Int
  BY <1>1, WordsAre
<1>3. a \in Words
  BY <1>2, Wraps
<1>4. LdrLiteral(s, rd, off, u) = LoadReg(s, rd, Get(s, a, 4))
  BY DEF LdrLiteral
<1> HIDE DEF a
<1>5. Get(s, a, 4) \in Words
  BY <1>3, GetTyped, 4 \in {1, 4}
<1> QED BY <1>4, <1>5, LoadRegIs

LEMMA OffsetFollows ==
  ASSUME NEW s \in States, NEW rd \in All, NEW rn \in All, NEW rm \in All, NEW kind \in ShiftTypes,
         NEW n \in 0 .. Width - 1
  PROVE  /\ Follows(s, LdrReg(s, rd, rn, rm, kind, n))
         /\ rd # 15 => Follows(s, LdrbReg(s, rd, rn, rm, kind, n))
<1> DEFINE a == RegOffset(s, rn, rm, kind, n)
<1>1. a \in Words
  BY OffsetTyped
<1> HIDE DEF a
<1>2. Get(s, a, 4) \in Words /\ Get(s, a, 1) \in Words
  BY <1>1, GetTyped, 1 \in {1, 4}, 4 \in {1, 4}
<1>3. Follows(s, LoadReg(s, rd, Get(s, a, 4)))
  BY <1>2, LoadRegIs
<1>4. rd # 15 => Follows(s, SetReg(s, rd, Get(s, a, 1)))
  BY <1>2, SetRegFollows DEF All
<1> QED BY <1>3, <1>4 DEF a, LdrReg, LdrbReg

LEMMA PopFollows ==
  ASSUME NEW s \in States, NEW sp \in Regs
  PROVE  Follows(s, PopPc(s, sp))
<1> DEFINE v == Get(s, s.r[sp], 4)
           w == Wrapped(s.r[sp] + 4)
           t == LoadReg(s, 15, v)
<1>1. s.r[sp] \in Words
  BY DEF States
<1>2. v \in Words /\ w \in Words
  <2>1. s.r[sp] + 4 \in Int
    BY <1>1, WordsAre
  <2> QED BY <1>1, <2>1, GetTyped, Wraps, 4 \in {1, 4}
<1>3. PopPc(s, sp) = SetReg(t, sp, w)
  BY DEF PopPc
<1> HIDE DEF v, w
<1>4. Follows(s, t) /\ t \in States
  BY <1>2, LoadRegIs DEF Follows, All
<1> HIDE DEF t
<1>5. Follows(t, SetReg(t, sp, w))
  BY <1>2, <1>4, SetRegFollows
<1> QED BY <1>3, <1>4, <1>5, FollowsOn

(***************************************************************************)
(* The inductive invariant: what was stored lies in RAM.                   *)
(***************************************************************************)
LsIInv == LsTypeOK /\ Lies(st.ram, wrote)

LEMMA NowIs ==
  ASSUME LsIInv
  PROVE  /\ Now \in States /\ Now.ram = st.ram /\ Now.r = st.r /\ GoodPc(Now.npc)
         /\ \A r \in All : Src(st, r) \in Words
<1>1. st \in States
  BY DEF LsIInv, LsTypeOK
<1>2. Wrapped(Pc + 4) \in Words
  <2>1. Pc + 4 \in Int
    BY RamIs, WordsAre
  <2> QED BY <2>1, Wraps
<1>3. Now \in States /\ Now.ram = st.ram /\ Now.r = st.r /\ Now.npc = Wrapped(Pc + 4)
  BY <1>1, <1>2 DEF Now, States
<1> QED BY <1>1, <1>3, SourceTyped DEF GoodPc

LEMMA LoadKeeps ==
  ASSUME LsIInv, NEW t, Follows(Now, t), Load(t)
  PROVE  st' \in States /\ GoodPc(st'.npc) /\ wrote' \in Records /\ Lies(st'.ram, wrote')
<1>1. st' = t /\ wrote' = wrote
  BY DEF Load
<1>2. wrote \in Records /\ Lies(st.ram, wrote)
  BY DEF LsIInv, LsTypeOK, Records
<1>3. t \in States /\ GoodPc(t.npc) /\ t.ram = st.ram
  BY NowIs DEF Follows
<1> QED BY <1>1, <1>2, <1>3

LEMMA StoreKeeps ==
  ASSUME LsIInv, NEW t, NEW new, SavesThen(Now, t, new), Store(t, new)
  PROVE  st' \in States /\ GoodPc(st'.npc) /\ wrote' \in Records /\ Lies(st'.ram, wrote')
<1>1. wrote \in Records /\ Lies(st.ram, wrote)
  BY DEF LsIInv, LsTypeOK, Records
<1>2. t \in States /\ GoodPc(t.npc) /\ Stores(st.ram, t.ram, new)
  BY NowIs DEF SavesThen
<1>3. st' = t
  BY DEF Store
<1>4. CASE wrote' \in new
  BY <1>2, <1>3, <1>4 DEF Stores
<1>5. CASE (\A x \in new : Apart(x, wrote)) /\ wrote' = wrote
  BY <1>1, <1>2, <1>3, <1>5 DEF Stores
<1> QED BY <1>4, <1>5 DEF Store

LEMMA InitLies == LsInit => LsIInv
<1> SUFFICES ASSUME LsInit PROVE LsIInv
  OBVIOUS
<1>1. st.r \in [Regs -> Words]
  BY LoadStoreAssumption DEF LsInit
<1>2. st.ram \in [0 .. RamSize - 1 -> Byte]
  <2>1. st.ram = [i \in 0 .. RamSize - 1 |-> (i \div 3) % Bytes(1)]
    BY DEF LsInit
  <2>2. ASSUME NEW i \in 0 .. RamSize - 1 PROVE (i \div 3) % Bytes(1) \in Byte
    <3> DEFINE q == i \div 3
    <3>1. q \in Int /\ Bytes(1) \in Nat \ {0}
      BY RamIs, Sizes
    <3> HIDE DEF q
    <3>2. q % Bytes(1) \in 0 .. Bytes(1) - 1
      BY ONLY <3>1, ModTyped
    <3> QED BY <3>2, WordsAre DEF q
  <2> QED BY <2>1, <2>2
<1>3. st.npc = Wrapped(Pc + 4) /\ st.npc \in Words
  <2>1. Pc + 4 \in Int
    BY RamIs, WordsAre
  <2> QED BY <2>1, Wraps DEF LsInit
<1>4. st = [r |-> st.r, ram |-> st.ram, npc |-> st.npc]
  BY DEF LsInit
<1>5. st \in States
  BY <1>1, <1>2, <1>3, <1>4 DEF States
<1>6. wrote \in Records /\ Lies(st.ram, wrote)
  BY NothingLies DEF LsInit
<1>7. steps \in 0 .. MaxSteps
  BY RamIs DEF LsInit
<1> QED BY <1>3, <1>5, <1>6, <1>7 DEF LsIInv, LsTypeOK, Records

Kept == st' \in States /\ GoodPc(st'.npc) /\ wrote' \in Records /\ Lies(st'.ram, wrote')

LEMMA WordOrByteKeeps ==
  ASSUME LsIInv, NEW rd \in All, NEW rn \in All, NEW off \in Offsets, NEW m \in Modes, Indexed(rn, m),
         WordOrByte(rd, rn, off, m)
  PROVE  Kept
<1>1. Now \in States /\ off \in Words
  BY NowIs, RamIs
<1>2. CASE HandleLdrImm(rd, rn, off, m)
  BY <1>1, <1>2, ImmFollows, LoadKeeps DEF HandleLdrImm, Kept
<1>3. CASE HandleLdrbImm(rd, rn, off, m)
  BY <1>1, <1>3, ImmFollows, LoadKeeps DEF HandleLdrbImm, Kept
<1>4. SavesThen(Now, StrImm(Now, rd, rn, off, m), {Stored(At(Now, rn, off, m), 4, Raw(Now, rd))})
  BY <1>1, StrSaves, 4 \in {1, 4} DEF StrImm
<1>5. SavesThen(Now, StrbImm(Now, rd, rn, off, m), {Stored(At(Now, rn, off, m), 1, Raw(Now, rd))})
  BY <1>1, StrSaves, 1 \in {1, 4} DEF StrbImm
<1>6. CASE HandleStrPreimm(rd, rn, off, m)
  BY <1>4, <1>6, StoreKeeps DEF HandleStrPreimm, Kept
<1>7. CASE HandleStrPostimm(rd, rn, off, m)
  BY <1>4, <1>7, StoreKeeps DEF HandleStrPostimm, Kept
<1>8. CASE HandleStrbPreimm(rd, rn, off, m)
  BY <1>5, <1>8, StoreKeeps DEF HandleStrbPreimm, Kept
<1>9. CASE HandleStrbPostimm(rd, rn, off, m)
  BY <1>5, <1>9, StoreKeeps DEF HandleStrbPostimm, Kept
<1> QED BY <1>2, <1>3, <1>6, <1>7, <1>8, <1>9 DEF WordOrByte

LEMMA ExtraKeeps ==
  ASSUME LsIInv, NEW rd \in Regs, NEW rn \in All, NEW off \in Offsets \union {Src(st, r) : r \in All},
         NEW m \in Modes, Indexed(rn, m), Extra(rd, rn, off, m)
  PROVE  Kept
<1>1. Now \in States /\ off \in Words /\ rd \in All
  BY NowIs, RamIs DEF All
<1>2. CASE HandleLdrh(rd, rn, off, m)
  BY <1>1, <1>2, ImmFollows, LoadKeeps DEF HandleLdrh, Kept
<1>3. CASE HandleLdrsb(rd, rn, off, m)
  BY <1>1, <1>3, ImmFollows, LoadKeeps DEF HandleLdrsb, Kept
<1>4. CASE HandleLdrsh(rd, rn, off, m)
  BY <1>1, <1>4, ImmFollows, LoadKeeps DEF HandleLdrsh, Kept
<1>5. CASE HandleStrh(rd, rn, off, m)
  BY <1>1, <1>5, StrhSaves, StoreKeeps DEF HandleStrh, Kept
<1>6. CASE ExecLdrd(rd, rn, off, m)
  BY <1>1, <1>6, LdrdFollows, LoadKeeps DEF ExecLdrd, Kept
<1>7. CASE ExecStrd(rd, rn, off, m)
  BY <1>1, <1>7, StrdSaves, StoreKeeps DEF ExecStrd, Kept
<1> QED BY <1>2, <1>3, <1>4, <1>5, <1>6, <1>7 DEF Extra

LEMMA ByRegisterKeeps ==
  ASSUME LsIInv, NEW rd \in All, NEW rn \in All, NEW rm \in All, NEW kind \in ShiftTypes, NEW n \in 0 .. Width - 1,
         ByRegister(rd, rn, rm, kind, n)
  PROVE  Kept
<1> DEFINE a == RegOffset(Now, rn, rm, kind, n)
           v == Raw(Now, rd)
<1>1. Now \in States /\ a \in Words /\ v \in Words
  BY NowIs, OffsetTyped, SourceTyped
<1>2. CASE HandleLdrRegoffset(rd, rn, rm, kind, n)
  BY <1>1, <1>2, OffsetFollows, LoadKeeps DEF HandleLdrRegoffset, Kept
<1>3. CASE HandleLdrbReg(rd, rn, rm, kind, n)
  BY <1>1, <1>3, OffsetFollows, LoadKeeps DEF HandleLdrbReg, Kept
<1>4. SavesThen(Now, Put(Now, a, 4, v), {Stored(a, 4, v)}) /\ SavesThen(Now, Put(Now, a, 1, v), {Stored(a, 1, v)})
  <2> HIDE DEF a, v
  <2> QED BY <1>1, PutSaves, SavesAlone, 1 \in {1, 4}, 4 \in {1, 4}
<1>5. CASE HandleStrRegoffset(rd, rn, rm, kind, n)
  BY <1>4, <1>5, StoreKeeps DEF HandleStrRegoffset, StrReg, Kept
<1>6. CASE HandleStrbRegShift(rd, rn, rm, kind, n)
  BY <1>4, <1>6, StoreKeeps DEF HandleStrbRegShift, StrbReg, Kept
<1> QED BY <1>2, <1>3, <1>5, <1>6 DEF ByRegister

LEMMA NextLies == LsIInv /\ LsNext => LsIInv'
<1> SUFFICES ASSUME LsIInv, LsNext PROVE LsIInv'
  OBVIOUS
<1>1. Now \in States
  BY NowIs
<1>2. Kept
  <2>1. ASSUME NEW rd \in All, NEW rn \in All, NEW off \in Offsets, NEW m \in Modes,
               Indexed(rn, m), WordOrByte(rd, rn, off, m)
        PROVE  Kept
    BY <2>1, WordOrByteKeeps
  <2>2. ASSUME NEW rd \in Regs, NEW rn \in All, NEW off \in Offsets \union {Src(st, r) : r \in All}, NEW m \in Modes,
               Indexed(rn, m), Extra(rd, rn, off, m)
        PROVE  Kept
    BY <2>2, ExtraKeeps
  <2>3. ASSUME NEW rd \in All, NEW rn \in All, NEW rm \in All, NEW kind \in ShiftTypes, NEW n \in 0 .. Width - 1,
               ByRegister(rd, rn, rm, kind, n)
        PROVE  Kept
    BY <2>3, ByRegisterKeeps
  <2>4. ASSUME NEW rd \in All, NEW off \in Offsets, NEW u \in BOOLEAN, HandleLdrLiteral(rd, off, u)
        PROVE  Kept
    BY <1>1, <2>4, RamIs, LiteralFollows, LoadKeeps DEF HandleLdrLiteral, Kept
  <2>5. ASSUME NEW rn \in Regs, NEW list \in Lists, NEW m \in Modes, HandleLdm(rn, list, m)
        PROVE  Kept
    BY <1>1, <2>5, LdmFollows, LoadKeeps DEF HandleLdm, Kept, Lists
  <2>6. ASSUME NEW rn \in Regs, NEW list \in Lists, NEW m \in Modes, HandleStm(rn, list, m)
        PROVE  Kept
    <3>1. SavesThen(Now, Stm(Now, rn, list, m), StoredFor(Now, rn, list, m, list))
      BY <1>1, StmSaves DEF Lists
    <3> QED BY <2>6, <3>1, StoreKeeps DEF HandleStm, Kept, StoredFor
  <2>7. ASSUME NEW sp \in Regs, HandlePopPc(sp)
        PROVE  Kept
    BY <1>1, <2>7, PopFollows, LoadKeeps DEF HandlePopPc, Kept
  <2>8. ASSUME NEW rd \in Regs, NEW rn \in Regs, NEW rm \in Regs, HandleSwp(rd, rn, rm) \/ HandleSwpb(rd, rn, rm)
        PROVE  Kept
    <3>1. /\ SavesThen(Now, Swp(Now, rd, rn, rm), {Stored(Now.r[rn], 4, Now.r[rm])})
          /\ SavesThen(Now, Swpb(Now, rd, rn, rm), {Stored(Now.r[rn], 1, Now.r[rm])})
      BY <1>1, SwapSaves, 1 \in {1, 4}, 4 \in {1, 4} DEF Swp, Swpb
    <3>2. CASE HandleSwp(rd, rn, rm)
      BY <3>1, <3>2, StoreKeeps DEF HandleSwp, Kept
    <3>3. CASE HandleSwpb(rd, rn, rm)
      BY <3>1, <3>3, StoreKeeps DEF HandleSwpb, Kept
    <3> QED BY <2>8, <3>2, <3>3
  <2> QED BY <2>1, <2>2, <2>3, <2>4, <2>5, <2>6, <2>7, <2>8 DEF LsNext
<1>3. steps' \in 0 .. MaxSteps
  <2>1. steps \in 0 .. MaxSteps /\ steps < MaxSteps /\ steps' = steps + 1
    BY DEF LsIInv, LsTypeOK, LsNext
  <2> QED BY <2>1, RamIs
<1> QED BY <1>2, <1>3 DEF LsIInv, LsTypeOK, Kept, Records, GoodPc

LEMMA LiesAlways == LsSpec => []LsIInv
<1>1. LsIInv /\ UNCHANGED lsVars => LsIInv'
  BY DEF LsIInv, LsTypeOK, lsVars, Lies
<1> QED BY <1>1, InitLies, NextLies, PTL DEF LsSpec

(***************************************************************************)
(* What lies in RAM is what every load of its size brings back.            *)
(***************************************************************************)
Plain == [p |-> TRUE, u |-> TRUE, w |-> FALSE]

LEMMA PlainLoads ==
  ASSUME NEW s \in States, NEW rd \in Regs, NEW rn \in Regs, NEW v \in Words
  PROVE  /\ At(s, rn, 0, Plain) = s.r[rn]
         /\ LoadWith(s, rd, rn, 0, Plain, v).r[rd] = v
<1> DEFINE a == s.r[rn]
<1>1. a \in Words /\ rn # 15 /\ rd # 15
  BY RamIs DEF States
<1>2. Src(s, rn) = a
  BY <1>1 DEF Src
<1>3. Wrapped(a) = a /\ a + 0 = a
  <2> HIDE DEF a
  <2>1. a \in Nat
    BY <1>1, WordsAre
  <2> QED BY <1>1, <2>1, Wraps
<1>4. Ea(a, 0, Plain) = a
  BY <1>3 DEF Ea, Moved, Plain
<1>5. ~WritesBack(Plain)
  BY DEF WritesBack, Plain
<1>6. LoadWith(s, rd, rn, 0, Plain, v) = SetReg(s, rd, v)
  BY <1>1, <1>5 DEF LoadWith, WriteBack, LoadReg
<1>7. SetReg(s, rd, v).r[rd] = v
  BY DEF SetReg, States
<1> QED BY <1>2, <1>4, <1>6, <1>7 DEF At

LEMMA WordLies ==
  ASSUME NEW s \in States, NEW w \in Records, w.n = 4, Lies(s.ram, w)
  PROVE  Get(s, w.at, 4) = w.val
<1> DEFINE a == w.at
           v == w.val
<1>1. a \in Nat /\ a + 4 <= RamSize /\ v \in Words /\ RamSize \in Nat
  BY WordsAre, RamIs DEF Records, Lies
<1>2. Get(s, a, 4) = s.ram[a] + s.ram[a + 1] * Bytes(1) + s.ram[a + 2] * Bytes(2) + s.ram[a + 3] * Bytes(3)
  BY <1>1 DEF Get
<1>3. \A i \in 0 .. 3 : s.ram[a + i] = Digit(v, i)
  BY DEF Lies
<1>4. s.ram[a] = Digit(v, 0) /\ s.ram[a + 1] = Digit(v, 1) /\ s.ram[a + 2] = Digit(v, 2) /\ s.ram[a + 3] = Digit(v, 3)
  <2>1. a + 0 = a
    BY <1>1
  <2> HIDE DEF a, v
  <2> QED BY <1>3, <2>1
<1>5. v = Digit(v, 0) + Digit(v, 1) * Bytes(1) + Digit(v, 2) * Bytes(2) + Digit(v, 3) * Bytes(3)
  BY <1>1, WordIsBytes
<1> HIDE DEF a, v
<1>6. Get(s, a, 4) = v
  BY ONLY <1>2, <1>4, <1>5
<1> QED BY <1>6 DEF a, v

LEMMA HalfLies ==
  ASSUME NEW s \in States, NEW w \in Records, w.n = 2, Lies(s.ram, w)
  PROVE  GetHalf(s, w.at) = w.val /\ w.val \in 0 .. Bytes(2) - 1
<1> DEFINE a == w.at
           v == w.val
<1>1. a \in Words /\ a \in Nat /\ a + 2 <= RamSize /\ v \in 0 .. Bytes(2) - 1 /\ RamSize \in Nat /\ RamSize <= W
  BY WordsAre, RamIs DEF Records, Lies
<1>2. \A i \in 0 .. 1 : s.ram[a + i] = Digit(v, i)
  BY DEF Lies
<1>3. v = Digit(v, 0) + Digit(v, 1) * Bytes(1)
  BY <1>1, HalfIsBytes
<1> HIDE DEF a, v
<1>4. Wrapped(a + 1) = a + 1
  <2>1. a + 1 \in Words
    BY <1>1, WordsAre, Sizes
  <2> QED BY <2>1, Wraps
<1>5. s.ram[a] = Digit(v, 0) /\ s.ram[a + 1] = Digit(v, 1)
  <2>1. a + 0 = a /\ 0 \in 0 .. 1 /\ 1 \in 0 .. 1
    BY <1>1
  <2> QED BY <1>2, <2>1
<1>6. Get(s, a, 1) = s.ram[a] /\ Get(s, a + 1, 1) = s.ram[a + 1]
  BY <1>1 DEF Get
<1>7. GetHalf(s, a) = v
  BY ONLY <1>3, <1>4, <1>5, <1>6 DEF GetHalf
<1> QED BY <1>1, <1>7 DEF a, v

LEMMA ByteLies ==
  ASSUME NEW s \in States, NEW w \in Records, w.n = 1, Lies(s.ram, w)
  PROVE  Get(s, w.at, 1) = w.val /\ w.val \in 0 .. Bytes(1) - 1
<1> DEFINE a == w.at
           v == w.val
<1>1. a \in Nat /\ a + 1 <= RamSize /\ v \in 0 .. Bytes(1) - 1 /\ RamSize \in Nat
  BY WordsAre, RamIs DEF Records, Lies
<1>2. s.ram[a + 0] = Digit(v, 0)
  BY DEF Lies
<1>3. Digit(v, 0) = v
  BY <1>1, ByteIsByte, WordsAre
<1> HIDE DEF a, v
<1>4. Get(s, a, 1) = s.ram[a]
  BY <1>1 DEF Get
<1> QED BY <1>1, <1>2, <1>3, <1>4, a + 0 = a DEF a, v

\* The top bit of a halfword or a byte.
LEMMA TopOfPart ==
  /\ \A v \in 0 .. Bytes(2) - 1 : BitOf(v, (Width \div 2) - 1) <=> v >= Bytes(2) \div 2
  /\ \A v \in 0 .. Bytes(1) - 1 : BitOf(v, (Width \div 4) - 1) <=> v >= Bytes(1) \div 2
<1>1. ASSUME NEW k \in Nat, NEW v \in 0 .. 2^(k + 1) - 1
      PROVE  BitOf(v, k) <=> v >= 2^(k + 1) \div 2
  <2> DEFINE h == 2^k
             q == v \div h
             r == v % h
  <2>1. h \in Nat \ {0} /\ 2^(k + 1) = 2 * h
    BY PowerTyped, PowerDoubles
  <2>2. v \in Nat /\ v < 2 * h
    BY <2>1
  <2>3. q \in Nat /\ r \in 0 .. h - 1 /\ v = (h * q) + r
    <3>1. v \in Nat /\ h \in Nat \ {0}
      BY <2>1, <2>2
    <3> HIDE DEF h
    <3> QED BY ONLY <3>1, DivMod
  <2>4. BitOf(v, k) <=> q % 2 = 1
    BY DEF BitOf
  <2>5. q \in 0 .. 1
    <3>1. v \in 0 .. (h * 2) - 1 /\ h \in Nat \ {0}
      BY <2>1, <2>2
    <3> HIDE DEF h
    <3> QED BY ONLY <3>1, DivBelow, 2 \in Nat, 2 - 1 = 1
  <2> HIDE DEF q, r, h
  <2>6. (2 * h) \div 2 = h
    BY <2>1
  <2>7. q = 0 => ~(v >= h)
    BY <2>1, <2>3
  <2>8. q = 1 => v >= h
    BY <2>1, <2>3
  <2>9. q = 0 \/ q = 1
    BY <2>5
  <2> QED BY <2>1, <2>4, <2>6, <2>7, <2>8, <2>9
<1>2. /\ ByteBits \in Nat \ {0} /\ Width = 4 * ByteBits
  BY LoadStoreAssumption
<1>3. ByteBits - 1 \in Nat /\ (ByteBits - 1) + 1 = ByteBits /\ (Width \div 4) - 1 = ByteBits - 1
      /\ 2 * ByteBits - 1 \in Nat /\ (2 * ByteBits - 1) + 1 = ByteBits * 2 /\ (Width \div 2) - 1 = 2 * ByteBits - 1
      /\ ByteBits * 1 = ByteBits
  BY <1>2
<1>4. Bytes(1) = 2^((ByteBits - 1) + 1) /\ Bytes(2) = 2^((2 * ByteBits - 1) + 1)
  BY <1>3 DEF Bytes
<1> QED BY <1>1, <1>3, <1>4

LEMMA SeesStore == LsIInv => LoadSeesStore
<1> SUFFICES ASSUME LsIInv, NEW rn \in Regs, NEW rd \in Regs, wrote.n > 0, st.r[rn] = wrote.at
             PROVE  LET m == [p |-> TRUE, u |-> TRUE, w |-> FALSE]
                        Got(s) == s.r[rd]
                    IN  /\ wrote.n = 4 => /\ Got(LdrImm(st, rd, rn, 0, m)) = wrote.val
                                          /\ Got(Ldm(st, rn, {rd}, [m EXCEPT !.p = FALSE])) = wrote.val
                                          /\ Got(Swp(st, rd, rn, rd)) = wrote.val
                        /\ wrote.n = 2 => /\ Got(Ldrh(st, rd, rn, 0, m)) = wrote.val
                                          /\ Got(Ldrsh(st, rd, rn, 0, m)) % Bytes(2) = wrote.val
                                          /\ BitOf(Got(Ldrsh(st, rd, rn, 0, m)), Width - 1) = BitOf(wrote.val, (Width \div 2) - 1)
                        /\ wrote.n = 1 => /\ Got(LdrbImm(st, rd, rn, 0, m)) = wrote.val
                                          /\ Got(Swpb(st, rd, rn, rd)) = wrote.val
                                          /\ Got(Ldrsb(st, rd, rn, 0, m)) % Bytes(1) = wrote.val
                                          /\ BitOf(Got(Ldrsb(st, rd, rn, 0, m)), Width - 1) = BitOf(wrote.val, (Width \div 4) - 1)
  BY DEF LoadSeesStore
<1>1. st \in States /\ wrote \in Records /\ Lies(st.ram, wrote) /\ wrote.val \in Words
  BY DEF LsIInv, LsTypeOK, Records
<1>2. rd \in All /\ rn # 15 /\ rd # 15 /\ rd \in 0 .. 14
  BY RamIs DEF All
<1> DEFINE a == wrote.at
           v == wrote.val
<1>3. At(st, rn, 0, Plain) = a
  BY <1>1, PlainLoads
<1>4. [p |-> TRUE, u |-> TRUE, w |-> FALSE] = Plain
  BY DEF Plain
<1>5. ASSUME wrote.n = 4
      PROVE  /\ LdrImm(st, rd, rn, 0, Plain).r[rd] = v
             /\ Ldm(st, rn, {rd}, [Plain EXCEPT !.p = FALSE]).r[rd] = v
             /\ Swp(st, rd, rn, rd).r[rd] = v
  <2>1. Get(st, a, 4) = v
    BY <1>1, <1>5, WordLies
  <2>2. LdrImm(st, rd, rn, 0, Plain).r[rd] = v
    BY <1>1, <1>3, <2>1, PlainLoads DEF LdrImm
  <2>3. Ldm(st, rn, {rd}, [Plain EXCEPT !.p = FALSE]).r[rd] = v
    <3> DEFINE m == [Plain EXCEPT !.p = FALSE]
    <3>1. m.p = FALSE /\ m.u = TRUE /\ m.w = FALSE
      BY DEF Plain
    <3> HIDE DEF m
    <3>2. Ldm(st, rn, {rd}, m) = Taken(st, rn, {rd}, m, {rd})
      <4>1. {rd} \in SUBSET All
        BY <1>2
      <4> QED BY <1>1, <3>1, <4>1, LoadingTakes DEF Ldm, BlockWriteBack
    <3>3. Taken(st, rn, {rd}, m, {rd}).r[rd] = Get(st, Slot(st, rn, {rd}, m, rd), 4)
      BY DEF Taken, Found
    <3>4. Slot(st, rn, {rd}, m, rd) = a
      <4>1. Below({rd}, rd) = 0
        <5>1. {j \in {rd} : j < rd} = {}
          BY <1>2
        <5> QED BY <5>1, FS_EmptySet DEF Below
      <4>2. First(a, Cardinality({rd}), m) = a + 0
        BY <3>1 DEF First
      <4>3. a \in Words /\ (a + 0) + 4 * 0 = a
        BY <1>1, WordsAre DEF Records
      <4>4. Wrapped(a) = a
        BY <4>3, Wraps
      <4> QED BY <4>1, <4>2, <4>3, <4>4 DEF Slot
    <3> QED BY <2>1, <3>2, <3>3, <3>4 DEF m
  <2>4. Swp(st, rd, rn, rd).r[rd] = v
    <3> DEFINE t == Put(st, st.r[rn], 4, st.r[rd])
    <3>1. st.r[rn] \in Words /\ st.r[rd] \in Words
      BY <1>1 DEF States
    <3>2. t \in States
      BY <1>1, <3>1, PutIs, 4 \in {1, 4}
    <3>3. Swp(st, rd, rn, rd) = SetReg(t, rd, v)
      BY <2>1 DEF Swp
    <3> HIDE DEF t
    <3> QED BY <3>2, <3>3 DEF SetReg, States
  <2> QED BY <2>2, <2>3, <2>4
<1>6. ASSUME wrote.n = 2
      PROVE  /\ Ldrh(st, rd, rn, 0, Plain).r[rd] = v
             /\ Ldrsh(st, rd, rn, 0, Plain).r[rd] % Bytes(2) = v
             /\ BitOf(Ldrsh(st, rd, rn, 0, Plain).r[rd], Width - 1) = BitOf(v, (Width \div 2) - 1)
  <2>1. GetHalf(st, a) = v /\ v \in 0 .. Bytes(2) - 1
    BY <1>1, <1>6, HalfLies
  <2>2. Ldrh(st, rd, rn, 0, Plain).r[rd] = v
    BY <1>1, <1>3, <2>1, PlainLoads DEF Ldrh
  <2>3. /\ SignExtend(v, 2) \in Words /\ SignExtend(v, 2) % Bytes(2) = v
        /\ Top(SignExtend(v, 2)) <=> v >= Bytes(2) \div 2
    BY <2>1, SignExtendIs, 2 \in {1, 2}
  <2>4. Ldrsh(st, rd, rn, 0, Plain).r[rd] = SignExtend(v, 2)
    BY <1>1, <1>3, <2>1, <2>3, PlainLoads DEF Ldrsh
  <2>5. BitOf(SignExtend(v, 2), Width - 1) <=> BitOf(v, (Width \div 2) - 1)
    BY <2>1, <2>3, TopOfPart DEF Top
  <2>6. BitOf(SignExtend(v, 2), Width - 1) = BitOf(v, (Width \div 2) - 1)
    BY <2>5, BitTyped
  <2> QED BY <2>2, <2>3, <2>4, <2>6
<1>7. ASSUME wrote.n = 1
      PROVE  /\ LdrbImm(st, rd, rn, 0, Plain).r[rd] = v
             /\ Swpb(st, rd, rn, rd).r[rd] = v
             /\ Ldrsb(st, rd, rn, 0, Plain).r[rd] % Bytes(1) = v
             /\ BitOf(Ldrsb(st, rd, rn, 0, Plain).r[rd], Width - 1) = BitOf(v, (Width \div 4) - 1)
  <2>1. Get(st, a, 1) = v /\ v \in 0 .. Bytes(1) - 1
    BY <1>1, <1>7, ByteLies
  <2>2. LdrbImm(st, rd, rn, 0, Plain).r[rd] = v
    BY <1>1, <1>3, <2>1, PlainLoads DEF LdrbImm
  <2>3. /\ SignExtend(v, 1) \in Words /\ SignExtend(v, 1) % Bytes(1) = v
        /\ Top(SignExtend(v, 1)) <=> v >= Bytes(1) \div 2
    BY <2>1, SignExtendIs, 1 \in {1, 2}
  <2>4. Ldrsb(st, rd, rn, 0, Plain).r[rd] = SignExtend(v, 1)
    BY <1>1, <1>3, <2>1, <2>3, PlainLoads DEF Ldrsb
  <2>5. BitOf(SignExtend(v, 1), Width - 1) <=> BitOf(v, (Width \div 4) - 1)
    BY <2>1, <2>3, TopOfPart DEF Top
  <2>6. BitOf(SignExtend(v, 1), Width - 1) = BitOf(v, (Width \div 4) - 1)
    BY <2>5, BitTyped
  <2>7. Swpb(st, rd, rn, rd).r[rd] = v
    <3> DEFINE t == Put(st, st.r[rn], 1, st.r[rd])
    <3>1. st.r[rn] \in Words /\ st.r[rd] \in Words
      BY <1>1 DEF States
    <3>2. t \in States
      BY <1>1, <3>1, PutIs, 1 \in {1, 4}
    <3>3. Swpb(st, rd, rn, rd) = SetReg(t, rd, v)
      BY <2>1 DEF Swpb
    <3> HIDE DEF t
    <3> QED BY <3>2, <3>3 DEF SetReg, States
  <2> QED BY <2>2, <2>3, <2>4, <2>6, <2>7
<1> QED BY <1>4, <1>5, <1>6, <1>7

\* Whatever was stored and not overwritten, every load of its size brings
\* back (src/cpu/memops.c), and registers, RAM and next PC stay words.
THEOREM LoadsSeeStores == LsSpec => []LoadStoreInv
<1>1. LsIInv => LoadStoreInv
  BY SeesStore DEF LsIInv, LoadStoreInv
<1> QED BY <1>1, LiesAlways, PTL

(***************************************************************************)
(* A block transfer is its single transfers.                               *)
(***************************************************************************)
LEMMA BaseIndexed == 4 \in Words /\ \A rn \in Regs : rn \in All /\ \A m : Indexed(rn, m)
<1>1. W \in Nat /\ W >= 16 /\ Words = 0 .. W - 1
  BY Sizes, WordsAre
<1>2. ASSUME NEW rn \in Regs, NEW m PROVE rn \in All /\ Indexed(rn, m)
  BY RamIs DEF All, Indexed
<1> QED BY <1>1, <1>2

\* The loop of single loads as an equation.
LEMMA LdrEachIs ==
  ASSUME NEW s \in States, NEW rn \in Regs, NEW list \in SUBSET All, NEW m \in Modes
  PROVE  LET F == LdrEach(s, rn, list, m)
         IN  F = [i \in 0 .. 16 |->
                   IF i = 0 THEN s
                   ELSE IF Turn(m.u, i) \in list THEN LdrImm(F[i - 1], Turn(m.u, i), rn, 4, Singly(m))
                   ELSE F[i - 1]]
<1> DEFINE Turned(i, t) == IF Turn(m.u, i) \in list THEN LdrImm(t, Turn(m.u, i), rn, 4, Singly(m)) ELSE t
           step == [i \in 1 .. 16 |-> [t \in States |-> Turned(i, t)]]
           Eq(f) == f = [i \in 0 .. 16 |->
                          IF i = 0 THEN s
                          ELSE IF Turn(m.u, i) \in list THEN LdrImm(f[i - 1], Turn(m.u, i), rn, 4, Singly(m))
                          ELSE f[i - 1]]
<1>1. ASSUME NEW i \in 1 .. 16, NEW t \in States PROVE Turned(i, t) \in States
  <2>1. rn \in All /\ Indexed(rn, Singly(m)) /\ 4 \in Words
    BY BaseIndexed
  <2>2. ASSUME Turn(m.u, i) \in list PROVE LdrImm(t, Turn(m.u, i), rn, 4, Singly(m)) \in States
    <3>1. Turn(m.u, i) \in All
      BY <2>2
    <3> QED BY <2>1, <3>1, ImmFollows DEF Follows
  <2> QED BY <2>2
<1>2. step \in [1 .. 16 -> [States -> States]]
  <2> HIDE DEF Turned
  <2> QED BY <1>1
<1>3. PICK f \in [0 .. 16 -> States] : Stepped(f, 16, s, step)
  <2> HIDE DEF step
  <2> QED BY <1>2, RecursionIn, 16 \in Nat
<1>4. \A n \in 0 .. 16 : f[n] = IF n = 0 THEN s ELSE step[n][f[n - 1]]
  <2> HIDE DEF step
  <2> QED BY <1>3 DEF Stepped
<1>5. ASSUME NEW n \in 0 .. 16 PROVE f[n] = IF n = 0 THEN s ELSE Turned(n, f[n - 1])
  <2>1. CASE n = 0
    BY <1>4, <2>1
  <2>2. CASE n # 0
    <3>1. n \in 1 .. 16 /\ n - 1 \in 0 .. 16
      BY <2>2
    <3>2. f[n - 1] \in States
      BY <3>1
    <3>3. step[n][f[n - 1]] = Turned(n, f[n - 1])
      <4> HIDE DEF Turned
      <4> QED BY <3>1, <3>2
    <3> HIDE DEF step, Turned
    <3> QED BY <1>4, <2>2, <3>3
  <2> QED BY <2>1, <2>2
<1>6. Eq(f)
  <2> DEFINE g == [i \in 0 .. 16 |-> IF i = 0 THEN s ELSE Turned(i, f[i - 1])]
  <2>1. f = g
    <3> HIDE DEF Turned
    <3> QED BY <1>5
  <2> QED BY <2>1
<1>7. \E h : Eq(h)
  <2> HIDE DEF Eq
  <2> QED BY <1>6
<1>8. Eq(CHOOSE h : Eq(h))
  <2> HIDE DEF Eq
  <2> QED BY <1>7
<1> QED BY <1>8 DEF LdrEach

\* The loop of single stores as an equation.
LEMMA StrEachIs ==
  ASSUME NEW s \in States, NEW rn \in Regs, NEW list \in SUBSET All, NEW m \in Modes
  PROVE  LET F == StrEach(s, rn, list, m)
         IN  F = [i \in 0 .. 16 |->
                   IF i = 0 THEN s
                   ELSE IF Turn(m.u, i) \in list THEN StrImm(F[i - 1], Turn(m.u, i), rn, 4, Singly(m))
                   ELSE F[i - 1]]
<1> DEFINE Turned(i, t) == IF Turn(m.u, i) \in list THEN StrImm(t, Turn(m.u, i), rn, 4, Singly(m)) ELSE t
           step == [i \in 1 .. 16 |-> [t \in States |-> Turned(i, t)]]
           Eq(f) == f = [i \in 0 .. 16 |->
                          IF i = 0 THEN s
                          ELSE IF Turn(m.u, i) \in list THEN StrImm(f[i - 1], Turn(m.u, i), rn, 4, Singly(m))
                          ELSE f[i - 1]]
<1>1. ASSUME NEW i \in 1 .. 16, NEW t \in States PROVE Turned(i, t) \in States
  <2>1. rn \in All /\ Indexed(rn, Singly(m)) /\ 4 \in Words
    BY BaseIndexed
  <2>2. ASSUME Turn(m.u, i) \in list PROVE StrImm(t, Turn(m.u, i), rn, 4, Singly(m)) \in States
    <3>1. Turn(m.u, i) \in All
      BY <2>2
    <3> QED BY <2>1, <3>1, StrSaves, 4 \in {1, 4} DEF StrImm, SavesThen
  <2> QED BY <2>2
<1>2. step \in [1 .. 16 -> [States -> States]]
  <2> HIDE DEF Turned
  <2> QED BY <1>1
<1>3. PICK f \in [0 .. 16 -> States] : Stepped(f, 16, s, step)
  <2> HIDE DEF step
  <2> QED BY <1>2, RecursionIn, 16 \in Nat
<1>4. \A n \in 0 .. 16 : f[n] = IF n = 0 THEN s ELSE step[n][f[n - 1]]
  <2> HIDE DEF step
  <2> QED BY <1>3 DEF Stepped
<1>5. ASSUME NEW n \in 0 .. 16 PROVE f[n] = IF n = 0 THEN s ELSE Turned(n, f[n - 1])
  <2>1. CASE n = 0
    BY <1>4, <2>1
  <2>2. CASE n # 0
    <3>1. n \in 1 .. 16 /\ n - 1 \in 0 .. 16
      BY <2>2
    <3>2. f[n - 1] \in States
      BY <3>1
    <3>3. step[n][f[n - 1]] = Turned(n, f[n - 1])
      <4> HIDE DEF Turned
      <4> QED BY <3>1, <3>2
    <3> HIDE DEF step, Turned
    <3> QED BY <1>4, <2>2, <3>3
  <2> QED BY <2>1, <2>2
<1>6. Eq(f)
  <2> DEFINE g == [i \in 0 .. 16 |-> IF i = 0 THEN s ELSE Turned(i, f[i - 1])]
  <2>1. f = g
    <3> HIDE DEF Turned
    <3> QED BY <1>5
  <2> QED BY <2>1
<1>7. \E h : Eq(h)
  <2> HIDE DEF Eq
  <2> QED BY <1>6
<1>8. Eq(CHOOSE h : Eq(h))
  <2> HIDE DEF Eq
  <2> QED BY <1>7
<1> QED BY <1>8 DEF StrEach

\* The indexing of the single transfers.
LEMMA SinglyIs ==
  ASSUME NEW m \in Modes, NEW v, NEW off
  PROVE  /\ WritesBack(Singly(m)) /\ Moved(v, off, Singly(m)) = Moved(v, off, m)
         /\ Ea(v, off, Singly(m)) = Ea(v, off, m)
<1>1. Singly(m).p = m.p /\ Singly(m).u = m.u /\ Singly(m).w = m.p /\ m.p \in BOOLEAN /\ m.u \in BOOLEAN
  BY DEF Singly, Modes
<1> QED BY <1>1 DEF WritesBack, Moved, Ea

LEMMA SameState ==
  ASSUME NEW s \in States, NEW t \in States, s.r = t.r, s.ram = t.ram, s.npc = t.npc
  PROVE  s = t
BY DEF States

\* A turn of the loop of single transfers: what is done, and the base before and after.
LEMMA TurnPasses ==
  ASSUME NEW list \in SUBSET All, NEW m \in Modes, NEW i \in 0 .. 15, Turn(m.u, i + 1) \notin list
  PROVE  Done(list, m.u, i + 1) = Done(list, m.u, i)
<1> DEFINE u == m.u
<1>1. u \in BOOLEAN
  BY DEF Modes
<1>2. Turn(u, i + 1) \notin list
  OBVIOUS
<1>3. Done(list, u, i + 1) = Done(list, u, i)
  <2> HIDE DEF u
  <2> QED BY <1>1, <1>2, DoneIs
<1> QED BY <1>3

LEMMA TurnTakes ==
  ASSUME NEW list \in SUBSET All, NEW m \in Modes, NEW i \in 0 .. 15, Turn(m.u, i + 1) \in list
  PROVE  /\ Turn(m.u, i + 1) \in list \ Done(list, m.u, i) /\ Done(list, m.u, i) \in SUBSET list
         /\ Done(list, m.u, i + 1) = Done(list, m.u, i) \union {Turn(m.u, i + 1)}
<1> DEFINE u == m.u
<1>1. u \in BOOLEAN
  BY DEF Modes
<1>2. Turn(u, i + 1) \in list
  OBVIOUS
<1>3. Turn(u, i + 1) \notin Done(list, u, i)
  <2>1. Turn(u, i + 1) = IF u THEN i ELSE 15 - i
    BY DEF Turn
  <2> HIDE DEF u
  <2> QED BY <1>1, <2>1 DEF Done
<1>4. Done(list, u, i + 1) = Done(list, u, i) \union {Turn(u, i + 1)}
  <2> HIDE DEF u
  <2> QED BY <1>1, <1>2, DoneIs
<1>5. Done(list, u, i) \subseteq list
  BY DEF Done
<1> QED BY <1>2, <1>3, <1>4, <1>5

BaseAfter(s, rn, m, D) == Moved(s.r[rn], 4 * Cardinality(D), m)

LEMMA TurnMoves ==
  ASSUME NEW s \in States, NEW rn \in Regs, NEW list \in SUBSET All, NEW m \in Modes, NEW i \in 0 .. 15,
         Turn(m.u, i + 1) \in list
  PROVE  /\ BaseAfter(s, rn, m, Done(list, m.u, i)) \in Words
         /\ Ea(BaseAfter(s, rn, m, Done(list, m.u, i)), 4, m) = Slot(s, rn, list, m, Turn(m.u, i + 1))
         /\ Moved(BaseAfter(s, rn, m, Done(list, m.u, i)), 4, m) = BaseAfter(s, rn, m, Done(list, m.u, i + 1))
BY SlotOfTurn DEF BaseAfter

LEMMA BaseFirst ==
  ASSUME NEW s \in States, NEW rn \in Regs, NEW m
  PROVE  BaseAfter(s, rn, m, {}) = s.r[rn]
<1> DEFINE base == s.r[rn]
<1>1. base \in Words
  BY DEF States
<1>2. Cardinality({}) = 0
  BY FS_EmptySet
<1>3. base + 4 * 0 = base /\ base - 4 * 0 = base
  <2> HIDE DEF base
  <2> QED BY <1>1, WordsAre
<1>4. Wrapped(base) = base
  BY <1>1, Wraps
<1> QED BY <1>2, <1>3, <1>4 DEF Moved, BaseAfter

\* The base may be written before or after another register is loaded.
LEMMA BaseLast ==
  ASSUME NEW t \in States, NEW rn \in Regs, NEW q \in All, q # rn, NEW v \in Words, NEW w \in Words, NEW g \in Words
  PROVE  SetReg(LoadReg(SetReg(t, rn, v), q, g), rn, w) = SetReg(LoadReg(t, q, g), rn, w)
<1> DEFINE a == SetReg(t, rn, v)
           b == LoadReg(a, q, g)
           c == LoadReg(t, q, g)
           x == SetReg(b, rn, w)
           y == SetReg(c, rn, w)
<1>1. a \in States /\ a.ram = t.ram /\ a.npc = t.npc /\ a.r = [t.r EXCEPT ![rn] = v]
  BY DEF SetReg, States
<1> HIDE DEF a
<1>2. b \in States /\ c \in States
  BY <1>1, LoadRegIs DEF Follows
<1>3. CASE q = 15
  <2>1. b.r = a.r /\ b.ram = a.ram /\ b.npc = Aligned(g) /\ c.r = t.r /\ c.ram = t.ram /\ c.npc = Aligned(g)
    BY <1>1, <1>3 DEF LoadReg, States
  <2> HIDE DEF b, c
  <2>2. x \in States /\ x.ram = b.ram /\ x.npc = b.npc /\ x.r = [b.r EXCEPT ![rn] = w]
    BY <1>2 DEF SetReg, States
  <2>3. y \in States /\ y.ram = c.ram /\ y.npc = c.npc /\ y.r = [c.r EXCEPT ![rn] = w]
    BY <1>2 DEF SetReg, States
  <2> HIDE DEF x, y
  <2>4. x.r = y.r
    BY <1>1, <2>1, <2>2, <2>3 DEF States
  <2>5. x = y
    BY <1>1, <2>1, <2>2, <2>3, <2>4, SameState
  <2> QED BY <2>5 DEF x, y, a, b, c
<1>4. CASE q # 15
  <2>1. q \in Regs
    BY <1>4 DEF All
  <2>2. b.ram = a.ram /\ b.npc = a.npc /\ b.r = [a.r EXCEPT ![q] = g]
    BY <1>1, <1>4 DEF LoadReg, SetReg, States
  <2>3. c.ram = t.ram /\ c.npc = t.npc /\ c.r = [t.r EXCEPT ![q] = g]
    BY <1>4 DEF LoadReg, SetReg, States
  <2> HIDE DEF b, c
  <2>4. x \in States /\ x.ram = b.ram /\ x.npc = b.npc /\ x.r = [b.r EXCEPT ![rn] = w]
    BY <1>2 DEF SetReg, States
  <2>5. y \in States /\ y.ram = c.ram /\ y.npc = c.npc /\ y.r = [c.r EXCEPT ![rn] = w]
    BY <1>2 DEF SetReg, States
  <2> HIDE DEF x, y
  <2>6. x.r = y.r
    <3>1. t.r \in [Regs -> Words]
      BY DEF States
    <3> DEFINE f == t.r
    <3> HIDE DEF f
    <3>2. [[[f EXCEPT ![rn] = v] EXCEPT ![q] = g] EXCEPT ![rn] = w] = [[f EXCEPT ![q] = g] EXCEPT ![rn] = w]
      BY <2>1, <3>1 DEF f
    <3> QED BY <1>1, <2>2, <2>3, <2>4, <2>5, <3>2 DEF f
  <2>7. x = y
    BY <1>1, <2>2, <2>3, <2>4, <2>5, <2>6, SameState
  <2> QED BY <2>7 DEF x, y, a, b, c
<1> QED BY <1>3, <1>4

LEMMA LdrOneMore ==
  ASSUME NEW s \in States, NEW rn \in Regs, NEW list \in SUBSET (All \ {rn}), NEW m \in Modes,
         NEW D \in SUBSET list, NEW q \in list \ D, NEW v \in Words,
         Ea(v, 4, m) = Slot(s, rn, list, m, q)
  PROVE  LdrImm(SetReg(Taken(s, rn, list, m, D), rn, v), q, rn, 4, Singly(m))
         = SetReg(Taken(s, rn, list, m, D \union {q}), rn, Moved(v, 4, m))
<1> DEFINE t == Taken(s, rn, list, m, D)
           x == SetReg(t, rn, v)
           g == Found(s, rn, list, m, q)
           w == Moved(v, 4, m)
           y == LoadReg(x, q, g)
<1>1. q \in All /\ q # rn /\ rn # 15 /\ list \in SUBSET All
  BY RamIs
<1>2. t \in States /\ t.ram = s.ram
  BY <1>1, TakenTyped DEF Follows
<1>3. LoadReg(t, q, g) = Taken(s, rn, list, m, D \union {q})
  BY <1>1, TakenOneMore
<1> HIDE DEF t
<1>4. x.r[rn] = v /\ x.ram = s.ram
  BY <1>2 DEF SetReg, States
<1>5. Src(x, rn) = v
  BY <1>1, <1>4 DEF Src
<1>6. At(x, rn, 4, Singly(m)) = Slot(s, rn, list, m, q)
  BY <1>5, SinglyIs DEF At
<1>7. Get(x, At(x, rn, 4, Singly(m)), 4) = g
  BY <1>4, <1>6 DEF Get, Found
<1>8. LdrImm(x, q, rn, 4, Singly(m)) = SetReg(y, rn, w)
  <2>1. Moved(Src(x, rn), 4, Singly(m)) = w
    BY <1>5, SinglyIs
  <2>2. WritesBack(Singly(m))
    BY SinglyIs
  <2> HIDE DEF x, g, w
  <2> QED BY <1>7, <2>1, <2>2 DEF LdrImm, LoadWith, WriteBack
<1>9. SetReg(y, rn, w) = SetReg(LoadReg(t, q, g), rn, w)
  <2>1. g \in Words /\ w \in Words
    BY <1>1, FoundTyped, MovedTyped, ListIs, 4 \in Nat
  <2> HIDE DEF g, w
  <2> QED BY <1>1, <1>2, <2>1, BaseLast
<1> QED BY <1>3, <1>8, <1>9 DEF t

LEMMA LdrEachTakes ==
  ASSUME NEW s \in States, NEW rn \in Regs, NEW list \in SUBSET (All \ {rn}), NEW m \in Modes
  PROVE  LdrEach(s, rn, list, m)[16] = SetReg(Taken(s, rn, list, m, list), rn, BlockBase(s, rn, list, m))
<1> DEFINE F == LdrEach(s, rn, list, m)
           Form(D) == SetReg(Taken(s, rn, list, m, D), rn, BaseAfter(s, rn, m, D))
           P(i) == F[i] = Form(Done(list, m.u, i))
           T == {i \in 0 .. 16 : P(i)}
<1>1. list \in SUBSET All /\ m.u \in BOOLEAN
  BY DEF Modes
<1>2. F = [i \in 0 .. 16 |->
            IF i = 0 THEN s
            ELSE IF Turn(m.u, i) \in list THEN LdrImm(F[i - 1], Turn(m.u, i), rn, 4, Singly(m))
            ELSE F[i - 1]]
  BY <1>1, LdrEachIs
<1> HIDE DEF F
<1>3. P(0)
  <2>1. F[0] = s
    BY <1>2
  <2>2. Done(list, m.u, 0) = {}
    BY <1>1, DoneIs
  <2>3. Form({}) = s
    <3>1. Taken(s, rn, list, m, {}) = s
      BY TakenNone
    <3>2. SetReg(s, rn, s.r[rn]) = s
      BY DEF SetReg, States
    <3> QED BY <3>1, <3>2, BaseFirst
  <2> HIDE DEF Form
  <2> QED BY <2>1, <2>2, <2>3
<1>4. ASSUME NEW i \in 0 .. 15, P(i) PROVE P(i + 1)
  <2> DEFINE D == Done(list, m.u, i)
             E == Done(list, m.u, i + 1)
             q == Turn(m.u, i + 1)
             v == BaseAfter(s, rn, m, D)
  <2>1. i + 1 \in 0 .. 16 /\ i + 1 # 0 /\ (i + 1) - 1 = i
    OBVIOUS
  <2>2. F[i + 1] = IF q \in list THEN LdrImm(F[i], q, rn, 4, Singly(m)) ELSE F[i]
    BY <1>2, <2>1
  <2>3. F[i] = Form(D)
    BY <1>4
  <2>4. CASE q \in list
    <3>1. v \in Words /\ Ea(v, 4, m) = Slot(s, rn, list, m, q) /\ Moved(v, 4, m) = BaseAfter(s, rn, m, E)
      BY <1>1, <2>4, TurnMoves
    <3>2. D \in SUBSET list /\ q \in list \ D /\ E = D \union {q}
      BY <1>1, <2>4, TurnTakes
    <3>3. LdrImm(SetReg(Taken(s, rn, list, m, D), rn, v), q, rn, 4, Singly(m))
          = SetReg(Taken(s, rn, list, m, D \union {q}), rn, Moved(v, 4, m))
      <4> HIDE DEF D, q, v
      <4> QED BY <3>1, <3>2, LdrOneMore
    <3>4. LdrImm(Form(D), q, rn, 4, Singly(m)) = Form(E)
      <4> HIDE DEF D, E, q
      <4> QED BY <3>1, <3>2, <3>3
    <3>5. F[i + 1] = Form(E)
      <4> HIDE DEF D, E, q, Form
      <4> QED BY <2>2, <2>3, <2>4, <3>4
    <3> HIDE DEF Form
    <3> QED BY <3>5
  <2>5. CASE q \notin list
    <3>1. F[i + 1] = F[i] /\ E = D
      BY <1>1, <2>2, <2>5, TurnPasses
    <3> HIDE DEF Form
    <3> QED BY <2>3, <3>1
  <2> QED BY <2>4, <2>5
<1>5. P(16)
  <2> HIDE DEF P
  <2>1. 0 \in T /\ \A n \in 0 .. 15 : n \in T => n + 1 \in T
    BY <1>3, <1>4
  <2>2. 0 .. 16 \subseteq T
    <3> HIDE DEF T
    <3> QED BY <2>1, InductionUpTo, 16 \in Nat
  <2> QED BY <2>2, 16 \in 0 .. 16
<1>6. Done(list, m.u, 16) = list
  BY <1>1, DoneIs
<1>7. BaseAfter(s, rn, m, list) = BlockBase(s, rn, list, m)
  BY DEF BlockBase, BaseAfter
<1> QED BY <1>5, <1>6, <1>7 DEF F

\* After stores of the registers in D one by one, with v in the base register.
StrAt(s, rn, list, m, x, v, D) ==
  /\ x \in States /\ x.r = [s.r EXCEPT ![rn] = v] /\ x.npc = s.npc
  /\ Written(s, rn, list, m, x.ram, D)
StrForm(s, rn, list, m, x, D) == StrAt(s, rn, list, m, x, BaseAfter(s, rn, m, D), D)

LEMMA StrOneMore ==
  ASSUME NEW s \in States, NEW rn \in Regs, NEW list \in SUBSET (All \ {rn}), NEW m \in Modes,
         NEW D \in SUBSET list, NEW q \in list \ D, NEW v \in Words, NEW x,
         StrAt(s, rn, list, m, x, v, D), Ea(v, 4, m) = Slot(s, rn, list, m, q)
  PROVE  StrAt(s, rn, list, m, StrImm(x, q, rn, 4, Singly(m)), Moved(v, 4, m), D \union {q})
<1> DEFINE a == Slot(s, rn, list, m, q)
           g == Raw(s, q)
           t == Put(x, a, 4, g)
           w == Moved(v, 4, m)
           y == StrImm(x, q, rn, 4, Singly(m))
<1>1. q \in All /\ q # rn /\ rn # 15 /\ list \in SUBSET All /\ q \in Nat
  BY RamIs, ListIs
<1>a. /\ x \in States /\ x.r = [s.r EXCEPT ![rn] = v] /\ x.npc = s.npc
      /\ Written(s, rn, list, m, x.ram, D)
  BY DEF StrAt
<1>2. s.r \in [Regs -> Words]
  BY DEF States
<1>3. x.r[rn] = v /\ Raw(x, q) = g
  BY <1>1, <1>2, <1>a DEF Raw, All
<1>4. Src(x, rn) = v
  BY <1>1, <1>3 DEF Src
<1>5. At(x, rn, 4, Singly(m)) = a
  BY <1>4, SinglyIs DEF At
<1>6. y = SetReg(t, rn, w)
  <2>1. Moved(Src(x, rn), 4, Singly(m)) = w
    BY <1>4, SinglyIs
  <2>2. WritesBack(Singly(m))
    BY SinglyIs
  <2> HIDE DEF a, g, w
  <2> QED BY <1>3, <1>5, <2>1, <2>2 DEF StrImm, WriteBack
<1>7. a \in Words /\ g \in Words /\ w \in Words
  BY <1>1, SlotTyped, SourceTyped, MovedTyped, 4 \in Nat
<1>8. t \in States /\ t.r = x.r /\ t.npc = x.npc
  <2> HIDE DEF a, g
  <2>1. t \in States
    BY <1>7, <1>a, PutIs
  <2>2. t.r = x.r
    BY <1>a DEF Put, States
  <2>3. t.npc = x.npc
    BY <1>a DEF Put, States
  <2> QED BY <2>1, <2>2, <2>3
<1>9. Written(s, rn, list, m, t.ram, D \union {q})
  BY <1>1, <1>a, WrittenOneMore
<1> DEFINE z == SetReg(t, rn, w)
<1>10. z \in States /\ z.ram = t.ram /\ z.npc = t.npc /\ z.r = [t.r EXCEPT ![rn] = w]
  <2> HIDE DEF t, w
  <2> QED BY <1>7, <1>8 DEF SetReg, States
<1>11. [x.r EXCEPT ![rn] = w] = [s.r EXCEPT ![rn] = w]
  <2> HIDE DEF w
  <2> QED BY <1>2, <1>a
<1> HIDE DEF z, t, y, w
<1>12. y \in States /\ y.npc = s.npc /\ y.ram = t.ram /\ y.r = [s.r EXCEPT ![rn] = w]
  BY <1>6, <1>8, <1>10, <1>11, <1>a DEF z
<1> QED BY <1>9, <1>12 DEF y, w, StrAt

LEMMA StrEachWrites ==
  ASSUME NEW s \in States, NEW rn \in Regs, NEW list \in SUBSET (All \ {rn}), NEW m \in Modes
  PROVE  StrForm(s, rn, list, m, StrEach(s, rn, list, m)[16], list)
<1> DEFINE F == StrEach(s, rn, list, m)
           Form(x, D) == StrForm(s, rn, list, m, x, D)
           P(i) == Form(F[i], Done(list, m.u, i))
           T == {i \in 0 .. 16 : P(i)}
<1>1. list \in SUBSET All /\ m.u \in BOOLEAN
  BY DEF Modes
<1>2. F = [i \in 0 .. 16 |->
            IF i = 0 THEN s
            ELSE IF Turn(m.u, i) \in list THEN StrImm(F[i - 1], Turn(m.u, i), rn, 4, Singly(m))
            ELSE F[i - 1]]
  BY <1>1, StrEachIs
<1> HIDE DEF F
<1>3. P(0)
  <2>1. F[0] = s
    BY <1>2
  <2>2. Done(list, m.u, 0) = {}
    BY <1>1, DoneIs
  <2>3. Form(s, {})
    <3>1. s.r = [s.r EXCEPT ![rn] = s.r[rn]]
      BY DEF States
    <3>2. BaseAfter(s, rn, m, {}) = s.r[rn]
      BY BaseFirst
    <3> QED BY <3>1, <3>2, WrittenNone DEF StrForm, StrAt
  <2> HIDE DEF Form
  <2> QED BY <2>1, <2>2, <2>3
<1>4. ASSUME NEW i \in 0 .. 15, P(i) PROVE P(i + 1)
  <2> DEFINE D == Done(list, m.u, i)
             E == Done(list, m.u, i + 1)
             q == Turn(m.u, i + 1)
             v == BaseAfter(s, rn, m, D)
             x == F[i]
  <2>1. i + 1 \in 0 .. 16 /\ i + 1 # 0 /\ (i + 1) - 1 = i
    OBVIOUS
  <2>2. F[i + 1] = IF q \in list THEN StrImm(x, q, rn, 4, Singly(m)) ELSE x
    BY <1>2, <2>1
  <2>3. Form(x, D)
    BY <1>4
  <2>4. CASE q \in list
    <3>1. v \in Words /\ Ea(v, 4, m) = Slot(s, rn, list, m, q) /\ Moved(v, 4, m) = BaseAfter(s, rn, m, E)
      BY <1>1, <2>4, TurnMoves
    <3>2. D \in SUBSET list /\ q \in list \ D /\ E = D \union {q}
      BY <1>1, <2>4, TurnTakes
    <3>3. StrAt(s, rn, list, m, x, v, D)
      <4> HIDE DEF x, D
      <4> QED BY <2>3 DEF StrForm
    <3>4. StrAt(s, rn, list, m, StrImm(x, q, rn, 4, Singly(m)), Moved(v, 4, m), D \union {q})
      <4> HIDE DEF D, q, v, x
      <4> QED BY <3>1, <3>2, <3>3, StrOneMore
    <3>5. Form(StrImm(x, q, rn, 4, Singly(m)), E)
      <4> HIDE DEF D, E, q, v, x
      <4> QED BY <3>1, <3>2, <3>4 DEF StrForm
    <3>6. F[i + 1] = StrImm(x, q, rn, 4, Singly(m))
      BY <2>2, <2>4
    <3> HIDE DEF Form
    <3> QED BY <3>5, <3>6
  <2>5. CASE q \notin list
    <3>1. F[i + 1] = x /\ E = D
      BY <1>1, <2>2, <2>5, TurnPasses
    <3> HIDE DEF Form
    <3> QED BY <2>3, <3>1
  <2> QED BY <2>4, <2>5
<1>5. P(16)
  <2> HIDE DEF P
  <2>1. 0 \in T /\ \A n \in 0 .. 15 : n \in T => n + 1 \in T
    BY <1>3, <1>4
  <2>2. 0 .. 16 \subseteq T
    <3> HIDE DEF T
    <3> QED BY <2>1, InductionUpTo, 16 \in Nat
  <2> QED BY <2>2, 16 \in 0 .. 16
<1>6. Done(list, m.u, 16) = list
  BY <1>1, DoneIs
<1> QED BY <1>5, <1>6 DEF F

LEMMA LdmIsSequence ==
  ASSUME NEW s \in States, NEW rn \in Regs, NEW list \in SUBSET (All \ {rn}), NEW m \in Modes, m.w
  PROVE  Ldm(s, rn, list, m) = LdrEach(s, rn, list, m)[16]
<1>1. list \in SUBSET All
  OBVIOUS
<1>2. Ldm(s, rn, list, m) = SetReg(Taken(s, rn, list, m, list), rn, BlockBase(s, rn, list, m))
  BY <1>1, LoadingTakes DEF Ldm, BlockWriteBack
<1> QED BY <1>2, LdrEachTakes

LEMMA StmIsSequence ==
  ASSUME NEW s \in States, NEW rn \in Regs, NEW list \in SUBSET (All \ {rn}), NEW m \in Modes, m.w
  PROVE  Stm(s, rn, list, m) = StrEach(s, rn, list, m)[16]
<1> DEFINE t == Storing(s, rn, list, m)[16]
           w == BlockBase(s, rn, list, m)
           x == SetReg(t, rn, w)
           y == StrEach(s, rn, list, m)[16]
<1>1. list \in SUBSET All /\ w = BaseAfter(s, rn, m, list)
  BY DEF BlockBase, BaseAfter
<1>2. Stm(s, rn, list, m) = x
  BY DEF Stm, BlockWriteBack
<1>3. t \in States /\ t.r = s.r /\ t.npc = s.npc /\ Written(s, rn, list, m, t.ram, list)
  BY <1>1, StoringSaves DEF Saves
<1>4. y \in States /\ y.r = [s.r EXCEPT ![rn] = w] /\ y.npc = s.npc /\ Written(s, rn, list, m, y.ram, list)
  <2>1. StrForm(s, rn, list, m, y, list)
    BY StrEachWrites
  <2>2. StrAt(s, rn, list, m, y, w, list)
    BY <1>1, <2>1 DEF StrForm
  <2> QED BY <2>2 DEF StrAt
<1>5. w \in Words
  BY <1>1, BlockBaseTyped
<1> HIDE DEF t, w
<1>6. x \in States /\ x.r = [t.r EXCEPT ![rn] = w] /\ x.npc = t.npc /\ x.ram = t.ram
  BY <1>3, <1>5 DEF SetReg, States
<1> HIDE DEF x, y
<1>7. x.ram = y.ram
  <2>1. x.ram \in [0 .. RamSize - 1 -> Byte] /\ y.ram \in [0 .. RamSize - 1 -> Byte]
    BY <1>4, <1>6 DEF States
  <2> QED BY <1>3, <1>4, <1>6, <2>1, WrittenOnce
<1>8. x = y
  BY <1>3, <1>4, <1>6, <1>7, SameState
<1> QED BY <1>2, <1>8 DEF y

\* A block transfer with write-back is the same as the single transfers of its
\* registers, in the order that its direction gives (handle_ldm and handle_stm
\* of src/cpu/memops.c against handle_ldr_* and handle_str_*).
THEOREM BlocksAreSequences == LsSpec => []MultipleIsSequence
<1>1. LsIInv => MultipleIsSequence
  <2> SUFFICES ASSUME LsIInv, NEW rn \in Regs, NEW p \in BOOLEAN, NEW u \in BOOLEAN,
                      NEW list \in (SUBSET (All \ {rn})) \ {{}}
               PROVE  LET m == [p |-> p, u |-> u, w |-> TRUE]
                      IN  /\ Ldm(st, rn, list, m) = LdrEach(st, rn, list, m)[16]
                          /\ Stm(st, rn, list, m) = StrEach(st, rn, list, m)[16]
    BY DEF MultipleIsSequence
  <2> DEFINE m == [p |-> p, u |-> u, w |-> TRUE]
  <2>1. st \in States
    BY DEF LsIInv, LsTypeOK
  <2>2. m \in Modes /\ m.w
    BY DEF Modes
  <2>3. list \in SUBSET (All \ {rn})
    OBVIOUS
  <2> HIDE DEF m
  <2>4. Ldm(st, rn, list, m) = LdrEach(st, rn, list, m)[16]
    BY <2>1, <2>2, <2>3, LdmIsSequence
  <2>5. Stm(st, rn, list, m) = StrEach(st, rn, list, m)[16]
    BY <2>1, <2>2, <2>3, StmIsSequence
  <2> QED BY <2>4, <2>5 DEF m
<1> QED BY <1>1, LiesAlways, PTL

(***************************************************************************)
(* Block transfers as push and pop: what a list's registers held is found  *)
(* at their addresses, words elsewhere are as they were, and the mirrored  *)
(* mode goes back over the same addresses.                                 *)
(***************************************************************************)
LEMMA SameWord ==
  ASSUME NEW s, NEW t, NEW a \in Words,
         \A x \in a .. a + 3 : a + 4 <= RamSize => t.ram[x] = s.ram[x]
  PROVE  Get(t, a, 4) = Get(s, a, 4)
<1>1. a \in Nat /\ RamSize \in Nat
  BY WordsAre, RamIs
<1>2. CASE a + 4 > RamSize
  BY <1>1, <1>2 DEF Get
<1>3. CASE a + 4 <= RamSize
  <2>1. t.ram[a] = s.ram[a] /\ t.ram[a + 1] = s.ram[a + 1] /\ t.ram[a + 2] = s.ram[a + 2] /\ t.ram[a + 3] = s.ram[a + 3]
    BY <1>1, <1>3
  <2>2. ~(a + 4 > RamSize)
    BY <1>1, <1>3
  <2> QED BY <1>3, <2>1, <2>2 DEF Get
<1> QED BY <1>1, <1>2, <1>3

LEMMA SetRegReads ==
  ASSUME NEW s \in States, NEW q \in Regs, NEW v \in Words
  PROVE  /\ SetReg(s, q, v) \in States /\ SetReg(s, q, v).ram = s.ram
         /\ SetReg(s, q, v).r[q] = v
         /\ \A x \in Regs : x # q => SetReg(s, q, v).r[x] = s.r[x]
<1>1. SetReg(s, q, v) \in States /\ SetReg(s, q, v).ram = s.ram
      /\ SetReg(s, q, v).r = [s.r EXCEPT ![q] = v] /\ SetReg(s, q, v).r[q] = v
  BY SetRegIs
<1>2. s.r \in [Regs -> Words]
  BY DEF States
<1> QED BY <1>1, <1>2

\* What a push does: the base moves, the other registers stay, and RAM holds
\* the listed registers at their addresses, the rest as before.
Pushes(s, rn, list, m, t) ==
  /\ t \in States
  /\ t.r[rn] = BlockBase(s, rn, list, m) /\ \A q \in Regs : q # rn => t.r[q] = s.r[q]
  /\ Written(s, rn, list, m, t.ram, list)
  /\ \A w \in StoredFor(s, rn, list, m, list) : w \in Records /\ Lies(t.ram, w)

LEMMA PushIs ==
  ASSUME NEW s \in States, NEW rn \in Regs, NEW list \in SUBSET All, NEW m, m.w
  PROVE  Pushes(s, rn, list, m, Stm(s, rn, list, m))
<1> DEFINE t == Storing(s, rn, list, m)[16]
           b == BlockBase(s, rn, list, m)
<1>1. Saves(s, t, StoredFor(s, rn, list, m, list)) /\ Written(s, rn, list, m, t.ram, list)
  BY StoringSaves
<1>2. Stm(s, rn, list, m) = SetReg(t, rn, b)
  BY DEF Stm, BlockWriteBack
<1>3. b \in Words
  BY BlockBaseTyped
<1> HIDE DEF t, b
<1>4. t \in States /\ t.r = s.r
      /\ \A w \in StoredFor(s, rn, list, m, list) : w \in Records /\ Lies(t.ram, w)
  BY <1>1 DEF Saves, Stores
<1>5. SetReg(t, rn, b) \in States /\ SetReg(t, rn, b).ram = t.ram /\ SetReg(t, rn, b).r[rn] = b
      /\ \A q \in Regs : q # rn => SetReg(t, rn, b).r[q] = t.r[q]
  BY <1>3, <1>4, SetRegReads
<1> QED BY <1>1, <1>2, <1>4, <1>5 DEF b, Pushes

\* Each word of a push holds its register.
LEMMA PushSaves ==
  ASSUME NEW s \in States, NEW rn \in Regs, NEW list \in SUBSET Regs, NEW m, m.w, NEW q \in list,
         Slot(s, rn, list, m, q) + 4 <= RamSize
  PROVE  Get(Stm(s, rn, list, m), Slot(s, rn, list, m, q), 4) = s.r[q]
<1> DEFINE t == Stm(s, rn, list, m)
           a == Slot(s, rn, list, m, q)
           w == Stored(a, 4, Raw(s, q))
<1>1. list \in SUBSET All /\ q \in All /\ q # 15 /\ q \in Nat
  BY RamIs DEF All
<1>2. a \in Words /\ Raw(s, q) \in Words /\ Raw(s, q) = s.r[q]
  BY <1>1, SlotTyped, SourceTyped
<1>3. t \in States /\ w \in Records /\ Lies(t.ram, w)
  <2>1. w \in StoredFor(s, rn, list, m, list)
    BY DEF StoredFor
  <2> HIDE DEF w
  <2> QED BY <1>1, <2>1, PushIs DEF Pushes, t
<1>4. w = [at |-> a, n |-> 4, val |-> s.r[q]]
  <2>1. w = [at |-> a, n |-> 4, val |-> Low(Raw(s, q), 4)]
    <3> HIDE DEF a
    <3> QED BY <1>2, StoredIs DEF a
  <2>2. Low(Raw(s, q), 4) = Raw(s, q)
    BY <1>2, LowIs
  <2> QED BY <1>2, <2>1, <2>2
<1> HIDE DEF t, w, a
<1>5. Get(t, w.at, 4) = w.val
  BY <1>3, <1>4, WordLies
<1> QED BY <1>4, <1>5 DEF t, a

\* A word that none of the addresses touches is as it was.
KeepsOthers(s, rn, list, m, t) ==
  \A a \in Words :
    (\A q \in list : Slot(s, rn, list, m, q) + 4 <= a \/ a + 4 <= Slot(s, rn, list, m, q)) =>
    Get(t, a, 4) = Get(s, a, 4)

LEMMA PushKeeps ==
  ASSUME NEW s \in States, NEW rn \in Regs, NEW list \in SUBSET All, NEW m, m.w
  PROVE  KeepsOthers(s, rn, list, m, Stm(s, rn, list, m))
<1> SUFFICES ASSUME NEW a \in Words,
                    \A q \in list : Slot(s, rn, list, m, q) + 4 <= a \/ a + 4 <= Slot(s, rn, list, m, q)
             PROVE  Get(Stm(s, rn, list, m), a, 4) = Get(s, a, 4)
  BY DEF KeepsOthers
<1> DEFINE t == Stm(s, rn, list, m)
<1>1. Written(s, rn, list, m, t.ram, list)
  BY PushIs DEF Pushes
<1>2. ASSUME NEW x \in a .. a + 3, a + 4 <= RamSize PROVE t.ram[x] = s.ram[x]
  <2>1. a \in Nat /\ RamSize \in Nat /\ x \in 0 .. RamSize - 1
    BY <1>2, WordsAre, RamIs
  <2>2. ASSUME NEW q \in list PROVE ~Covers(s, rn, list, m, q, x)
    <3> DEFINE c == Slot(s, rn, list, m, q)
    <3>1. c \in Nat
      <4>1. q \in Nat
        BY ListIs
      <4>2. c \in Words
        BY <4>1, SlotTyped
      <4> HIDE DEF c
      <4> QED BY ONLY <4>2, WordsAre
    <3>2. c + 4 <= a \/ a + 4 <= c
      OBVIOUS
    <3> HIDE DEF c
    <3>3. x \notin c .. c + 3
      BY <2>1, <3>1, <3>2
    <3> QED BY <3>3 DEF Covers, c
  <2> HIDE DEF t
  <2> QED BY <1>1, <2>1, <2>2 DEF Written
<1> HIDE DEF t
<1> QED BY <1>2, SameWord DEF t

\* So it is after a single store elsewhere.
LEMMA PutApart ==
  ASSUME NEW s \in States, NEW a \in Words, NEW v \in Words, NEW c \in Words, a + 4 <= c \/ c + 4 <= a
  PROVE  Get(Put(s, a, 4, v), c, 4) = Get(s, c, 4)
<1> DEFINE t == Put(s, a, 4, v)
<1>1. ASSUME NEW x \in c .. c + 3, c + 4 <= RamSize PROVE t.ram[x] = s.ram[x]
  <2>1. a \in Nat /\ c \in Nat /\ RamSize \in Nat
    BY WordsAre, RamIs
  <2>2. x \in 0 .. RamSize - 1 /\ x \notin a .. a + 4 - 1
    BY <1>1, <2>1
  <2>3. t.ram[x] = Afterwards(s, a, 4, v, x)
    BY <2>2, PutReads
  <2> QED BY <2>2, <2>3 DEF Afterwards
<1> HIDE DEF t
<1> QED BY <1>1, SameWord DEF t

\* What a pop does: the listed registers are found, the base moves, the rest stays.
Pops(s, rn, list, m, t) ==
  /\ t \in States /\ t.ram = s.ram
  /\ t.r[rn] = BlockBase(s, rn, list, m)
  /\ \A q \in list : t.r[q] = Found(s, rn, list, m, q)
  /\ \A q \in Regs \ list : q # rn => t.r[q] = s.r[q]

LEMMA PopIs ==
  ASSUME NEW s \in States, NEW rn \in Regs, NEW list \in SUBSET Regs, rn \notin list, NEW m, m.w
  PROVE  Pops(s, rn, list, m, Ldm(s, rn, list, m))
<1> DEFINE t == Taken(s, rn, list, m, list)
           b == BlockBase(s, rn, list, m)
<1>0. list \in SUBSET All /\ 15 \notin list
  BY RamIs DEF All
<1>1. Ldm(s, rn, list, m) = SetReg(t, rn, b)
  BY <1>0, LoadingTakes DEF Ldm, BlockWriteBack
<1>2. t \in States /\ b \in Words
  BY <1>0, TakenTyped, BlockBaseTyped
<1>3. t.ram = s.ram /\ t.npc = s.npc
      /\ \A q \in Regs : t.r[q] = IF q \in list THEN Found(s, rn, list, m, q) ELSE s.r[q]
  BY <1>0 DEF Taken
<1> HIDE DEF t, b
<1>4. SetReg(t, rn, b) \in States /\ SetReg(t, rn, b).ram = t.ram /\ SetReg(t, rn, b).npc = t.npc
      /\ SetReg(t, rn, b).r = [t.r EXCEPT ![rn] = b]
  BY <1>2, SetRegIs
<1>5. t.r \in [Regs -> Words]
  BY <1>2 DEF States
<1>6. \A q \in Regs : SetReg(t, rn, b).r[q] = IF q = rn THEN b ELSE t.r[q]
  BY <1>4, <1>5
<1> QED BY <1>1, <1>3, <1>4, <1>6 DEF b, Pops

\* The mode that undoes a mode.
Mirror(m) == [p |-> ~m.p, u |-> ~m.u, w |-> TRUE]

\* After n words in a mode the mirrored mode begins at the same address and
\* ends where the first began.
LEMMA MirrorReturns ==
  ASSUME NEW b \in Words, NEW n \in Nat, NEW m \in Modes, NEW e \in Words,
         e = IF m.u THEN b + 4 * n ELSE b - 4 * n
  PROVE  /\ Moved(b, 4 * n, m) = e /\ Moved(e, 4 * n, Mirror(m)) = b
         /\ First(e, n, Mirror(m)) = First(b, n, m)
<1>1. b \in Int /\ e \in Int /\ Wrapped(b) = b /\ Wrapped(e) = e
  <2>1. b \in Words /\ e \in Words
    OBVIOUS
  <2> QED BY ONLY <2>1, Wraps, WordsAre
<1>2. m.u \in BOOLEAN /\ m.p \in BOOLEAN /\ Mirror(m).u = ~m.u /\ Mirror(m).p = ~m.p
  BY DEF Modes, Mirror
<1>3. CASE m.u
  <2>1. e = b + 4 * n /\ b = e - 4 * n
    BY <1>1, <1>3
  <2> QED BY <1>1, <1>2, <1>3, <2>1 DEF Moved, First
<1>4. CASE ~m.u
  <2>1. e = b - 4 * n /\ b = e + 4 * n
    BY <1>1, <1>4
  <2> QED BY <1>1, <1>2, <1>4, <2>1 DEF Moved, First
<1> QED BY <1>3, <1>4

\* Without wrapping around, the words lie side by side from the first on.
LEMMA SlotsInRow ==
  ASSUME NEW s \in States, NEW rn \in Regs, NEW list \in SUBSET All, NEW m, NEW q \in list, NEW f \in Nat,
         f = First(s.r[rn], Cardinality(list), m), f + 4 * Cardinality(list) <= W
  PROVE  /\ Slot(s, rn, list, m, q) = f + 4 * Below(list, q)
         /\ Slot(s, rn, list, m, q) \in f .. f + 4 * Cardinality(list) - 4
<1> DEFINE D == Done(list, TRUE, q)
           n == Cardinality(list)
           k == Below(list, q)
<1>1. list \subseteq 0 .. 15 /\ IsFiniteSet(list) /\ n \in Nat /\ q \in Nat
  BY ListIs
<1>2. IsFiniteSet(D) /\ Cardinality(D) = k /\ k \in Nat
  BY <1>1, BelowIs
<1>3. D \subseteq list /\ q \notin D
  BY <1>1 DEF Done
<1>4. k < n
  <2> HIDE DEF D, n, k
  <2>1. D \union {q} \in SUBSET list /\ Cardinality(D \union {q}) = k + 1
    BY <1>2, <1>3, FS_AddElement
  <2>2. Cardinality(D \union {q}) <= Cardinality(list)
    BY <1>1, <2>1, FS_Subset
  <2> QED BY <1>1, <1>2, <2>1, <2>2 DEF n
<1>5. Slot(s, rn, list, m, q) = Wrapped(f + 4 * k)
  BY DEF Slot
<1>6. f + 4 * n <= W
  OBVIOUS
<1> HIDE DEF n, k
<1>7. f + 4 * k \in 0 .. W - 1 /\ f + 4 * k \in f .. f + 4 * n - 4
  BY <1>1, <1>2, <1>4, <1>6, Sizes
<1>8. Wrapped(f + 4 * k) = f + 4 * k
  BY <1>7, Wraps, WordsAre
<1> QED BY <1>5, <1>7, <1>8 DEF n, k
=============================================================================
