---------------------------- MODULE ArithmeticLemmas ----------------------------
(***************************************************************************)
(* Facts about numbers that the proofs of several modules need: induction  *)
(* and recursion over the naturals, powers of two, quotients.              *)
(***************************************************************************)
EXTENDS Integers, FiniteSetTheorems, WellFoundedInduction, TLAPS

(***************************************************************************)
(* Induction over the naturals, and powers of two.                         *)
(***************************************************************************)
\* Every set of naturals with an element has a least one.
LEMMA Least ==
  ASSUME NEW T, T \subseteq Nat, T # {}
  PROVE  \E x \in T : \A y \in T : x <= y
<1> DEFINE R == OpToRel(<, Nat)
<1>1. IsWellFoundedOn(R, Nat)
  BY NatLessThanWellFounded
<1>2. PICK x \in T : \A y \in T : <<y, x>> \notin R
  <2> HIDE DEF R
  <2> QED BY <1>1, WFMin
<1>3. \A y \in T : x <= y
  <2> TAKE y \in T
  <2>1. x \in Nat /\ y \in Nat
    OBVIOUS
  <2>2. <<y, x>> \in R <=> y < x
    BY <2>1 DEF OpToRel
  <2>3. ~(y < x)
    <3> HIDE DEF R
    <3> QED BY <1>2, <2>2
  <2> QED BY <2>1, <2>3
<1> QED BY <1>3

\* Induction, with a set for what is to be shown.
LEMMA Induction ==
  ASSUME NEW T, 0 \in T, \A n \in Nat : n \in T => n + 1 \in T
  PROVE  Nat \subseteq T
<1> SUFFICES ASSUME Nat \ T # {} PROVE FALSE
  OBVIOUS
<1>1. PICK x \in Nat \ T : \A y \in Nat \ T : x <= y
  BY Least
<1>2. x # 0 /\ x - 1 \in Nat /\ ~(x <= x - 1)
  BY <1>1
<1>3. x - 1 \in T
  BY <1>1, <1>2
<1> QED BY <1>2, <1>3, (x - 1) + 1 = x

Recursive(f, N, base, step) == f = [n \in 0 .. N |-> IF n = 0 THEN base ELSE step[n - 1][f[n - 1]]]

\* Recursion: a function is given by its first value and its steps.
LEMMA Recursion ==
  ASSUME NEW base, NEW step, NEW N \in Nat
  PROVE  \E f : Recursive(f, N, base, step)
<1> DEFINE Up(n, f) == f = [m \in 0 .. n |-> IF m = 0 THEN base ELSE step[m - 1][f[m - 1]]]
           T == {n \in Nat : \E f : Up(n, f)}
<1>1. 0 \in T
  <2> DEFINE one == [m \in 0 .. 0 |-> base]
  <2>1. Up(0, one)
    OBVIOUS
  <2> QED BY <2>1
<1>2. ASSUME NEW n \in Nat, n \in T PROVE n + 1 \in T
  <2>1. PICK f : Up(n, f)
    BY <1>2
  <2> DEFINE g == [m \in 0 .. n + 1 |-> IF m <= n THEN f[m] ELSE step[n][f[n]]]
             h == [m \in 0 .. n + 1 |-> IF m = 0 THEN base ELSE step[m - 1][g[m - 1]]]
  <2>2. ASSUME NEW m \in 0 .. n + 1 PROVE g[m] = h[m]
    <3>1. CASE m = 0
      BY <2>1, <3>1
    <3>2. CASE m # 0 /\ m <= n
      <4>1. m \in 0 .. n /\ m - 1 \in 0 .. n + 1 /\ m - 1 <= n
        BY <3>2
      <4>2. g[m] = f[m] /\ g[m - 1] = f[m - 1]
        BY <3>2, <4>1
      <4>3. f[m] = step[m - 1][f[m - 1]]
        BY <2>1, <3>2, <4>1
      <4> QED BY <3>2, <4>2, <4>3
    <3>3. CASE m = n + 1
      <4>1. m # 0 /\ m - 1 = n /\ n \in 0 .. n + 1 /\ ~(m <= n)
        BY <3>3
      <4>2. g[m] = step[n][f[n]] /\ g[n] = f[n]
        BY <4>1
      <4> QED BY <4>1, <4>2
    <3> QED BY <3>1, <3>2, <3>3
  <2>3. g = h
    <3> HIDE DEF g, h
    <3>1. DOMAIN g = 0 .. n + 1 /\ DOMAIN h = 0 .. n + 1 /\ g = [m \in DOMAIN g |-> g[m]] /\ h = [m \in DOMAIN h |-> h[m]]
      BY DEF g, h
    <3> QED BY ONLY <2>2, <3>1
  <2>4. Up(n + 1, g)
    BY <2>3
  <2>5. \E e : Up(n + 1, e)
    <3> HIDE DEF Up, g
    <3> QED BY <2>4
  <2> QED BY <2>5
<1>3. Nat \subseteq T
  <2> HIDE DEF T
  <2> QED BY <1>1, <1>2, Induction
<1>4. \E f : Up(N, f)
  BY <1>3
<1> QED BY <1>4 DEF Recursive

\* Recursion in a set that the steps do not leave.
Stepped(f, N, base, step) == \A n \in 0 .. N : f[n] = IF n = 0 THEN base ELSE step[n][f[n - 1]]

LEMMA RecursionIn ==
  ASSUME NEW S, NEW base \in S, NEW N \in Nat, NEW step \in [1 .. N -> [S -> S]]
  PROVE  \E f \in [0 .. N -> S] : Stepped(f, N, base, step)
<1> DEFINE up == [n \in 0 .. N |-> step[n + 1]]
<1>1. PICK f : Recursive(f, N, base, up)
  BY Recursion
<1>2. ASSUME NEW n \in 0 .. N PROVE f[n] = IF n = 0 THEN base ELSE step[n][f[n - 1]]
  <2>1. f[n] = IF n = 0 THEN base ELSE up[n - 1][f[n - 1]]
    <3> HIDE DEF up
    <3> QED BY <1>1 DEF Recursive
  <2>2. n # 0 => up[n - 1] = step[n]
    BY n # 0 => n - 1 \in 0 .. N /\ (n - 1) + 1 = n
  <2> QED BY <2>1, <2>2
<1>3. 0 .. N \subseteq {n \in Nat : n <= N => f[n] \in S}
  <2> DEFINE T == {n \in Nat : n <= N => f[n] \in S}
  <2>1. 0 \in T
    BY <1>2
  <2>2. ASSUME NEW n \in Nat, n \in T PROVE n + 1 \in T
    <3> SUFFICES ASSUME n + 1 <= N PROVE f[n + 1] \in S
      OBVIOUS
    <3>1. n + 1 \in 1 .. N /\ n + 1 \in 0 .. N /\ n + 1 # 0 /\ (n + 1) - 1 = n /\ f[n] \in S
      BY <2>2
    <3>2. step[n + 1] \in [S -> S]
      BY <3>1
    <3>3. f[n + 1] = step[n + 1][f[n]]
      BY <1>2, <3>1
    <3> QED BY <3>1, <3>2, <3>3
  <2>3. Nat \subseteq T
    <3> HIDE DEF T
    <3> QED BY <2>1, <2>2, Induction
  <2> QED BY <2>3
<1>4. f \in [0 .. N -> S]
  <2>1. DOMAIN f = 0 .. N /\ f = [n \in DOMAIN f |-> f[n]]
    <3> HIDE DEF up
    <3> QED BY <1>1 DEF Recursive
  <2>2. \A n \in 0 .. N : f[n] \in S
    BY <1>3
  <2> QED BY <2>1, <2>2
<1>5. Stepped(f, N, base, step)
  BY <1>2 DEF Stepped
<1> QED BY <1>4, <1>5

\* Induction up to a number.
LEMMA InductionUpTo ==
  ASSUME NEW N \in Nat, NEW T, 0 \in T, \A n \in 0 .. N - 1 : n \in T => n + 1 \in T
  PROVE  0 .. N \subseteq T
<1> DEFINE R == {n \in Nat : n <= N => n \in T}
<1>1. 0 \in R
  OBVIOUS
<1>2. \A n \in Nat : n \in R => n + 1 \in R
  OBVIOUS
<1>3. Nat \subseteq R
  <2> HIDE DEF R
  <2> QED BY <1>1, <1>2, Induction
<1> QED BY <1>3

\* The powers of two, by the number of subsets.
LEMMA PowerIsCount ==
  ASSUME NEW n \in Nat
  PROVE  /\ IsFiniteSet(SUBSET (1 .. n)) /\ Cardinality(SUBSET (1 .. n)) = 2^n
         /\ 2^n \in Nat
<1>1. IsFiniteSet(1 .. n) /\ Cardinality(1 .. n) = n
  BY FS_Interval
<1>2. IsFiniteSet(SUBSET (1 .. n)) /\ Cardinality(SUBSET (1 .. n)) = 2^n
  BY <1>1, FS_SUBSET
<1> QED BY <1>2, FS_CardinalityType

LEMMA PowerDoubles ==
  ASSUME NEW n \in Nat
  PROVE  2^(n + 1) = 2 * 2^n
<1> DEFINE A == SUBSET (1 .. n)
           With(T) == T \union {n + 1}
           B == {With(T) : T \in A}
           f == [T \in A |-> With(T)]
<1>1. IsFiniteSet(A) /\ Cardinality(A) = 2^n /\ 2^n \in Nat
  BY PowerIsCount
<1>2. SUBSET (1 .. n + 1) = A \union B
  <2>1. ASSUME NEW S \in SUBSET (1 .. n + 1) PROVE S \in A \union B
    <3>1. CASE n + 1 \in S
      <4>1. S \ {n + 1} \in A /\ S = With(S \ {n + 1})
        BY <3>1
      <4> QED BY <4>1
    <3>2. CASE n + 1 \notin S
      <4>1. \A i \in S : i \in 1 .. n
        BY <3>2
      <4> QED BY <4>1
    <3> QED BY <3>1, <3>2
  <2>2. 1 .. n \subseteq 1 .. n + 1 /\ n + 1 \in 1 .. n + 1
    OBVIOUS
  <2> QED BY <2>1, <2>2
<1>3. n + 1 \notin 1 .. n
  OBVIOUS
<1>4. A \cap B = {}
  BY <1>3
<1>5. f \in Bijection(A, B)
  <2>1. \A S, T \in A : With(S) = With(T) => S = T
    BY <1>3
  <2>2. f \in [A -> B]
    OBVIOUS
  <2>3. \A S \in A : f[S] = With(S)
    OBVIOUS
  <2>4. \A t \in B : \E S \in A : f[S] = t
    <3>1. TAKE t \in B
    <3>2. PICK S \in A : t = With(S)
      BY <3>1
    <3> QED BY <3>2, <2>3
  <2>5. \A S, T \in A : f[S] = f[T] => S = T
    <3> HIDE DEF A, B, f, With
    <3> QED BY <2>1, <2>3
  <2> HIDE DEF A, B, f, With
  <2>6. f \in Injection(A, B)
    BY <2>2, <2>5 DEF Injection, IsInjective
  <2>7. f \in Surjection(A, B)
    BY <2>2, <2>4 DEF Surjection
  <2> QED BY <2>6, <2>7 DEF Bijection
<1> HIDE DEF A, B, f, With
<1>6. IsFiniteSet(B) /\ Cardinality(B) = Cardinality(A)
  <2>1. ExistsBijection(A, B)
    BY <1>5 DEF ExistsBijection
  <2> QED BY <1>1, <2>1, FS_Bijection
<1>7. Cardinality(A \union B) = Cardinality(A) + Cardinality(B) - Cardinality(A \cap B)
  BY <1>1, <1>6, FS_Union
<1>8. Cardinality(A \cap B) = 0
  BY <1>4, FS_EmptySet
<1>9. Cardinality(SUBSET (1 .. n + 1)) = 2^(n + 1)
  BY PowerIsCount, n + 1 \in Nat
<1> DEFINE p == 2^n
           q == 2^(n + 1)
<1>10. p \in Nat /\ Cardinality(A) = p
  BY <1>1
<1>11. Cardinality(A \union B) = q
  BY <1>2, <1>9
<1> HIDE DEF p, q
<1>12. q = 2 * p
  BY <1>6, <1>7, <1>8, <1>10, <1>11
<1> QED BY <1>12 DEF p, q

(***************************************************************************)
(* Quotients, remainders and powers of two.                                *)
(***************************************************************************)
LEMMA DivMod ==
  ASSUME NEW x \in Nat, NEW m \in Nat \ {0}
  PROVE  x \div m \in Nat /\ x % m \in 0 .. m - 1 /\ x = (m * (x \div m)) + (x % m)
OBVIOUS

LEMMA DivUnique ==
  ASSUME NEW m \in Nat \ {0}, NEW q \in Nat, NEW r \in 0 .. m - 1
  PROVE  ((m * q) + r) \div m = q /\ ((m * q) + r) % m = r
OBVIOUS

LEMMA DivMonotone ==
  ASSUME NEW a \in Nat, NEW b \in Nat, a <= b, NEW m \in Nat \ {0}
  PROVE  a \div m <= b \div m
OBVIOUS

LEMMA ModTyped ==
  ASSUME NEW x \in Int, NEW m \in Nat \ {0}
  PROVE  x % m \in 0 .. m - 1
OBVIOUS

\* Less than a product is a quotient less than the factor.
LEMMA DivBelow ==
  ASSUME NEW m \in Nat \ {0}, NEW k \in Nat, NEW x \in 0 .. (m * k) - 1
  PROVE  x \div m \in 0 .. k - 1
<1> DEFINE q == x \div m
           r == x % m
<1>a. m * k \in Nat /\ x \in Nat /\ x < m * k
  OBVIOUS
<1>1. q \in Nat /\ r \in 0 .. m - 1 /\ x = (m * q) + r
  BY <1>a, DivMod
<1> HIDE DEF q, r
<1>2. ~(q >= k)
  <2> SUFFICES ASSUME q >= k PROVE FALSE
    OBVIOUS
  <2>1. PICK d \in Nat : q = k + d
    BY <1>1
  <2>2. m * q = (m * k) + (m * d) /\ m * d \in Nat
    BY <2>1
  <2> QED BY <1>1, <1>a, <2>2
<1>3. q \in 0 .. k - 1
  BY <1>1, <1>2
<1> QED BY <1>3 DEF q

LEMMA PowerTyped == \A n \in Nat : 2^n \in Nat \ {0}
<1> DEFINE T == {n \in Nat : 2^n \in Nat \ {0}}
<1>1. 0 \in T
  OBVIOUS
<1>2. \A n \in Nat : n \in T => n + 1 \in T
  <2> SUFFICES ASSUME NEW n \in Nat, n \in T PROVE 2^(n + 1) \in Nat \ {0}
    OBVIOUS
  <2> QED BY PowerDoubles
<1>3. Nat \subseteq T
  <2> HIDE DEF T
  <2> QED BY <1>1, <1>2, Induction
<1> QED BY <1>3

\* 2^(a + b) = 2^a * 2^b
LEMMA PowerSum == \A a, b \in Nat : 2^(a + b) = 2^a * 2^b
<1> SUFFICES ASSUME NEW a \in Nat PROVE \A b \in Nat : 2^(a + b) = 2^a * 2^b
  OBVIOUS
<1> DEFINE T == {b \in Nat : 2^(a + b) = 2^a * 2^b}
<1>1. 0 \in T
  BY PowerTyped, a + 0 = a, 2^0 = 1
<1>2. \A b \in Nat : b \in T => b + 1 \in T
  <2> SUFFICES ASSUME NEW b \in Nat, b \in T PROVE 2^(a + (b + 1)) = 2^a * 2^(b + 1)
    OBVIOUS
  <2> DEFINE p == 2^a
             q == 2^b
  <2>1. 2^(a + (b + 1)) = 2 * 2^(a + b)
    BY PowerDoubles, a + b \in Nat, a + (b + 1) = (a + b) + 1
  <2>2. 2^(b + 1) = 2 * q
    BY PowerDoubles
  <2>3. 2^(a + b) = p * q
    OBVIOUS
  <2>4. p \in Nat /\ q \in Nat
    BY PowerTyped
  <2> HIDE DEF p, q
  <2>5. p * (2 * q) = 2 * (p * q)
    BY <2>4
  <2> QED BY <2>1, <2>2, <2>3, <2>5 DEF p
<1>3. Nat \subseteq T
  <2> HIDE DEF T
  <2> QED BY <1>1, <1>2, Induction
<1> QED BY <1>3

\* Powers of two grow with the exponent.
LEMMA PowerMonotone ==
  ASSUME NEW a \in Nat, NEW b \in Nat, a <= b
  PROVE  2^a <= 2^b
<1> DEFINE p == 2^a
           q == 2^(b - a)
<1>1. 2^b = p * q
  BY PowerSum, b - a \in Nat, a + (b - a) = b
<1>2. p \in Nat /\ q \in Nat \ {0}
  BY PowerTyped, b - a \in Nat
<1> HIDE DEF p, q
<1>3. p <= p * q
  BY <1>2
<1> QED BY <1>1, <1>3 DEF p
\* Operations that the provers do not look into.
Times(a, b) == a * b
Quo(a, b) == a \div b
Rem(a, b) == a % b

\* A number in a system of base b: quotients of quotients, and its digits.
LEMMA DivDiv ==
  ASSUME NEW x \in Nat, NEW b \in Nat \ {0}, NEW c \in Nat \ {0}
  PROVE  /\ Quo(Quo(x, b), c) = Quo(x, Times(b, c))
         /\ Rem(x, Times(b, c)) = Times(b, Rem(Quo(x, b), c)) + Rem(x, b)
         /\ Times(b, c) \in Nat \ {0}
<1> DEFINE m == b * c
           q == x \div b
           r == x % b
           k == q \div c
           l == q % c
           t == (b * l) + r
<1>1. m \in Nat \ {0}
  OBVIOUS
<1>2. q \in Nat /\ r \in 0 .. b - 1 /\ x = (b * q) + r
  BY DivMod
<1> HIDE DEF q, r
<1>3. k \in Nat /\ l \in 0 .. c - 1 /\ q = (c * k) + l
  BY <1>2, DivMod
<1> HIDE DEF k, l
<1>4. x = (m * k) + t
  <2>1. b * q = (b * (c * k)) + (b * l)
    BY <1>3
  <2>2. b * (c * k) = m * k
    BY <1>3
  <2> QED BY <1>2, <1>3, <2>1, <2>2
<1>5. t \in 0 .. m - 1
  <2>1. l + 1 <= c /\ l \in Nat
    BY <1>3
  <2>2. b * (l + 1) <= b * c
    <3>1. PICK d \in Nat : c = (l + 1) + d
      BY <2>1
    <3>2. b * c = (b * (l + 1)) + (b * d) /\ b * d \in Nat /\ b * (l + 1) \in Nat
      BY <2>1, <3>1
    <3> QED BY <3>2
  <2>3. b * (l + 1) = (b * l) + b /\ b * l \in Nat
    BY <2>1
  <2> QED BY <1>2, <2>2, <2>3
<1> HIDE DEF m, t
<1>6. x \div m = k /\ x % m = t
  BY <1>1, <1>3, <1>4, <1>5, DivUnique
<1> QED BY <1>1, <1>6 DEF m, t, k, l, q, r, Times, Quo, Rem

LEMMA FourDigits ==
  ASSUME NEW b \in Nat \ {0}, NEW m \in Nat \ {0}, m = Times(b, b), NEW v \in 0 .. (m * m) - 1
  PROVE  v = (v % b) + ((v \div b) % b) * b + ((v \div m) % b) * m
             + ((v \div Times(m, b)) % b) * Times(m, b)
<1> DEFINE u == v \div m
           w == v % m
<1>1. v \in Nat /\ b \in Nat \ {0} /\ m \in Nat \ {0}
  OBVIOUS
<1>2. u \in Nat /\ w \in Nat /\ v = (m * u) + w
  BY ONLY <1>1, DivMod
<1>3. u \in 0 .. m - 1
  BY <1>1, DivBelow
<1>4. w = Times(b, (v \div b) % b) + (v % b)
  <2>1. Rem(v, Times(b, b)) = Times(b, Rem(Quo(v, b), b)) + Rem(v, b)
    BY ONLY <1>1, DivDiv
  <2> QED BY <2>1 DEF Quo, Rem
<1>5. u \div b = v \div Times(m, b)
  <2>1. Quo(Quo(v, m), b) = Quo(v, Times(m, b))
    BY ONLY <1>1, DivDiv
  <2> QED BY <2>1 DEF Quo
<1> HIDE DEF u, w
<1>6. u = Times(b, (u \div b) % b) + (u % b)
  <2>1. u % m = Times(b, (u \div b) % b) + (u % b)
    <3>1. Rem(u, Times(b, b)) = Times(b, Rem(Quo(u, b), b)) + Rem(u, b)
      BY ONLY <1>1, <1>2, DivDiv
    <3> QED BY <3>1 DEF Quo, Rem
  <2>2. u % m = u
    BY <1>3
  <2> QED BY <2>1, <2>2
<1> DEFINE d0 == v % b
           d1 == (v \div b) % b
           d2 == u % b
           d3 == (u \div b) % b
<1>7. d0 \in Nat /\ d1 \in Nat /\ d2 \in Nat /\ d3 \in Nat
  BY ONLY <1>1, <1>2, DivMod
<1>8. d2 = (v \div m) % b
  BY DEF u
<1>9. d3 = (v \div Times(m, b)) % b
  BY <1>5
<1>10. w = (b * d1) + d0 /\ u = (b * d3) + d2
  BY <1>4, <1>6 DEF Times
<1> HIDE DEF d0, d1, d2, d3
<1>11. m * u = (d3 * (m * b)) + (d2 * m)
  BY <1>7, <1>10
<1>12. b * d1 = d1 * b
  BY <1>7
<1>13. v = d0 + d1 * b + d2 * m + d3 * (m * b)
  <2> DEFINE x1 == d1 * b
             x2 == d2 * m
             x3 == d3 * (m * b)
  <2>1. x1 \in Nat /\ x2 \in Nat /\ x3 \in Nat
    BY <1>7
  <2>2. v = (x3 + x2) + (x1 + d0)
    BY <1>2, <1>10, <1>11, <1>12
  <2> HIDE DEF x1, x2, x3
  <2>3. v = d0 + x1 + x2 + x3
    BY <1>7, <2>1, <2>2
  <2> QED BY <2>3 DEF x1, x2, x3
<1> QED BY <1>13, <1>8, <1>9 DEF d0, d1, Times
=============================================================================
