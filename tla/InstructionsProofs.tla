--------------------------- MODULE InstructionsProofs ---------------------------
(***************************************************************************)
(* Instructions: the flags of the arithmetic and what they tell after any  *)
(* sequence of data-processing instructions, for words of every size;      *)
(* supervisor calls for every program, address space and set of status     *)
(* values; the decoder for every rule table and instruction word.          *)
(***************************************************************************)
EXTENDS DataPath, Exceptions, K12Decode, ShifterProofs, SequenceTheorems

(***************************************************************************)
(* The flags.  The arithmetic modulo M is first replaced by a case on      *)
(* whether the sum or difference leaves the range of words; what remains   *)
(* is linear.                                                              *)
(***************************************************************************)
\* One value brought back to a word.
Wrap(x) == IF x >= M THEN x - M ELSE IF x < 0 THEN x + M ELSE x

LEMMA ModOnce ==
  ASSUME NEW m \in Nat \ {0}, NEW x \in 0 .. m - 1
  PROVE  x % m = x /\ (x + m) % m = x /\ (x - m) % m = x
OBVIOUS

LEMMA Wraps ==
  ASSUME NEW x \in Int, -M <= x, x < 2 * M
  PROVE  x % M = Wrap(x) /\ Wrap(x) \in Word
<1>1. M \in Nat \ {0}
  BY HalfAssumption DEF M
<1>2. CASE x >= M
  BY <1>1, <1>2, ModOnce, (x - M) + M = x DEF Wrap, Word
<1>3. CASE x < 0
  BY <1>1, <1>3, ModOnce, (x + M) - M = x DEF Wrap, Word
<1>4. CASE 0 <= x /\ x < M
  BY <1>1, <1>4, ModOnce DEF Wrap, Word
<1> QED BY <1>1, <1>2, <1>3, <1>4

LEMMA SubFields ==
  ASSUME NEW a \in Word, NEW b \in Word
  PROVE  /\ Sub(a, b).res = Wrap(a - b)
         /\ Sub(a, b).n <=> Neg(Wrap(a - b))
         /\ Sub(a, b).z <=> Wrap(a - b) = 0
         /\ Sub(a, b).c <=> a >= b
         /\ Sub(a, b).v <=> DiffV(a, b, Wrap(a - b))
<1>1. (a - b) % M = Wrap(a - b)
  BY Wraps, HalfAssumption DEF Word, M
<1> QED BY <1>1 DEF Sub, Result

\* After CMP, SUBS or RSBS every condition means what its name says, for words
\* of every size (handle_cmp, handle_sub, handle_rsb, arm_condition_holds).
THEOREM ConditionsTellOrder ==
  ASSUME NEW a \in Word, NEW b \in Word
  PROVE  TellsOrder(Sub(a, b), a, b)
<1> DEFINE f == Sub(a, b)
           d == Wrap(a - b)
<1>1. (f.n <=> Neg(d)) /\ (f.z <=> d = 0) /\ (f.c <=> a >= b) /\ (f.v <=> DiffV(a, b, d))
  BY SubFields
<1>2. f.z <=> a = b
  BY <1>1, HalfAssumption DEF Wrap, Word, M
<1>3. (f.n <=> f.v) <=> Signed(a) >= Signed(b)
  BY <1>1, HalfAssumption DEF Wrap, Word, M, DiffV, Neg, Signed
<1>4. f.n \in BOOLEAN /\ f.v \in BOOLEAN
  BY DEF Sub, Result, Neg, DiffV
<1>5. (f.n = f.v) <=> Signed(a) >= Signed(b)
  BY <1>3, <1>4
<1>6. (Signed(a) = Signed(b) <=> a = b) /\ Signed(a) \in Int /\ Signed(b) \in Int
  BY HalfAssumption DEF Word, M, Signed, Neg
<1> HIDE DEF f
<1>7. /\ Holds("EQ", f) <=> a = b
      /\ Holds("NE", f) <=> a # b
      /\ Holds("CS", f) <=> a >= b
      /\ Holds("CC", f) <=> ~(a >= b)
      /\ Holds("HI", f) <=> a >= b /\ a # b
      /\ Holds("LS", f) <=> ~(a >= b) \/ a = b
  BY <1>1, <1>2 DEF Holds
<1>8. /\ Holds("GE", f) <=> Signed(a) >= Signed(b)
      /\ Holds("LT", f) <=> ~(Signed(a) >= Signed(b))
      /\ Holds("GT", f) <=> Signed(a) >= Signed(b) /\ a # b
      /\ Holds("LE", f) <=> ~(Signed(a) >= Signed(b)) \/ a = b
  BY <1>2, <1>5 DEF Holds
<1>9. a \in Int /\ b \in Int
  BY HalfAssumption DEF Word, M
<1>10. TellsOrder(f, a, b)
  BY <1>6, <1>7, <1>8, <1>9 DEF TellsOrder
<1> QED BY <1>10 DEF f

-----------------------------------------------------------------------------
LEMMA AdcFields ==
  ASSUME NEW a \in Word, NEW b \in Word, NEW cin \in BOOLEAN
  PROVE  /\ Adc(a, b, cin).res = Wrap(a + b + Bit(cin))
         /\ Adc(a, b, cin).c <=> a + b + Bit(cin) >= M
         /\ Adc(a, b, cin).v <=> SumV(a, Wrap(b + Bit(cin)), Wrap(a + b + Bit(cin)))
<1>1. \A k \in {0, 1} : (a + b + k) % M = Wrap(a + b + k) /\ (b + k) % M = Wrap(b + k)
  BY Wraps, HalfAssumption DEF Word, M
<1>2. /\ (a + b + Bit(cin)) % M = Wrap(a + b + Bit(cin))
      /\ (b + Bit(cin)) % M = Wrap(b + Bit(cin))
  BY <1>1 DEF Bit
<1> QED BY <1>2 DEF Adc, Result

LEMMA SbcFields ==
  ASSUME NEW a \in Word, NEW b \in Word, NEW cin \in BOOLEAN
  PROVE  LET borrow == 1 - Bit(cin)
         IN  /\ Sbc(a, b, cin).res = Wrap(a - b - borrow)
             /\ Sbc(a, b, cin).c <=> a - b - borrow >= 0
             /\ Sbc(a, b, cin).v <=> DiffV(a, Wrap(b + borrow), Wrap(a - b - borrow))
<1> DEFINE borrow == 1 - Bit(cin)
<1>1. \A k \in {0, 1} : (a - b - k) % M = Wrap(a - b - k) /\ (b + k) % M = Wrap(b + k)
  BY Wraps, HalfAssumption DEF Word, M
<1>2. /\ (a - b - borrow) % M = Wrap(a - b - borrow)
      /\ (b + borrow) % M = Wrap(b + borrow)
  BY <1>1 DEF Bit
<1> QED BY <1>2 DEF Sbc, Result

\* V of ADC is right but for one operand: with C set and b the largest positive
\* number it is the opposite of the overflow, because b + C is wrapped to a
\* negative number before the signs are compared (handle_adc).
THEOREM AdcOverflowExact ==
  ASSUME NEW a \in Word, NEW b \in Word, NEW cin \in BOOLEAN
  PROVE  LET fits == Signed(a) + Signed(b) + Bit(cin) \in -H .. H - 1
         IN  Adc(a, b, cin).v <=> IF cin /\ b = H - 1 THEN fits ELSE ~fits
<1> DEFINE fits == Signed(a) + Signed(b) + Bit(cin) \in -H .. H - 1
<1>1. Adc(a, b, cin).v <=> SumV(a, Wrap(b + Bit(cin)), Wrap(a + b + Bit(cin)))
  BY AdcFields
<1>2. SumV(a, Wrap(b + Bit(cin)), Wrap(a + b + Bit(cin)))
        <=> IF cin /\ b = H - 1 THEN fits ELSE ~fits
  <2>1. CASE cin
    BY <2>1, HalfAssumption DEF SumV, Wrap, Neg, Signed, Bit, Word, M
  <2>2. CASE ~cin
    BY <2>2, HalfAssumption DEF SumV, Wrap, Neg, Signed, Bit, Word, M
  <2> QED BY <2>1, <2>2
<1> QED BY <1>1, <1>2

\* The same of SBC, and so of RSC, when there is a borrow (handle_sbc, handle_rsc).
THEOREM SbcOverflowExact ==
  ASSUME NEW a \in Word, NEW b \in Word, NEW cin \in BOOLEAN
  PROVE  LET fits == Signed(a) - Signed(b) - (1 - Bit(cin)) \in -H .. H - 1
         IN  Sbc(a, b, cin).v <=> IF ~cin /\ b = H - 1 THEN fits ELSE ~fits
<1> DEFINE borrow == 1 - Bit(cin)
           fits == Signed(a) - Signed(b) - borrow \in -H .. H - 1
<1>1. Sbc(a, b, cin).v <=> DiffV(a, Wrap(b + borrow), Wrap(a - b - borrow))
  BY SbcFields
<1>2. DiffV(a, Wrap(b + borrow), Wrap(a - b - borrow))
        <=> IF ~cin /\ b = H - 1 THEN fits ELSE ~fits
  <2>1. CASE cin
    BY <2>1, HalfAssumption DEF DiffV, Wrap, Neg, Signed, Bit, Word, M
  <2>2. CASE ~cin
    BY <2>2, HalfAssumption DEF DiffV, Wrap, Neg, Signed, Bit, Word, M
  <2> QED BY <2>1, <2>2
<1> QED BY <1>1, <1>2

-----------------------------------------------------------------------------
LEMMA AddFields ==
  ASSUME NEW a \in Word, NEW b \in Word
  PROVE  Add(a, b).res = Wrap(a + b) /\ (Add(a, b).c <=> a + b >= M)
<1>1. (a + b) % M = Wrap(a + b)
  BY Wraps, HalfAssumption DEF Word, M
<1> QED BY <1>1 DEF Add, Result

\* ADDS on the low words and then ADCS on the high ones add two-word numbers:
\* result and carry together are the sum (handle_add, handle_adc).
THEOREM AddThenAdcIsLongAdd ==
  ASSUME NEW al \in Word, NEW bl \in Word, NEW ah \in Word, NEW bh \in Word
  PROVE  LET lo == Add(al, bl)
             hi == Adc(ah, bh, lo.c)
         IN  (hi.res + Bit(hi.c) * M) * M + lo.res = (ah * M + al) + (bh * M + bl)
<1> DEFINE lo == Add(al, bl)
           hi == Adc(ah, bh, lo.c)
           sum == ah + bh + Bit(lo.c)
<1>1. lo.c \in BOOLEAN /\ hi.c \in BOOLEAN
  BY DEF Add, Adc, Result
<1>2. lo.res = Wrap(al + bl) /\ (lo.c <=> al + bl >= M)
  BY AddFields
<1>3. hi.res = Wrap(sum) /\ (hi.c <=> sum >= M)
  BY <1>1, AdcFields
<1> HIDE DEF lo, hi
<1>4. lo.res + Bit(lo.c) * M = al + bl /\ lo.res \in Int
  BY <1>2, HalfAssumption DEF Wrap, Bit, Word, M
<1>5. hi.res + Bit(hi.c) * M = sum /\ hi.res \in Int
  BY <1>3, HalfAssumption DEF Wrap, Bit, Word, M
<1>6. Bit(lo.c) \in Int /\ M \in Int /\ ah \in Int /\ bh \in Int /\ al \in Int /\ bl \in Int
  BY HalfAssumption DEF Bit, Word, M
<1>7. sum * M = ah * M + bh * M + Bit(lo.c) * M
  BY <1>6
<1> HIDE DEF sum
<1>8. sum * M + lo.res = (ah * M + al) + (bh * M + bl)
  BY <1>4, <1>6, <1>7
<1>9. (hi.res + Bit(hi.c) * M) * M = sum * M
  BY <1>5
<1> QED BY <1>8, <1>9 DEF lo, hi

\* SUBS and then SBCS subtract them: the difference is what the two results
\* make, less one of the next word when C is clear at the end (handle_sub,
\* handle_sbc, and the reversed pair).
THEOREM SubThenSbcIsLongSub ==
  ASSUME NEW al \in Word, NEW bl \in Word, NEW ah \in Word, NEW bh \in Word
  PROVE  LET lo == Sub(al, bl)
             hi == Sbc(ah, bh, lo.c)
         IN  (hi.res - (1 - Bit(hi.c)) * M) * M + lo.res = (ah * M + al) - (bh * M + bl)
<1> DEFINE lo == Sub(al, bl)
           hi == Sbc(ah, bh, lo.c)
           loBorrow == 1 - Bit(lo.c)
           difference == ah - bh - loBorrow
<1>1. lo.c \in BOOLEAN /\ hi.c \in BOOLEAN
  BY DEF Sub, Sbc, Result
<1>2. lo.res = Wrap(al - bl) /\ (lo.c <=> al >= bl)
  BY SubFields
<1>3. hi.res = Wrap(difference) /\ (hi.c <=> difference >= 0)
  BY <1>1, SbcFields
<1> HIDE DEF lo, hi
<1>4. lo.res - loBorrow * M = al - bl /\ lo.res \in Int
  BY <1>2, HalfAssumption DEF Wrap, Bit, Word, M
<1>5. hi.res - (1 - Bit(hi.c)) * M = difference /\ hi.res \in Int
  BY <1>3, HalfAssumption DEF Wrap, Bit, Word, M
<1>6. loBorrow \in Int /\ M \in Int /\ ah \in Int /\ bh \in Int /\ al \in Int /\ bl \in Int
  BY HalfAssumption DEF Bit, Word, M
<1>7. difference * M = ah * M - bh * M - loBorrow * M
  BY <1>6
<1>8. difference * M + lo.res = (ah * M + al) - (bh * M + bl)
  BY <1>4, <1>6, <1>7
<1> HIDE DEF difference
<1>9. (hi.res - (1 - Bit(hi.c)) * M) * M = difference * M
  BY <1>5
<1> QED BY <1>8, <1>9 DEF lo, hi

\* The word of the arithmetic is the word of the shifter.
LEMMA WordsAgree ==
  /\ Word = 0 .. 2^Width - 1 /\ M \in Nat \ {0} /\ M = 2^Width /\ Word \subseteq Nat
  /\ Word = Words /\ M = WordSize
<1>1. M \in Nat \ {0}
  BY HalfAssumption DEF M
<1> QED BY <1>1, DataPathAssumption DEF Word, Words, WordSize

(***************************************************************************)
(* Bits: every set of bit numbers is that of a word.                       *)
(***************************************************************************)
LEMMA AddedBit ==
  ASSUME NEW k \in Nat, NEW x \in 0 .. 2^k - 1, NEW i \in Nat
  PROVE  BitOf(x + 2^k, i) <=> BitOf(x, i) \/ i = k
<1> DEFINE p == 2^k
<1>1. p \in Nat \ {0} /\ x \in 0 .. p - 1 /\ x \in Nat
  BY PowerTyped
<1>2. CASE i = k
  <2> HIDE DEF p
  <2>1. (x + p) \div p = 1
    BY <1>1
  <2> QED BY <1>2, <2>1 DEF BitOf, p
<1>3. CASE i > k
  <2>1. 2^(k + 1) = 2 * p
    BY PowerDoubles
  <2>2. x + p \in 0 .. 2^(k + 1) - 1
    BY <1>1, <2>1
  <2>3. ~BitOf(x + p, i)
    BY <1>3, <2>2, NoBitAbove, k + 1 \in Nat, k + 1 <= i
  <2>4. ~BitOf(x, i)
    BY <1>3, NoBitAbove
  <2> QED BY <1>3, <2>3, <2>4
<1>4. CASE i < k
  <2> DEFINE m == 2^i
             d == 2^(k - i - 1)
             q == x \div m
             r == x % m
  <2>1. m \in Nat \ {0} /\ d \in Nat
    BY <1>4, PowerTyped, k - i - 1 \in Nat
  <2>2. p = 2^i * 2^(k - i)
    BY <1>4, PowerSum, k - i \in Nat, i + (k - i) = k
  <2>3. 2^(k - i) = 2 * d
    BY <1>4, PowerDoubles, k - i - 1 \in Nat, (k - i - 1) + 1 = k - i
  <2>4. p = m * (2 * d)
    BY <2>2, <2>3
  <2> HIDE DEF p, m, d
  <2>5. q \in Nat /\ r \in 0 .. m - 1 /\ x = (m * q) + r
    BY <1>1, <2>1, DivMod
  <2> HIDE DEF q, r
  <2>6. x + p = (m * (q + 2 * d)) + r
    BY <2>1, <2>4, <2>5
  <2>7. (x + p) \div m = q + 2 * d
    <3> DEFINE u == q + 2 * d
    <3>1. u \in Nat /\ x + p = (m * u) + r
      BY <2>1, <2>5, <2>6
    <3> HIDE DEF u
    <3>2. ((m * u) + r) \div m = u
      BY ONLY <2>1, <2>5, <3>1, DivUnique
    <3> QED BY <3>1, <3>2 DEF u
  <2>8. (q + 2 * d) % 2 = q % 2
    BY <2>1, <2>5
  <2>9. BitOf(x + p, i) <=> BitOf(x, i)
    BY <2>7, <2>8 DEF BitOf, m, q
  <2> QED BY <1>4, <2>9 DEF p
<1> QED BY <1>2, <1>3, <1>4

LEMMA BitsMakeWord ==
  ASSUME NEW S \in SUBSET (0 .. Width - 1)
  PROVE  FromBits[S] \in Word /\ BitSet[FromBits[S]] = S
<1> DEFINE Made(k, B) == \E x \in 0 .. 2^k - 1 : \A i \in Nat : BitOf(x, i) <=> i \in B
           T == {k \in Nat : \A B \in SUBSET (0 .. k - 1) : Made(k, B)}
<1>1. 0 \in T
  <2> SUFFICES ASSUME NEW B \in SUBSET (0 .. 0 - 1) PROVE Made(0, B)
    OBVIOUS
  <2>1. 0 \in 0 .. 2^0 - 1 /\ B = {}
    OBVIOUS
  <2>2. ASSUME NEW i \in Nat PROVE ~BitOf(0, i)
    <3>1. 0 \in Nat /\ 0 <= i
      OBVIOUS
    <3> QED BY <2>1, <3>1, NoBitAbove
  <2> QED BY <2>1, <2>2
<1>2. \A k \in Nat : k \in T => k + 1 \in T
  <2> SUFFICES ASSUME NEW k \in Nat, k \in T, NEW B \in SUBSET (0 .. (k + 1) - 1)
               PROVE  Made(k + 1, B)
    OBVIOUS
  <2>1. B \ {k} \in SUBSET (0 .. k - 1)
    OBVIOUS
  <2>2. PICK x \in 0 .. 2^k - 1 : \A i \in Nat : BitOf(x, i) <=> i \in B \ {k}
    BY <2>1
  <2>3. 2^k \in Nat \ {0} /\ 2^(k + 1) = 2 * 2^k
    BY PowerTyped, PowerDoubles
  <2>4. x \in 0 .. 2^(k + 1) - 1 /\ x + 2^k \in 0 .. 2^(k + 1) - 1
    BY <2>3
  <2>5. CASE k \in B
    <3>1. \A i \in Nat : BitOf(x + 2^k, i) <=> i \in B
      BY <2>2, <2>5, AddedBit
    <3> QED BY <2>4, <3>1
  <2>6. CASE k \notin B
    <3>1. \A i \in Nat : BitOf(x, i) <=> i \in B
      BY <2>2, <2>6
    <3> QED BY <2>4, <3>1
  <2> QED BY <2>5, <2>6
<1>3. Nat \subseteq T
  <2> HIDE DEF T
  <2> QED BY <1>1, <1>2, Induction
<1>4. Made(Width, S)
  BY <1>3, WidthAssumption
<1>5. \E x \in Word : BitSet[x] = S
  <2>1. PICK x \in 0 .. 2^Width - 1 : \A i \in Nat : BitOf(x, i) <=> i \in S
    BY <1>4
  <2>2. x \in Word /\ 0 .. Width - 1 \subseteq Nat
    BY <2>1, WordsAgree, WidthAssumption
  <2>3. BitSet[x] = {i \in 0 .. Width - 1 : BitOf(x, i)}
    BY <2>2 DEF BitSet
  <2> QED BY <2>1, <2>2, <2>3
<1>6. FromBits[S] = CHOOSE x \in Word : BitSet[x] = S
  BY DEF FromBits
<1> QED BY <1>5, <1>6

LEMMA BitwiseTyped ==
  ASSUME NEW x \in Word, NEW y \in Word
  PROVE  /\ And(x, y) \in Word /\ Orr(x, y) \in Word /\ Eor(x, y) \in Word /\ Not(x) \in Word
         /\ FromBits[{Width - 1 - i : i \in BitSet[x]}] \in Word
<1>1. BitSet[x] \subseteq 0 .. Width - 1 /\ BitSet[y] \subseteq 0 .. Width - 1
  BY DEF BitSet
<1>2. {Width - 1 - i : i \in BitSet[x]} \subseteq 0 .. Width - 1
  BY <1>1, WidthAssumption
<1>3. Not(x) \in Word
  BY WordsAgree DEF Not, Ones, Word
<1>4. \A S \in SUBSET (0 .. Width - 1) : FromBits[S] \in Word
  BY BitsMakeWord
<1> QED BY <1>1, <1>2, <1>3, <1>4 DEF And, Orr, Eor

(***************************************************************************)
(* The results of the handlers: words, and flags.                          *)
(***************************************************************************)
AluResult == [res : Word, n : BOOLEAN, z : BOOLEAN, c : BOOLEAN, v : BOOLEAN]

LEMMA ResultTyped ==
  ASSUME NEW x \in Word, NEW c \in BOOLEAN, NEW v \in BOOLEAN
  PROVE  Result(x, c, v) \in AluResult /\ FlagsOf(Result(x, c, v)) \in Flags
BY DEF Result, AluResult, FlagsOf, Flags, Neg

LEMMA ArithmeticTyped ==
  ASSUME NEW a \in Word, NEW b \in Word, NEW cin \in BOOLEAN
  PROVE  /\ Add(a, b) \in AluResult /\ Sub(a, b) \in AluResult
         /\ Adc(a, b, cin) \in AluResult /\ Sbc(a, b, cin) \in AluResult
<1>1. \A x \in Int : x % M \in Word
  BY WordsAgree, ModTyped DEF Word
<1>2. a \in Int /\ b \in Int /\ Bit(cin) \in Int
  BY WordsAgree DEF Bit
<1>3. Add(a, b) \in AluResult
  <2> DEFINE wide == a + b
             res == wide % M
             carry == wide >= M
             over == SumV(a, b, res)
  <2>1. wide \in Int
    BY <1>2
  <2>2. res \in Word /\ carry \in BOOLEAN /\ over \in BOOLEAN
    BY <1>1, <2>1 DEF SumV, DiffV
  <2>3. Add(a, b) = Result(res, carry, over)
    BY DEF Add
  <2> HIDE DEF wide, res, carry, over
  <2> QED BY <2>2, <2>3, ResultTyped
<1>4. Sub(a, b) \in AluResult
  <2> DEFINE wide == a - b
             res == wide % M
             carry == a >= b
             over == DiffV(a, b, res)
  <2>1. wide \in Int
    BY <1>2
  <2>2. res \in Word /\ carry \in BOOLEAN /\ over \in BOOLEAN
    BY <1>1, <2>1 DEF SumV, DiffV
  <2>3. Sub(a, b) = Result(res, carry, over)
    BY DEF Sub
  <2> HIDE DEF wide, res, carry, over
  <2> QED BY <2>2, <2>3, ResultTyped
<1>5. Adc(a, b, cin) \in AluResult
  <2> DEFINE wide == a + b + Bit(cin)
             res == wide % M
             carry == wide >= M
             over == SumV(a, (b + Bit(cin)) % M, res)
  <2>1. wide \in Int
    BY <1>2
  <2>2. res \in Word /\ carry \in BOOLEAN /\ over \in BOOLEAN
    BY <1>1, <2>1 DEF SumV, DiffV
  <2>3. Adc(a, b, cin) = Result(res, carry, over)
    BY DEF Adc
  <2> HIDE DEF wide, res, carry, over
  <2> QED BY <2>2, <2>3, ResultTyped
<1>6. Sbc(a, b, cin) \in AluResult
  <2> DEFINE wide == a - b - (1 - Bit(cin))
             res == wide % M
             carry == wide >= 0
             over == DiffV(a, (b + (1 - Bit(cin))) % M, res)
  <2>1. wide \in Int
    BY <1>2
  <2>2. res \in Word /\ carry \in BOOLEAN /\ over \in BOOLEAN
    BY <1>1, <2>1 DEF SumV, DiffV
  <2>3. Sbc(a, b, cin) = Result(res, carry, over)
    BY DEF Sbc
  <2> HIDE DEF wide, res, carry, over
  <2> QED BY <2>2, <2>3, ResultTyped
<1> QED BY <1>3, <1>4, <1>5, <1>6

LEMMA PairTyped ==
  ASSUME NEW v \in Int
  PROVE  /\ Pair(v).lo \in Word /\ Pair(v).hi \in Word
         /\ Pair(v).n \in BOOLEAN /\ Pair(v).z \in BOOLEAN
<1> DEFINE mm == M * M
           w == v % mm
<1>1. M \in Nat \ {0} /\ mm \in Nat \ {0}
  BY WordsAgree
<1> HIDE DEF mm
<1>2. w \in 0 .. mm - 1 /\ w \in Nat
  BY <1>1, ModTyped
<1> HIDE DEF w
<1>3. w \div M \in 0 .. M - 1
  BY <1>1, <1>2, DivBelow DEF mm
<1>4. w % M \in 0 .. M - 1
  BY <1>1, <1>2, ModTyped
<1>5. Pair(v) = [lo |-> w % M, hi |-> w \div M, n |-> w >= H * M, z |-> w = 0]
  BY DEF Pair, w, mm
<1>6. (w >= H * M) \in BOOLEAN
  BY <1>2, HalfAssumption
<1> QED BY <1>3, <1>4, <1>5, <1>6 DEF Word

LEMMA MultiplyTyped ==
  ASSUME NEW x \in Word, NEW y \in Word
  PROVE  Mul(x, y).res \in Word /\ Mul(x, y).n \in BOOLEAN /\ Mul(x, y).z \in BOOLEAN
<1>1. x * y \in Int
  BY WordsAgree
<1>2. (x * y) % M \in Word
  BY <1>1, WordsAgree, ModTyped DEF Word
<1> QED BY <1>2 DEF Mul, Neg

(***************************************************************************)
(* What the flags tell, whatever came between: the history is kept exact   *)
(* by what makes it, and left exact by everything else.                    *)
(***************************************************************************)
\* While the sum or the difference is one of single words, its result is the
\* low word that ADC, SBC or RSC will go on with.
LowWordTold ==
  told.words = 1 =>
    /\ told.a \in Word /\ told.b \in Word /\ told.res \in Word
    /\ told.of = "sum" => told.res = Add(told.a, told.b).res
    /\ told.of = "difference" => told.res = Sub(told.a, told.b).res

HistoryTyped == flags \in Flags /\ told \in Told
History == HistoryTyped /\ LowWordTold /\ OrderTold /\ CarryTold /\ PairTold
RegsTyped == regs \in [Regs -> Word]
DataPathInv == RegsTyped /\ History

LEMMA WordIsLong == Word \subseteq Long /\ Long \subseteq Nat /\ 0 \in Word
<1> DEFINE mm == M * M
<1>1. M \in Nat \ {0} /\ mm \in Nat \ {0} /\ M <= mm
  BY WordsAgree
<1> HIDE DEF mm
<1>2. Word \subseteq 0 .. mm - 1 /\ 0 .. mm - 1 \subseteq Nat
  BY <1>1 DEF Word
<1>3. Long = 0 .. mm - 1
  BY DEF Long, mm
<1> QED BY <1>1, <1>2, <1>3 DEF Word

LEMMA HistoryBegins == DpInit => DataPathInv
<1> SUFFICES ASSUME DpInit PROVE DataPathInv
  OBVIOUS
<1>1. 0 \in Word /\ 0 \in Long
  BY WordIsLong
<1> QED BY <1>1 DEF DpInit, DataPathInv, RegsTyped, History, HistoryTyped, LowWordTold, OrderTold,
             CarryTold, PairTold, Nothing, Told, Flags

\* The conditions read nothing of the flags but the four.
LEMMA OrderOfFlags ==
  ASSUME NEW a \in Word, NEW b \in Word
  PROVE  TellsOrder(FlagsOf(Sub(a, b)), a, b)
<1> DEFINE r == Sub(a, b)
<1>1. TellsOrder(r, a, b)
  BY ConditionsTellOrder
<1> HIDE DEF r
<1>2. \A cond : Holds(cond, FlagsOf(r)) <=> Holds(cond, r)
  BY DEF Holds, FlagsOf
<1>3. TellsOrder(FlagsOf(r), a, b)
  BY <1>1, <1>2 DEF TellsOrder
<1> QED BY <1>3 DEF r

LEMMA HistoryStays == ASSUME History, UNCHANGED <<flags, told>> PROVE History'
BY DEF History, HistoryTyped, LowWordTold, OrderTold, CarryTold, PairTold

\* ADD and CMN begin a sum.
LEMMA SumBegins ==
  ASSUME History, NEW x \in Word, NEW y \in Word, NEW s \in BOOLEAN,
         SetFlags(s, Add(x, y)), Tells(s, "sum", x, y, Add(x, y))
  PROVE  History'
<1> DEFINE r == Add(x, y)
<1>1. CASE ~s
  BY <1>1, HistoryStays DEF SetFlags, Tells
<1>2. CASE s
  <2>1. /\ flags' = FlagsOf(r)
        /\ told' = [of |-> "sum", words |-> 1, a |-> x, b |-> y, res |-> r.res, all |-> TRUE]
    BY <1>2 DEF SetFlags, Tells
  <2>2. r \in AluResult /\ (r.c <=> x + y >= M)
    BY ArithmeticTyped, AddFields
  <2>3. x \in Long /\ y \in Long /\ r.res \in Long
    BY <2>2, WordIsLong DEF AluResult
  <2>4. LowWordTold'
    BY <2>1, <2>2 DEF LowWordTold, AluResult
  <2> HIDE DEF r
  <2>5. HistoryTyped'
    BY <2>1, <2>2, <2>3 DEF HistoryTyped, Flags, FlagsOf, Told, AluResult
  <2>6. OrderTold' /\ PairTold'
    BY <2>1 DEF OrderTold, PairTold
  <2>7. CarryTold'
    BY <2>1, <2>2 DEF CarryTold, FlagsOf, AluResult
  <2> QED BY <2>4, <2>5, <2>6, <2>7 DEF History
<1> QED BY <1>1, <1>2

\* SUB, CMP and RSB begin a difference.
LEMMA DifferenceBegins ==
  ASSUME History, NEW x \in Word, NEW y \in Word, NEW s \in BOOLEAN,
         SetFlags(s, Sub(x, y)), Tells(s, "difference", x, y, Sub(x, y))
  PROVE  History'
<1> DEFINE r == Sub(x, y)
<1>1. CASE ~s
  BY <1>1, HistoryStays DEF SetFlags, Tells
<1>2. CASE s
  <2>1. /\ flags' = FlagsOf(r)
        /\ told' = [of |-> "difference", words |-> 1, a |-> x, b |-> y, res |-> r.res, all |-> TRUE]
    BY <1>2 DEF SetFlags, Tells
  <2>2. r \in AluResult /\ (r.c <=> x >= y)
    BY ArithmeticTyped, SubFields
  <2>3. x \in Long /\ y \in Long /\ r.res \in Long
    BY <2>2, WordIsLong DEF AluResult
  <2>4. LowWordTold'
    BY <2>1, <2>2 DEF LowWordTold, AluResult
  <2>5. TellsOrder(FlagsOf(r), x, y)
    BY OrderOfFlags
  <2> HIDE DEF r
  <2>6. HistoryTyped'
    BY <2>1, <2>2, <2>3 DEF HistoryTyped, Flags, FlagsOf, Told, AluResult
  <2>7. OrderTold'
    BY <2>1, <2>5 DEF OrderTold
  <2>8. PairTold'
    BY <2>1 DEF PairTold
  <2>9. CarryTold'
    BY <2>1, <2>2 DEF CarryTold, FlagsOf, AluResult
  <2> QED BY <2>4, <2>6, <2>7, <2>8, <2>9 DEF History
<1> QED BY <1>1, <1>2

\* A pair of words, and the pair with the carry out of it.
LEMMA PairIsLong ==
  ASSUME NEW hi \in Word, NEW lo \in Word
  PROVE  hi * M + lo \in Long
<1>1. M \in Nat \ {0} /\ hi \in 0 .. M - 1 /\ lo \in 0 .. M - 1
  BY WordsAgree DEF Word
<1>2. PICK d \in Nat : M = (hi + 1) + d
  BY <1>1
<1>3. M * M = ((hi * M) + M) + (d * M) /\ d * M \in Nat /\ hi * M \in Nat
  BY <1>1, <1>2
<1>4. hi * M + lo \in 0 .. (M * M) - 1
  BY <1>1, <1>3
<1> QED BY <1>4 DEF Long

LEMMA LongWraps ==
  ASSUME NEW x \in Long, NEW y \in Int, x = y \/ x + M * M = y \/ x - M * M = y
  PROVE  x = y % (M * M)
<1> DEFINE mm == M * M
<1>1. mm \in Nat \ {0} /\ x \in 0 .. mm - 1
  BY WordsAgree DEF Long
<1>2. x = y \/ x + mm = y \/ x - mm = y
  OBVIOUS
<1> HIDE DEF mm
<1>3. x = y % mm
  BY <1>1, <1>2, ModOnce
<1> QED BY <1>3 DEF mm

\* The history is forgotten, the flags are flags.
LEMMA HistoryForgotten ==
  ASSUME flags' \in Flags, told' = Nothing
  PROVE  History'
<1>1. 0 \in Word /\ 0 \in Long
  BY WordIsLong
<1> QED BY <1>1 DEF History, HistoryTyped, LowWordTold, OrderTold, CarryTold, PairTold, Nothing, Told

LEMMA AnswerFlags == ASSUME NEW r \in AluResult PROVE FlagsOf(r) \in Flags
BY DEF AluResult, FlagsOf, Flags

\* ADDS and then ADCS: the exact two-word sum, and its carry.
LEMMA LongSum ==
  ASSUME NEW al \in Word, NEW bl \in Word, NEW ah \in Word, NEW bh \in Word,
         NEW low, low = Add(al, bl).res
  PROVE  LET lo == Add(al, bl)
             hi == Adc(ah, bh, lo.c)
             aa == ah * M + al
             bb == bh * M + bl
             rr == hi.res * M + low
         IN  /\ aa \in Long /\ bb \in Long /\ rr \in Long
             /\ rr = (aa + bb) % (M * M) /\ (hi.c <=> aa + bb >= M * M)
<1> DEFINE lo == Add(al, bl)
           hi == Adc(ah, bh, lo.c)
           aa == ah * M + al
           bb == bh * M + bl
           rr == hi.res * M + low
           mm == M * M
           k == Bit(hi.c)
<1>1. (hi.res + k * M) * M + lo.res = aa + bb
  BY AddThenAdcIsLongAdd
<1>2. lo \in AluResult /\ lo.c \in BOOLEAN
  BY ArithmeticTyped DEF AluResult
<1>3. hi \in AluResult
  BY <1>2, ArithmeticTyped
<1>4. low \in Word /\ lo.res = low /\ hi.res \in Word /\ hi.c \in BOOLEAN
  BY <1>2, <1>3 DEF AluResult
<1>5. aa \in Long /\ bb \in Long /\ rr \in Long
  BY <1>4, PairIsLong
<1>6. aa \in Nat /\ bb \in Nat /\ mm \in Nat \ {0} /\ rr \in 0 .. mm - 1
  <2> HIDE DEF hi, lo, aa, bb, rr, k
  <2>1. aa \in Nat /\ bb \in Nat
    BY <1>5, WordIsLong
  <2>2. mm \in Nat \ {0}
    BY WordsAgree
  <2>3. rr \in 0 .. mm - 1
    BY <1>5 DEF Long
  <2> QED BY <2>1, <2>2, <2>3
<1>7. hi.res \in Int /\ M \in Int /\ k \in Int /\ low \in Int
  BY <1>4, WordsAgree DEF Bit
<1>8. k = IF hi.c THEN 1 ELSE 0
  BY DEF Bit
<1> HIDE DEF hi, lo, aa, bb, k
<1>9. rr + k * mm = aa + bb
  <2>1. (hi.res + k * M) * M = hi.res * M + k * (M * M)
    BY <1>7
  <2>2. hi.res * M \in Int /\ k * (M * M) \in Int
    BY <1>7
  <2> QED BY <1>1, <1>4, <1>7, <2>1, <2>2
<1> HIDE DEF rr, mm
<1>10. aa + bb = rr \/ aa + bb = rr + mm
  BY <1>6, <1>8, <1>9
<1>11. hi.c <=> aa + bb >= mm
  <2>1. CASE hi.c
    BY <2>1, <1>6, <1>8, <1>9
  <2>2. CASE ~hi.c
    BY <2>2, <1>6, <1>8, <1>9
  <2> QED BY <2>1, <2>2
<1>12. rr = (aa + bb) % mm
  BY <1>5, <1>6, <1>10, LongWraps, aa + bb \in Int DEF mm
<1> QED BY <1>5, <1>11, <1>12 DEF hi, lo, aa, bb, rr, mm

\* ADC goes on with a sum of words and makes a sum of pairs.
LEMMA SumGoesOn ==
  ASSUME History, NEW x \in Word, NEW y \in Word, NEW s \in BOOLEAN,
         SetFlags(s, Adc(x, y, flags.c)), GoesOn(s, "sum", x, y, Adc(x, y, flags.c))
  PROVE  History'
<1> DEFINE r == Adc(x, y, flags.c)
<1>0. flags \in Flags /\ flags.c \in BOOLEAN
  BY DEF History, HistoryTyped, Flags
<1>1. r \in AluResult
  BY <1>0, ArithmeticTyped
<1>2. CASE ~s
  BY <1>2, HistoryStays DEF SetFlags, GoesOn
<1>3. CASE s /\ ~(told.of = "sum" /\ told.words = 1)
  <2>1. flags' = FlagsOf(r) /\ told' = Nothing
    BY <1>3 DEF SetFlags, GoesOn
  <2> QED BY <1>1, <2>1, AnswerFlags, HistoryForgotten
<1>4. CASE s /\ told.of = "sum" /\ told.words = 1
  <2> DEFINE lo == Add(told.a, told.b)
             hi == Adc(x, y, lo.c)
             aa == x * M + told.a
             bb == y * M + told.b
             rr == r.res * M + told.res
  <2>1. /\ flags' = FlagsOf(r)
        /\ told' = [of |-> "sum", words |-> 2, a |-> aa, b |-> bb, res |-> rr, all |-> FALSE]
    BY <1>4 DEF SetFlags, GoesOn
  <2>2. told.a \in Word /\ told.b \in Word /\ told.res \in Word /\ told.res = lo.res
    BY <1>4 DEF History, LowWordTold
  <2>3. flags.c = lo.c
    <3>1. flags.c = (told.a + told.b >= M)
      BY <1>4 DEF History, CarryTold
    <3>2. lo.c <=> told.a + told.b >= M
      BY <2>2, AddFields
    <3>3. lo.c \in BOOLEAN
      BY <2>2, <1>0, ArithmeticTyped DEF AluResult
    <3> QED BY <1>0, <3>1, <3>2, <3>3
  <2>4. r = hi
    BY <2>3
  <2>5. /\ aa \in Long /\ bb \in Long /\ hi.res * M + told.res \in Long
        /\ hi.res * M + told.res = (aa + bb) % (M * M) /\ (hi.c <=> aa + bb >= M * M)
    BY <2>2, LongSum
  <2>6. r.res \in Word /\ r.c \in BOOLEAN /\ FlagsOf(r) \in Flags /\ FlagsOf(r).c = r.c
    BY <1>1, AnswerFlags DEF AluResult, FlagsOf
  <2> HIDE DEF r, hi, aa, bb, lo
  <2>7. /\ aa \in Long /\ bb \in Long /\ rr \in Long
        /\ rr = (aa + bb) % (M * M) /\ (r.c <=> aa + bb >= M * M)
    BY <2>4, <2>5
  <2> HIDE DEF rr
  <2>8. HistoryTyped'
    BY <2>1, <2>6, <2>7 DEF HistoryTyped, Told
  <2>9. LowWordTold' /\ OrderTold'
    BY <2>1 DEF LowWordTold, OrderTold
  <2>10. PairTold'
    BY <2>1, <2>7 DEF PairTold
  <2>11. CarryTold'
    <3>1. flags'.c = (aa + bb >= M * M)
      BY <2>1, <2>6, <2>7
    <3>2. /\ told'.of = "sum" /\ told'.words = 2
          /\ told'.a = aa /\ told'.b = bb
      BY <2>1
    <3> QED BY <3>1, <3>2 DEF CarryTold
  <2> QED BY <2>8, <2>9, <2>10, <2>11 DEF History
<1> QED BY <1>2, <1>3, <1>4

\* SUBS and then SBCS: the exact two-word difference, and its missing borrow.
LEMMA LongDifference ==
  ASSUME NEW al \in Word, NEW bl \in Word, NEW ah \in Word, NEW bh \in Word,
         NEW low, low = Sub(al, bl).res
  PROVE  LET lo == Sub(al, bl)
             hi == Sbc(ah, bh, lo.c)
             aa == ah * M + al
             bb == bh * M + bl
             rr == hi.res * M + low
         IN  /\ aa \in Long /\ bb \in Long /\ rr \in Long
             /\ rr = (aa - bb) % (M * M) /\ (hi.c <=> aa >= bb)
<1> DEFINE lo == Sub(al, bl)
           hi == Sbc(ah, bh, lo.c)
           aa == ah * M + al
           bb == bh * M + bl
           rr == hi.res * M + low
           mm == M * M
           k == (1 - Bit(hi.c))
<1>1. (hi.res - k * M) * M + lo.res = aa - bb
  BY SubThenSbcIsLongSub
<1>2. lo \in AluResult /\ lo.c \in BOOLEAN
  BY ArithmeticTyped DEF AluResult
<1>3. hi \in AluResult
  BY <1>2, ArithmeticTyped
<1>4. low \in Word /\ lo.res = low /\ hi.res \in Word /\ hi.c \in BOOLEAN
  BY <1>2, <1>3 DEF AluResult
<1>5. aa \in Long /\ bb \in Long /\ rr \in Long
  BY <1>4, PairIsLong
<1>6. aa \in Nat /\ bb \in Nat /\ mm \in Nat \ {0} /\ rr \in 0 .. mm - 1
  <2> HIDE DEF hi, lo, aa, bb, rr, k
  <2>1. aa \in Nat /\ bb \in Nat
    BY <1>5, WordIsLong
  <2>2. mm \in Nat \ {0}
    BY WordsAgree
  <2>3. rr \in 0 .. mm - 1
    BY <1>5 DEF Long
  <2> QED BY <2>1, <2>2, <2>3
<1>7. hi.res \in Int /\ M \in Int /\ k \in Int /\ low \in Int
  BY <1>4, WordsAgree DEF Bit
<1>8. k = IF hi.c THEN 0 ELSE 1
  BY DEF Bit
<1> HIDE DEF hi, lo, aa, bb, k
<1>9. rr - k * mm = aa - bb
  <2>1. (hi.res - k * M) * M = hi.res * M - k * (M * M)
    BY <1>7
  <2>2. hi.res * M \in Int /\ k * (M * M) \in Int
    BY <1>7
  <2> QED BY <1>1, <1>4, <1>7, <2>1, <2>2
<1> HIDE DEF rr, mm
<1>10. aa - bb = rr \/ aa - bb = rr - mm
  BY <1>6, <1>8, <1>9
<1>11. hi.c <=> aa >= bb
  <2>1. CASE hi.c
    BY <2>1, <1>6, <1>8, <1>9
  <2>2. CASE ~hi.c
    BY <2>2, <1>6, <1>8, <1>9
  <2> QED BY <2>1, <2>2
<1>12. rr = (aa - bb) % mm
  BY <1>5, <1>6, <1>10, LongWraps, aa - bb \in Int DEF mm
<1> QED BY <1>5, <1>11, <1>12 DEF hi, lo, aa, bb, rr, mm

\* SBC and RSC go on with a difference of words and make one of pairs.
LEMMA DifferenceGoesOn ==
  ASSUME History, NEW x \in Word, NEW y \in Word, NEW s \in BOOLEAN,
         SetFlags(s, Sbc(x, y, flags.c)), GoesOn(s, "difference", x, y, Sbc(x, y, flags.c))
  PROVE  History'
<1> DEFINE r == Sbc(x, y, flags.c)
<1>0. flags \in Flags /\ flags.c \in BOOLEAN
  BY DEF History, HistoryTyped, Flags
<1>1. r \in AluResult
  BY <1>0, ArithmeticTyped
<1>2. CASE ~s
  BY <1>2, HistoryStays DEF SetFlags, GoesOn
<1>3. CASE s /\ ~(told.of = "difference" /\ told.words = 1)
  <2>1. flags' = FlagsOf(r) /\ told' = Nothing
    BY <1>3 DEF SetFlags, GoesOn
  <2> QED BY <1>1, <2>1, AnswerFlags, HistoryForgotten
<1>4. CASE s /\ told.of = "difference" /\ told.words = 1
  <2> DEFINE lo == Sub(told.a, told.b)
             hi == Sbc(x, y, lo.c)
             aa == x * M + told.a
             bb == y * M + told.b
             rr == r.res * M + told.res
  <2>1. /\ flags' = FlagsOf(r)
        /\ told' = [of |-> "difference", words |-> 2, a |-> aa, b |-> bb, res |-> rr, all |-> FALSE]
    BY <1>4 DEF SetFlags, GoesOn
  <2>2. told.a \in Word /\ told.b \in Word /\ told.res \in Word /\ told.res = lo.res
    BY <1>4 DEF History, LowWordTold
  <2>3. flags.c = lo.c
    <3>1. flags.c = (told.a >= told.b)
      BY <1>4 DEF History, CarryTold
    <3>2. lo.c <=> told.a >= told.b
      BY <2>2, SubFields
    <3>3. lo.c \in BOOLEAN
      BY <2>2, <1>0, ArithmeticTyped DEF AluResult
    <3> QED BY <1>0, <3>1, <3>2, <3>3
  <2>4. r = hi
    BY <2>3
  <2>5. /\ aa \in Long /\ bb \in Long /\ hi.res * M + told.res \in Long
        /\ hi.res * M + told.res = (aa - bb) % (M * M) /\ (hi.c <=> aa >= bb)
    BY <2>2, LongDifference
  <2>6. r.res \in Word /\ r.c \in BOOLEAN /\ FlagsOf(r) \in Flags /\ FlagsOf(r).c = r.c
    BY <1>1, AnswerFlags DEF AluResult, FlagsOf
  <2> HIDE DEF r, hi, aa, bb, lo
  <2>7. /\ aa \in Long /\ bb \in Long /\ rr \in Long
        /\ rr = (aa - bb) % (M * M) /\ (r.c <=> aa >= bb)
    BY <2>4, <2>5
  <2> HIDE DEF rr
  <2>8. HistoryTyped'
    BY <2>1, <2>6, <2>7 DEF HistoryTyped, Told
  <2>9. LowWordTold' /\ OrderTold'
    BY <2>1 DEF LowWordTold, OrderTold
  <2>10. PairTold'
    BY <2>1, <2>7 DEF PairTold
  <2>11. CarryTold'
    <3>1. flags'.c = (aa >= bb)
      BY <2>1, <2>6, <2>7
    <3>2. /\ told'.of = "difference" /\ told'.words = 2
          /\ told'.a = aa /\ told'.b = bb
      BY <2>1
    <3> QED BY <3>1, <3>2 DEF CarryTold
  <2> QED BY <2>8, <2>9, <2>10, <2>11 DEF History
<1> QED BY <1>2, <1>3, <1>4


\* Logical instructions: C may be the shifter's, N and Z are the result's.
LEMMA LogicalKeeps ==
  ASSUME History, NEW res \in Word, NEW carry \in BOOLEAN, NEW s \in BOOLEAN,
         LogicalFlags(s, res, carry)
  PROVE  History'
<1>1. flags \in Flags /\ told \in Told /\ flags.v \in BOOLEAN
  BY DEF History, HistoryTyped, Flags
<1> DEFINE f == FlagsOf(Result(res, carry, flags.v))
<1>2. f \in Flags /\ f.c = carry
  BY <1>1, ResultTyped DEF FlagsOf, Result
<1>3. CASE ~s
  BY <1>3, HistoryStays DEF LogicalFlags, SetFlags
<1>4. CASE s /\ carry # flags.c
  <2>1. flags' = f /\ told' = Nothing
    BY <1>4 DEF LogicalFlags, SetFlags
  <2> QED BY <1>2, <2>1, HistoryForgotten
<1>5. CASE s /\ carry = flags.c
  <2>1. flags' = f /\ told' = [told EXCEPT !.all = FALSE]
    BY <1>5 DEF LogicalFlags, SetFlags
  <2> HIDE DEF f
  <2>2. /\ told' \in Told /\ ~told'.all
        /\ told'.of = told.of /\ told'.words = told.words
        /\ told'.a = told.a /\ told'.b = told.b /\ told'.res = told.res
    BY <1>1, <2>1 DEF Told
  <2>3. flags' \in Flags /\ flags'.c = flags.c
    BY <1>2, <1>5, <2>1
  <2> QED BY <2>2, <2>3 DEF History, HistoryTyped, LowWordTold, OrderTold, CarryTold, PairTold
<1> QED BY <1>3, <1>4, <1>5

\* Multiplies: N and Z are the product's.
LEMMA MultiplyKeeps ==
  ASSUME History, NEW r, r.n \in BOOLEAN, r.z \in BOOLEAN, NEW s \in BOOLEAN, SetNZ(s, r)
  PROVE  History'
<1>1. flags \in Flags /\ told \in Told
  BY DEF History, HistoryTyped
<1>2. CASE ~s
  BY <1>2, HistoryStays DEF SetNZ
<1>3. CASE s
  <2>1. flags' = [flags EXCEPT !.n = r.n, !.z = r.z] /\ told' = [told EXCEPT !.all = FALSE]
    BY <1>3 DEF SetNZ
  <2>2. /\ told' \in Told /\ ~told'.all
        /\ told'.of = told.of /\ told'.words = told.words
        /\ told'.a = told.a /\ told'.b = told.b /\ told'.res = told.res
    BY <1>1, <2>1 DEF Told
  <2>3. flags' \in Flags /\ flags'.c = flags.c
    BY <1>1, <2>1 DEF Flags
  <2> QED BY <2>2, <2>3 DEF History, HistoryTyped, LowWordTold, OrderTold, CarryTold, PairTold
<1> QED BY <1>2, <1>3

-----------------------------------------------------------------------------
LEMMA SourcesTyped ==
  ASSUME RegsTyped, NEW r \in Sources
  PROVE  Src(r) \in Word /\ RawSrc(r) \in Word
<1>1. CASE r = "pc"
  <2> DEFINE x == (Pc + 8) % M
  <2>1. x \in Word
    BY DataPathAssumption, WordsAgree, ModTyped, Pc + 8 \in Int DEF Word
  <2> HIDE DEF x
  <2>2. x - (x % 4) \in Word
    BY <2>1, WordsAgree DEF Word
  <2> QED BY <1>1, <2>2, DataPathAssumption DEF Src, RawSrc, Ahead, x
<1>2. CASE r # "pc"
  BY <1>2, DataPathAssumption DEF RegsTyped, Src, RawSrc
<1> QED BY <1>1, <1>2

LEMMA SecondTyped ==
  ASSUME DataPathInv, NEW op2 \in Second
  PROVE  op2.val \in Word /\ op2.c \in BOOLEAN
<1> DEFINE src == [r \in Sources |-> Src(r)]
<1>1. \A r \in DOMAIN src : src[r] \in Word
  BY SourcesTyped DEF DataPathInv
<1>2. flags.c \in BOOLEAN
  BY DEF DataPathInv, History, HistoryTyped, Flags
<1>3. op2 \in Operand2(src, flags.c)
  BY DEF Second
<1> HIDE DEF src
<1>4. op2 \in Operand
  BY <1>1, <1>2, <1>3, OperandTyped, WordsAgree
<1> QED BY <1>4, WordsAgree DEF Operand

LEMMA WriteTyped ==
  ASSUME RegsTyped, NEW rd \in Regs, NEW res \in Word, Write(rd, res)
  PROVE  RegsTyped'
BY DEF RegsTyped, Write

\* Every instruction with two operands and a destination.
LEMMA WithDestinationKeeps ==
  ASSUME DataPathInv, NEW op2 \in Second, NEW rd \in Regs, NEW rn \in Sources, NEW s \in BOOLEAN,
         WithDestination(rd, rn, op2, s)
  PROVE  DataPathInv'
<1> DEFINE x == Src(rn)
           y == op2.val
           c == flags.c
<1>1. x \in Word /\ RawSrc(rn) \in Word /\ y \in Word /\ op2.c \in BOOLEAN
  BY SourcesTyped, SecondTyped DEF DataPathInv
<1>2. RegsTyped /\ History /\ c \in BOOLEAN
  BY DEF DataPathInv, History, HistoryTyped, Flags
<1>3. CASE HandleAdd(rd, rn, op2, s)
  <2>1. Add(x, y).res \in Word
    BY <1>1, <1>2, ArithmeticTyped DEF AluResult
  <2>2. Write(rd, Add(x, y).res) /\ SetFlags(s, Add(x, y)) /\ Tells(s, "sum", x, y, Add(x, y))
    BY <1>3 DEF HandleAdd, Arithmetic
  <2> QED BY <1>1, <1>2, <2>1, <2>2, WriteTyped, SumBegins DEF DataPathInv
<1>4. CASE HandleSub(rd, rn, op2, s)
  <2>1. Sub(x, y).res \in Word
    BY <1>1, <1>2, ArithmeticTyped DEF AluResult
  <2>2. Write(rd, Sub(x, y).res) /\ SetFlags(s, Sub(x, y))
        /\ Tells(s, "difference", x, y, Sub(x, y))
    BY <1>4 DEF HandleSub, Arithmetic
  <2> QED BY <1>1, <1>2, <2>1, <2>2, WriteTyped, DifferenceBegins DEF DataPathInv
<1>5. CASE HandleRsb(rd, rn, op2, s)
  <2>1. Sub(y, x).res \in Word
    BY <1>1, <1>2, ArithmeticTyped DEF AluResult
  <2>2. Write(rd, Sub(y, x).res) /\ SetFlags(s, Sub(y, x))
        /\ Tells(s, "difference", y, x, Sub(y, x))
    BY <1>5 DEF HandleRsb, Arithmetic, Rsb
  <2> QED BY <1>1, <1>2, <2>1, <2>2, WriteTyped, DifferenceBegins DEF DataPathInv
<1>6. CASE HandleAdc(rd, rn, op2, s)
  <2>1. Adc(x, y, c).res \in Word
    BY <1>1, <1>2, ArithmeticTyped DEF AluResult
  <2>2. Write(rd, Adc(x, y, c).res) /\ SetFlags(s, Adc(x, y, c))
        /\ GoesOn(s, "sum", x, y, Adc(x, y, c))
    BY <1>6 DEF HandleAdc, Arithmetic
  <2> QED BY <1>1, <1>2, <2>1, <2>2, WriteTyped, SumGoesOn DEF DataPathInv
<1>7. CASE HandleSbc(rd, rn, op2, s)
  <2>1. Sbc(x, y, c).res \in Word
    BY <1>1, <1>2, ArithmeticTyped DEF AluResult
  <2>2. Write(rd, Sbc(x, y, c).res) /\ SetFlags(s, Sbc(x, y, c))
        /\ GoesOn(s, "difference", x, y, Sbc(x, y, c))
    BY <1>7 DEF HandleSbc, Arithmetic
  <2> QED BY <1>1, <1>2, <2>1, <2>2, WriteTyped, DifferenceGoesOn DEF DataPathInv
<1>8. CASE HandleRsc(rd, rn, op2, s)
  <2>1. Sbc(y, x, c).res \in Word
    BY <1>1, <1>2, ArithmeticTyped DEF AluResult
  <2>2. Write(rd, Sbc(y, x, c).res) /\ SetFlags(s, Sbc(y, x, c))
        /\ GoesOn(s, "difference", y, x, Sbc(y, x, c))
    BY <1>8 DEF HandleRsc, Arithmetic, Rsc
  <2> QED BY <1>1, <1>2, <2>1, <2>2, WriteTyped, DifferenceGoesOn DEF DataPathInv
<1>9. ASSUME NEW res \in Word, Logical(rd, s, res, op2.c) PROVE DataPathInv'
  BY <1>1, <1>2, <1>9, WriteTyped, LogicalKeeps DEF Logical, DataPathInv
<1>10. CASE HandleAnd(rd, rn, op2, s)
  BY <1>1, <1>9, <1>10, BitwiseTyped DEF HandleAnd
<1>11. CASE HandleEor(rd, rn, op2, s)
  BY <1>1, <1>9, <1>11, BitwiseTyped DEF HandleEor
<1>12. CASE HandleOrr(rd, rn, op2, s)
  BY <1>1, <1>9, <1>12, BitwiseTyped DEF HandleOrr
<1>13. CASE HandleBic(rd, rn, op2, s)
  <2>1. And(RawSrc(rn), Not(y)) \in Word
    BY <1>1, BitwiseTyped
  <2> QED BY <1>9, <1>13, <2>1 DEF HandleBic
<1> QED BY <1>3, <1>4, <1>5, <1>6, <1>7, <1>8, <1>10, <1>11, <1>12, <1>13 DEF WithDestination

\* Comparisons write no register.
LEMMA CompareKeeps ==
  ASSUME DataPathInv, NEW op2 \in Second, NEW rn \in Sources, Compare(rn, op2)
  PROVE  DataPathInv'
<1> DEFINE x == Src(rn)
           y == op2.val
<1>1. x \in Word /\ y \in Word /\ op2.c \in BOOLEAN
  BY SourcesTyped, SecondTyped DEF DataPathInv
<1>2. RegsTyped /\ History /\ UNCHANGED regs
  BY DEF DataPathInv, Compare, HandleCmp, HandleCmn, HandleTst, HandleTeq
<1>3. RegsTyped'
  BY <1>2 DEF RegsTyped
<1>4. CASE HandleCmp(rn, op2)
  <2>1. SetFlags(TRUE, Sub(x, y)) /\ Tells(TRUE, "difference", x, y, Sub(x, y))
    BY <1>4 DEF HandleCmp
  <2> QED BY <1>1, <1>2, <1>3, <2>1, DifferenceBegins DEF DataPathInv
<1>5. CASE HandleCmn(rn, op2)
  <2>1. SetFlags(TRUE, Add(x, y)) /\ Tells(TRUE, "sum", x, y, Add(x, y))
    BY <1>5 DEF HandleCmn
  <2> QED BY <1>1, <1>2, <1>3, <2>1, SumBegins DEF DataPathInv
<1>6. CASE HandleTst(rn, op2)
  <2>1. LogicalFlags(TRUE, And(x, y), op2.c) /\ And(x, y) \in Word
    BY <1>1, <1>6, BitwiseTyped DEF HandleTst
  <2> QED BY <1>1, <1>2, <1>3, <2>1, LogicalKeeps DEF DataPathInv
<1>7. CASE HandleTeq(rn, op2)
  <2>1. LogicalFlags(TRUE, Eor(x, y), op2.c) /\ Eor(x, y) \in Word
    BY <1>1, <1>7, BitwiseTyped DEF HandleTeq
  <2> QED BY <1>1, <1>2, <1>3, <2>1, LogicalKeeps DEF DataPathInv
<1> QED BY <1>4, <1>5, <1>6, <1>7 DEF Compare

LEMMA MovKeeps ==
  ASSUME DataPathInv, NEW op2 \in Second, NEW rd \in Regs, NEW s \in BOOLEAN,
         HandleMov(rd, op2, s) \/ HandleMvn(rd, op2, s)
  PROVE  DataPathInv'
<1>1. op2.val \in Word /\ op2.c \in BOOLEAN /\ RegsTyped /\ History
  BY SecondTyped DEF DataPathInv
<1>2. Not(op2.val) \in Word
  BY <1>1, BitwiseTyped
<1>3. PICK res \in Word : Logical(rd, s, res, op2.c)
  BY <1>1, <1>2 DEF HandleMov, HandleMvn
<1> QED BY <1>1, <1>3, WriteTyped, LogicalKeeps DEF Logical, DataPathInv

\* Half a word, and the other half with it.
LEMMA HalvesTyped ==
  ASSUME NEW imm16 \in 0 .. Half - 1, NEW x \in Word
  PROVE  imm16 \in Word /\ (x % Half) + imm16 * Half \in Word
<1> DEFINE h == Half
           w == Width \div 2
<1>1. w \in Nat /\ w + w \in Nat /\ w + w <= Width /\ Width \in Nat
  BY WidthAssumption
<1>2. 2^(w + w) = h * h /\ h \in Nat \ {0}
  BY <1>1, PowerSum, PowerTyped DEF Half
<1>3. h * h <= M
  BY <1>1, <1>2, PowerMonotone, WordsAgree
<1>4. imm16 \in 0 .. h - 1 /\ x \in Nat
  BY WordsAgree
<1> HIDE DEF h
<1>5. x % h \in 0 .. h - 1
  <2>1. h \in Nat \ {0} /\ x \in Int
    BY <1>2, <1>4
  <2> QED BY ONLY <2>1, ModTyped
<1>6. PICK d \in Nat : h = (imm16 + 1) + d
  BY <1>2, <1>4
<1>7. h * h = ((imm16 * h) + h) + (d * h) /\ d * h \in Nat /\ imm16 * h \in Nat
  BY <1>2, <1>4, <1>6
<1> DEFINE l == x % h
           t == imm16 * h
<1>8. l \in 0 .. h - 1 /\ t \in Nat /\ t + h <= M
  <2> DEFINE hh == h * h
             dh == d * h
  <2>1. hh = (t + h) + dh /\ dh \in Nat /\ t \in Nat /\ hh <= M /\ h \in Nat /\ M \in Nat
    BY <1>2, <1>3, <1>7, WordsAgree
  <2>2. l \in 0 .. h - 1
    BY <1>5
  <2> HIDE DEF hh, dh, l, t
  <2> QED BY <2>1, <2>2
<1> HIDE DEF l, t
<1>9. l + t \in Word
  BY <1>2, <1>8, WordsAgree DEF Word
<1>10. h <= h * h
  BY <1>2
<1>11. imm16 \in Word
  BY <1>2, <1>3, <1>4, <1>10, WordsAgree DEF Word
<1> QED BY <1>9, <1>11 DEF h, l, t

LEMMA MovesKeep ==
  ASSUME DataPathInv, NEW rd \in Regs, NEW res \in Word, Moves(rd, res)
  PROVE  DataPathInv'
BY WriteTyped, HistoryStays DEF Moves, DataPathInv

LEMMA WritePairTyped ==
  ASSUME DataPathInv, NEW hi \in Regs, NEW lo \in Regs, NEW s \in BOOLEAN, NEW v \in Int,
         WritePair(hi, lo, s, Pair(v))
  PROVE  DataPathInv'
<1>1. /\ Pair(v).lo \in Word /\ Pair(v).hi \in Word
      /\ Pair(v).n \in BOOLEAN /\ Pair(v).z \in BOOLEAN
  BY PairTyped
<1> DEFINE p == Pair(v)
<1> HIDE DEF p
<1>2. regs' = [[regs EXCEPT ![lo] = p.lo] EXCEPT ![hi] = p.hi] /\ SetNZ(s, p)
  BY DEF WritePair, p
<1>3. RegsTyped /\ History
  BY DEF DataPathInv
<1>4. RegsTyped'
  BY <1>1, <1>2, <1>3 DEF RegsTyped, p
<1>5. History'
  BY <1>1, <1>2, <1>3, MultiplyKeeps DEF p
<1> QED BY <1>4, <1>5 DEF DataPathInv

LEMMA LongMultiplyKeeps ==
  ASSUME DataPathInv, NEW hi \in Regs, NEW lo \in Regs, NEW rm \in Regs, NEW rs \in Regs,
         NEW s \in BOOLEAN, LongMultiply(hi, lo, rm, rs, s)
  PROVE  DataPathInv'
<1>1. /\ regs[hi] \in Int /\ regs[lo] \in Int /\ regs[rm] \in Int /\ regs[rs] \in Int /\ M \in Int
  BY WordsAgree DEF DataPathInv, RegsTyped
<1>2. \A x \in Int : Signed(x) \in Int
  BY <1>1 DEF Signed
<1>3. /\ regs[rm] * regs[rs] \in Int
      /\ regs[hi] * M + regs[lo] + regs[rm] * regs[rs] \in Int
      /\ Signed(regs[rm]) * Signed(regs[rs]) \in Int
      /\ Signed(regs[hi]) * M + regs[lo] + Signed(regs[rm]) * Signed(regs[rs]) \in Int
  BY <1>1, <1>2
<1>4. PICK v \in Int : WritePair(hi, lo, s, Pair(v))
  BY <1>3 DEF LongMultiply, HandleUmull, HandleSmull, HandleUmlal, HandleSmlal,
              Umull, Smull, Umlal, Smlal
<1> QED BY <1>4, WritePairTyped

LEMMA MulKeeps ==
  ASSUME DataPathInv, NEW rd \in Regs, NEW rm \in Regs, NEW rs \in Regs, HandleMul(rd, rm, rs)
  PROVE  DataPathInv'
<1> DEFINE r == Mul(regs[rm], regs[rs])
<1>1. RegsTyped /\ History
  BY DEF DataPathInv
<1>2. r.res \in Word /\ r.n \in BOOLEAN /\ r.z \in BOOLEAN
  BY <1>1, MultiplyTyped DEF RegsTyped
<1>3. Write(rd, r.res) /\ SetNZ(TRUE, r)
  BY DEF HandleMul
<1> HIDE DEF r
<1>4. RegsTyped'
  BY <1>1, <1>2, <1>3, WriteTyped
<1>5. History'
  <2>1. PICK s \in BOOLEAN : SetNZ(s, r)
    BY <1>3
  <2> QED BY <1>1, <1>2, <2>1, MultiplyKeeps
<1> QED BY <1>4, <1>5 DEF DataPathInv

\* In any order and for words of every size that is a power of two: the
\* registers hold words, C stays the carry or the missing borrow of the last
\* sum or difference, one word or two, until an instruction says otherwise, and
\* the conditions mean what their names say after a comparison.
THEOREM FlagsTell == DpSpec => []FlagsTold
<1>1. DpInit => DataPathInv
  BY HistoryBegins
<1>2. DataPathInv /\ [DpNext]_dpVars => DataPathInv'
  <2> SUFFICES ASSUME DataPathInv, [DpNext]_dpVars PROVE DataPathInv'
    OBVIOUS
  <2>1. ASSUME NEW op2 \in Second, NEW rd \in Regs, NEW rn \in Sources, NEW s \in BOOLEAN,
               WithDestination(rd, rn, op2, s)
        PROVE  DataPathInv'
    BY <2>1, WithDestinationKeeps
  <2>2. ASSUME NEW op2 \in Second, NEW rn \in Sources, Compare(rn, op2) PROVE DataPathInv'
    BY <2>2, CompareKeeps
  <2>3. ASSUME NEW op2 \in Second, NEW rd \in Regs, NEW s \in BOOLEAN,
               HandleMov(rd, op2, s) \/ HandleMvn(rd, op2, s)
        PROVE  DataPathInv'
    BY <2>3, MovKeeps
  <2>4. ASSUME NEW rd \in Regs, NEW imm16 \in 0 .. Half - 1,
               HandleMovw(rd, imm16) \/ HandleMovt(rd, imm16)
        PROVE  DataPathInv'
    <3>1. regs[rd] \in Word
      BY DEF DataPathInv, RegsTyped
    <3>2. imm16 \in Word /\ (regs[rd] % Half) + imm16 * Half \in Word
      BY <3>1, HalvesTyped
    <3> QED BY <2>4, <3>2, MovesKeep DEF HandleMovw, HandleMovt
  <2>5. ASSUME NEW rd \in Regs, NEW rm \in Sources, HandleRbit(rd, rm) PROVE DataPathInv'
    <3>1. RawSrc(rm) \in Word
      BY SourcesTyped DEF DataPathInv
    <3> QED BY <2>5, <3>1, BitwiseTyped, MovesKeep DEF HandleRbit
  <2>6. ASSUME NEW rd \in Regs, NEW rm \in Regs, NEW rs \in Regs, HandleMul(rd, rm, rs)
        PROVE  DataPathInv'
    BY <2>6, MulKeeps
  <2>7. ASSUME NEW hi \in Regs, NEW lo \in Regs, NEW rm \in Regs, NEW rs \in Regs,
               NEW s \in BOOLEAN, LongMultiply(hi, lo, rm, rs, s)
        PROVE  DataPathInv'
    BY <2>7, LongMultiplyKeeps
  <2>8. CASE UNCHANGED dpVars
    BY <2>8, HistoryStays DEF dpVars, DataPathInv, RegsTyped
  <2> QED BY <2>1, <2>2, <2>3, <2>4, <2>5, <2>6, <2>7, <2>8 DEF DpNext
<1>3. DataPathInv => FlagsTold
  BY DEF DataPathInv, RegsTyped, History, HistoryTyped, FlagsTold, DpTypeOK
<1> QED BY <1>1, <1>2, <1>3, PTL DEF DpSpec

(***************************************************************************)
(* Supervisor calls: one whose handler keeps LR comes back as it was made. *)
(***************************************************************************)
\* The inductive invariant: the one SPSR and the one LR are still the call's.
Held == svc.open /\ svc.clean => spsr = svc.psr /\ lr = svc.next

\* A history record of the right shape, so that its fields can be changed.
CallShape == svc = [open |-> svc.open, clean |-> svc.clean, psr |-> svc.psr, next |-> svc.next]

CallInv == Held /\ CallShape

-----------------------------------------------------------------------------
LEMMA SvcKeeps == ASSUME CallInv, HandleSvc PROVE CallInv'
BY DEF CallInv, Held, CallShape, HandleSvc

LEMMA ReturnKeeps == ASSUME CallInv, ExceptionReturn PROVE CallInv'
BY DEF CallInv, Held, CallShape, ExceptionReturn

LEMMA CallKeeps == ASSUME CallInv, NEW to \in 0 .. MaxPc, Call(to) PROVE CallInv'
BY DEF CallInv, Held, CallShape, Call

\* Nothing else touches LR, the SPSR or the history.
LEMMA OthersKeep == ASSUME CallInv, UNCHANGED <<spsr, lr, svc>> PROVE CallInv'
BY DEF CallInv, Held, CallShape

LEMMA CallInvHolds == ExcSpec => []CallInv
<1>1. ExcInit => CallInv
  BY DEF ExcInit, NoCall, CallInv, Held, CallShape
<1>2. CallInv /\ [ExcNext]_excVars => CallInv'
  <2> SUFFICES ASSUME CallInv, [ExcNext]_excVars PROVE CallInv'
    OBVIOUS
  <2>1. CASE HandleSvc
    BY <2>1, SvcKeeps
  <2>2. CASE ExceptionReturn
    BY <2>2, ReturnKeeps
  <2>3. ASSUME NEW to \in 0 .. MaxPc, Call(to) PROVE CallInv'
    BY <2>3, CallKeeps
  <2>4. ASSUME NEW saved \in BOOLEAN, HandleMrs(saved) PROVE CallInv'
    BY <2>4, OthersKeep DEF HandleMrs
  <2>5. ASSUME NEW value \in Psrs \union {reg}, NEW fields \in SUBSET Fields,
               HandleMsr(value, fields)
        PROVE  CallInv'
    BY <2>5, OthersKeep DEF HandleMsr
  <2>6. ASSUME NEW nzcv \in 0 .. 1, FlagsSet(nzcv) PROVE CallInv'
    BY <2>6, OthersKeep DEF FlagsSet
  <2>7. CASE UNCHANGED excVars
    BY <2>7, OthersKeep DEF excVars
  <2> QED
    BY <2>1, <2>2, <2>3, <2>4, <2>5, <2>6, <2>7 DEF ExcNext
<1> QED
  BY <1>1, <1>2, PTL DEF ExcSpec

\* Whatever the handler does to the status registers, and whatever the values
\* they may take: a supervisor call comes back to its caller in the caller's
\* status.
THEOREM SupervisorCallComesBack == ExcSpec => SvcComesBack
<1>1. CallInv /\ [ExcNext]_excVars =>
        [ExceptionReturn /\ svc.open /\ svc.clean => cpsr' = svc.psr /\ pc' = svc.next]_excVars
  BY DEF CallInv, Held, ExceptionReturn
<1> QED
  BY <1>1, CallInvHolds, PTL DEF ExcSpec, SvcComesBack

(***************************************************************************)
(* The decoder, for every rule table that gives no key more candidates     *)
(* than a list has room.  The list of a key is the rows considered so far, *)
(* sorted; as many as there are, so that inserting one never pushes one    *)
(* out.  The first that fits a word is then the best of the whole table.   *)
(***************************************************************************)
Rows == 1 .. Len(Table)

LEMMA RowTyped ==
  /\ Len(Table) \in Nat /\ DOMAIN Table = Rows
  /\ \A i \in Rows : Table[i] \in Rules
  BY TableAssumption DEF Rows

LEMMA PriorityTyped == \A i \in Rows : Priority(i) \in Nat
  <1> TAKE i \in Rows
  <1>1. Table[i].mask \subseteq 0 .. 11 /\ Table[i].xmask \subseteq 0 .. 31 BY RowTyped DEF Rules
  <1>2. IsFiniteSet(0 .. 11) /\ IsFiniteSet(0 .. 31)
    BY FS_Interval, 0 \in Int, 11 \in Int, 31 \in Int
  <1>3. IsFiniteSet(Table[i].mask) /\ IsFiniteSet(Table[i].xmask) BY <1>1, <1>2, FS_Subset
  <1>4. Cardinality(Table[i].mask) \in Nat /\ Cardinality(Table[i].xmask) \in Nat
    BY <1>3, FS_CardinalityType
  <1> QED BY <1>4 DEF Priority

\* A row before another: of higher priority, or of the same and earlier in the table.
Before(i, j) ==
  \/ Priority(i) > Priority(j)
  \/ Priority(i) = Priority(j) /\ i < j
Sorted(l) == \A m, n \in DOMAIN l : m < n => Before(l[m], l[n])

\* Inserting a later row keeps the order, and keeps every row while there is room.
LEMMA PlaceSorts ==
  ASSUME NEW l \in Seq(Rows), Sorted(l), Len(l) < MAX_PER_KEY,
         NEW i \in Rows, \A n \in 1 .. Len(l) : l[n] < i
  PROVE  /\ Place(l, i) \in Seq(Rows) /\ Len(Place(l, i)) = Len(l) + 1
         /\ Sorted(Place(l, i))
         /\ \A j : (\E n \in 1 .. Len(l) + 1 : Place(l, i)[n] = j) <=>
                     (j = i \/ \E n \in 1 .. Len(l) : l[n] = j)
  <1> DEFINE Stays(n) == \E m \in n .. Len(l) : Priority(l[m]) >= Priority(i)
             p == Place(l, i)
             len == Len(l)
  <1>1. len \in Nat /\ \A n \in 1 .. len : l[n] \in Rows BY LenProperties, ElementOfSeq
  <1>2. p = [n \in 1 .. len + 1 |-> CASE Stays(n) -> l[n]
                                      [] ~Stays(n) /\ (n = 1 \/ Stays(n - 1)) -> i
                                      [] OTHER -> l[n - 1]]
    BY DEF Place
  <1>r. \A n \in 1 .. len : Priority(l[n]) \in Nat BY <1>1, PriorityTyped
  <1>i. Priority(i) \in Nat BY PriorityTyped
  \* The rows that stay are the first ones.
  <1>3. \A n \in Nat \ {0} : Stays(n) => n <= len /\ \A m \in 1 .. n : Stays(m)
    BY <1>1
  <1>4. \A n \in 1 .. len : Stays(n) => Priority(l[n]) >= Priority(i)
    <2> SUFFICES ASSUME NEW n \in 1 .. len, Stays(n) PROVE Priority(l[n]) >= Priority(i)
      OBVIOUS
    <2>1. PICK m \in n .. len : Priority(l[m]) >= Priority(i) OBVIOUS
    <2>2. m = n \/ Before(l[n], l[m]) BY <1>1 DEF Sorted
    <2> QED BY <2>1, <2>2, <1>1, <1>r, <1>i DEF Before
  <1>5. \A n \in 1 .. len : ~Stays(n) => Priority(l[n]) < Priority(i)
    BY <1>1, <1>r, <1>i
  \* Where the row goes.
  <1>6. PICK at \in 1 .. len + 1 : ~Stays(at) /\ \A n \in 1 .. at - 1 : Stays(n)
    <2>1. ~Stays(len + 1) BY <1>1
    <2> DEFINE Free == {n \in 1 .. len + 1 : ~Stays(n)}
    <2>2. Free \subseteq Nat /\ len + 1 \in Free BY <1>1, <2>1
    <2> HIDE DEF Stays
    <2>3. PICK n \in Free : \A m \in Free : n <= m BY <2>2, Least
    <2> QED BY <2>3, <1>1
  <1>7. \A n \in Nat \ {0} : Stays(n) <=> n < at
    <2> HIDE DEF Stays
    <2> QED BY <1>3, <1>6
  <1> HIDE DEF Stays
  <1>8. \A n \in 1 .. len + 1 : p[n] = IF n < at THEN l[n] ELSE IF n = at THEN i ELSE l[n - 1]
    <2> TAKE n \in 1 .. len + 1
    <2>1. n \in Nat \ {0} /\ (n # 1 => n - 1 \in Nat \ {0}) /\ at \in Nat \ {0} BY <1>1, <1>6
    <2>2. p[n] = CASE Stays(n) -> l[n] [] ~Stays(n) /\ (n = 1 \/ Stays(n - 1)) -> i [] OTHER -> l[n - 1]
      BY <1>2
    <2>3. CASE n < at BY <2>1, <2>2, <2>3, <1>7
    <2>4. CASE n = at BY <2>1, <2>2, <2>4, <1>7
    <2>5. CASE n > at
      <3>1. ~Stays(n) /\ ~Stays(n - 1) /\ n # 1 BY <2>1, <2>5, <1>7
      <3> QED BY <3>1, <2>2, <2>5, <2>1
    <2> QED BY <2>1, <2>3, <2>4, <2>5
  <1>9. p \in Seq(Rows) /\ Len(p) = len + 1
    <2>1. \A n \in 1 .. len + 1 : p[n] \in Rows BY <1>8, <1>1, <1>6
    <2>2. p \in [1 .. len + 1 -> Rows] BY <2>1, <1>2
    <2>3. p \in Seq(Rows) BY <2>2, <1>1, SeqDef
    <2> QED BY <2>2, <2>3, <1>1
  <1>10. ASSUME NEW m \in 1 .. len + 1, NEW n \in 1 .. len + 1, m < n PROVE Before(p[m], p[n])
    <2>0. /\ p[m] = IF m < at THEN l[m] ELSE IF m = at THEN i ELSE l[m - 1]
          /\ p[n] = IF n < at THEN l[n] ELSE IF n = at THEN i ELSE l[n - 1]
      BY <1>8
    <2>a. \A a, b \in 1 .. len : a < b => Before(l[a], l[b]) BY <1>1 DEF Sorted
    <2>1. CASE n < at BY <2>0, <2>a, <2>1, <1>10, <1>1, <1>6
    <2>2. CASE n = at
      <3>1. m \in 1 .. len /\ Stays(m) /\ p[m] = l[m] /\ p[n] = i BY <2>0, <2>2, <1>10, <1>6, <1>7, <1>1
      <3>2. Priority(l[m]) >= Priority(i) /\ l[m] < i BY <3>1, <1>4
      <3> QED BY <3>1, <3>2, <1>r, <1>i DEF Before
    <2>3. CASE n > at /\ m = at
      <3>1. n - 1 \in 1 .. len /\ n - 1 \in Nat \ {0} /\ ~(n - 1 < at) /\ p[m] = i /\ p[n] = l[n - 1]
        BY <2>0, <2>3, <1>6, <1>1
      <3>2. Priority(l[n - 1]) < Priority(i) BY <3>1, <1>5, <1>7
      <3> QED BY <3>1, <3>2, <1>r, <1>i DEF Before
    <2>4. CASE n > at /\ m < at
      <3>2. m < n - 1 /\ m \in 1 .. len /\ n - 1 \in 1 .. len BY <2>4, <1>6, <1>1
      <3> QED BY <3>2, <2>0, <2>4, <2>a
    <2>5. CASE n > at /\ m > at
      <3>1. m - 1 \in 1 .. len /\ n - 1 \in 1 .. len /\ m - 1 < n - 1 BY <2>5, <1>6, <1>1, <1>10
      <3>2. p[m] = l[m - 1] /\ p[n] = l[n - 1] BY <2>0, <2>5, <1>6, <1>1
      <3> QED BY <3>1, <3>2, <2>a
    <2> QED BY <2>1, <2>2, <2>3, <2>4, <2>5, <1>1, <1>6
  <1>11. Sorted(p)
    <2>1. DOMAIN p = 1 .. len + 1 BY <1>2
    <2> QED BY <2>1, <1>10 DEF Sorted
  <1>12. ASSUME NEW j PROVE (\E n \in 1 .. len + 1 : p[n] = j) <=> (j = i \/ \E n \in 1 .. len : l[n] = j)
    <2>1. ASSUME NEW n \in 1 .. len + 1, p[n] = j PROVE j = i \/ \E k \in 1 .. len : l[k] = j
      <3>1. n < at => n \in 1 .. len BY <1>1, <1>6
      <3>2. n > at => n - 1 \in 1 .. len BY <1>1, <1>6
      <3> QED BY <2>1, <3>1, <3>2, <1>8, <1>1, <1>6
    <2>2. ASSUME j = i PROVE \E n \in 1 .. len + 1 : p[n] = j
      <3>1. p[at] = i BY <1>8, <1>6, <1>1
      <3> QED BY <3>1, <2>2
    <2>3. ASSUME NEW k \in 1 .. len, l[k] = j PROVE \E n \in 1 .. len + 1 : p[n] = j
      <3>1. CASE k < at
        <4>1. k \in 1 .. len + 1 /\ p[k] = j BY <1>8, <2>3, <3>1, <1>1
        <4> QED BY <4>1
      <3>2. CASE k >= at
        <4>1. k + 1 \in 1 .. len + 1 /\ p[k + 1] = l[(k + 1) - 1] BY <1>8, <3>2, <1>1, <1>6
        <4>2. (k + 1) - 1 = k BY <1>1
        <4> QED BY <4>1, <4>2, <2>3
      <3> QED BY <3>1, <3>2, <1>1, <1>6
    <2> QED BY <2>1, <2>2, <2>3
  <1> QED BY <1>9, <1>11, <1>12

\* The rows that match the key and were considered.
Considered(k, e) == {i \in Rows : i < e /\ KeyMatches(i, k)}

\* The list is sorted and has the rows considered, each once.
ListOf(k, e, l) ==
  /\ k \in SUBSET (0 .. 11) /\ e \in 1 .. Len(Table) + 1
  /\ l \in Seq(Rows) /\ Len(l) = Cardinality(Considered(k, e)) /\ Sorted(l)
  /\ \A i : (\E n \in 1 .. Len(l) : l[n] = i) <=> i \in Considered(k, e)

LEMMA ConsideredFits ==
  ASSUME NEW k \in SUBSET (0 .. 11), NEW e \in Int
  PROVE  IsFiniteSet(Considered(k, e)) /\ Cardinality(Considered(k, e)) <= MAX_PER_KEY
  <1> DEFINE All == {i \in DOMAIN Table : KeyMatches(i, k)}
  <1>1. Cardinality(All) <= MAX_PER_KEY BY TableAssumption
  <1>2. All \subseteq Rows /\ Considered(k, e) \subseteq All BY RowTyped DEF Considered
  <1>3. IsFiniteSet(Rows) BY RowTyped, FS_Interval, 1 \in Int, Len(Table) \in Int DEF Rows
  <1>4. IsFiniteSet(All) BY <1>2, <1>3, FS_Subset
  <1>5. IsFiniteSet(Considered(k, e)) /\ Cardinality(Considered(k, e)) <= Cardinality(All)
    BY <1>2, <1>4, FS_Subset
  <1>6. Cardinality(Considered(k, e)) \in Nat /\ Cardinality(All) \in Nat
    BY <1>4, <1>5, FS_CardinalityType
  <1> QED BY <1>1, <1>5, <1>6 DEF MAX_PER_KEY

LEMMA BuildKeepsList ==
  ASSUME NEW k, NEW e, NEW l, ListOf(k, e, l),
         NEW i \in e .. Len(Table), KeyMatches(i, k),
         \A j \in e .. Len(Table) : KeyMatches(j, k) => i <= j
  PROVE  ListOf(k, i + 1, Place(l, i))
  <1>1. /\ k \in SUBSET (0 .. 11) /\ e \in 1 .. Len(Table) + 1 /\ i \in Rows
        /\ Len(Table) \in Nat
    BY RowTyped DEF ListOf, Rows
  <1>2. Considered(k, i + 1) = Considered(k, e) \union {i} /\ i \notin Considered(k, e)
    <2>1. \A j \in Rows : j < i + 1 /\ KeyMatches(j, k) => j < e \/ j = i
      <3> SUFFICES ASSUME NEW j \in Rows, j < i + 1, KeyMatches(j, k), ~(j < e) PROVE j = i
        OBVIOUS
      <3>1. j \in e .. Len(Table) BY <1>1 DEF Rows
      <3> QED BY <3>1, <1>1 DEF Rows
    <2>2. \A j \in Rows : j < e => j < i + 1 BY <1>1 DEF Rows
    <2> QED BY <2>1, <2>2, <1>1 DEF Considered, Rows
  <1>3. /\ IsFiniteSet(Considered(k, e)) /\ Cardinality(Considered(k, i + 1)) <= MAX_PER_KEY
        /\ Cardinality(Considered(k, e)) \in Nat
    BY <1>1, ConsideredFits, FS_CardinalityType, e \in Int, i + 1 \in Int
  <1>4. Cardinality(Considered(k, i + 1)) = Cardinality(Considered(k, e)) + 1
    BY <1>2, <1>3, FS_AddElement
  <1>5. Len(l) < MAX_PER_KEY BY <1>3, <1>4 DEF ListOf, MAX_PER_KEY
  <1>6. \A n \in 1 .. Len(l) : l[n] < i
    <2> TAKE n \in 1 .. Len(l)
    <2>1. l[n] \in Considered(k, e) BY DEF ListOf
    <2> QED BY <2>1, <1>1 DEF Considered, Rows
  <1> DEFINE p == Place(l, i)
  <1>7. /\ p \in Seq(Rows) /\ Len(p) = Len(l) + 1 /\ Sorted(p)
        /\ \A j : (\E n \in 1 .. Len(l) + 1 : p[n] = j) <=> (j = i \/ \E n \in 1 .. Len(l) : l[n] = j)
    BY <1>1, <1>5, <1>6, PlaceSorts DEF ListOf
  <1> HIDE DEF p
  <1>8. \A j : (\E n \in 1 .. Len(p) : p[n] = j) <=> j \in Considered(k, i + 1)
    BY <1>7, <1>2 DEF ListOf
  <1>9. Len(p) = Cardinality(Considered(k, i + 1)) BY <1>7, <1>4 DEF ListOf
  <1>10. i + 1 \in 1 .. Len(Table) + 1 BY <1>1
  <1> QED BY <1>1, <1>7, <1>8, <1>9, <1>10 DEF ListOf, p

\* A word of the key and what its list makes of it.
LEMMA ListDecides ==
  ASSUME NEW k, NEW e, NEW l, ListOf(k, e, l), \A i \in e .. Len(Table) : ~KeyMatches(i, k),
         NEW w, Key12(w) = k, NEW h \in BOOLEAN
  PROVE  /\ IsBest(w, h, DecodeWith(l, w, h))
         /\ \/ DecodeWith(l, w, h) = "unknown"
            \/ \E i \in Rows : DecodeWith(l, w, h) = Handler(i, w, h)
  <1> DEFINE Fits == {n \in DOMAIN l : ExtraMatches(l[n], w)}
             All == {i \in DOMAIN Table : KeyMatches(i, Key12(w)) /\ ExtraMatches(i, w)}
             d == DecodeWith(l, w, h)
  <1>1. l \in Seq(Rows) /\ DOMAIN l = 1 .. Len(l) /\ \A n \in DOMAIN l : l[n] \in Rows
    BY LenProperties, ElementOfSeq DEF ListOf
  <1>2. ASSUME NEW i PROVE i \in All <=> \E n \in Fits : l[n] = i
    <2>1. i \in Considered(k, e) <=> i \in Rows /\ KeyMatches(i, k)
      BY RowTyped DEF Considered, Rows, ListOf
    <2>2. i \in All <=> i \in Considered(k, e) /\ ExtraMatches(i, w) BY <2>1, RowTyped
    <2>3. i \in Considered(k, e) <=> \E n \in DOMAIN l : l[n] = i BY <1>1 DEF ListOf
    <2> QED BY <2>2, <2>3
  <1>3. CASE Fits = {}
    <2>1. d = "unknown" BY <1>3 DEF DecodeWith
    <2>2. All = {} BY <1>2, <1>3
    <2> QED BY <2>1, <2>2 DEF IsBest
  <1>4. CASE Fits # {}
    <2>1. Fits \subseteq Nat BY <1>1
    <2>2. \E n \in Fits : \A m \in Fits : n <= m BY <1>4, <2>1, Least
    <2> DEFINE n == CHOOSE n \in Fits : \A m \in Fits : n <= m
    <2>3. n \in Fits /\ \A m \in Fits : n <= m BY <2>2
    <2>4. d = Handler(l[n], w, h) BY <1>4 DEF DecodeWith
    <2> HIDE DEF n, Fits, d
    <2>5. l[n] \in All BY <2>3, <1>2
    <2>6. ASSUME NEW j \in All
          PROVE  \/ Priority(l[n]) > Priority(j)
                 \/ Priority(l[n]) = Priority(j) /\ l[n] <= j
      <3>1. PICK m \in Fits : l[m] = j BY <1>2
      <3>2. m \in DOMAIN l /\ n \in DOMAIN l /\ n <= m BY <2>3 DEF Fits
      <3>3. n = m \/ Before(l[n], l[m]) BY <3>2, <1>1 DEF ListOf, Sorted
      <3>4. l[n] \in Rows /\ l[m] \in Rows BY <3>2, <1>1
      <3>5. l[n] \in Int /\ l[m] \in Int BY <3>4, RowTyped DEF Rows
      <3>6. CASE n = m BY <3>1, <3>5, <3>6
      <3>7. CASE Before(l[n], l[m]) BY <3>1, <3>5, <3>7 DEF Before
      <3> QED BY <3>3, <3>6, <3>7
    <2>7. l[n] \in Rows BY <2>3, <1>1 DEF Fits
    <2>8. IsBest(w, h, d) BY <2>4, <2>5, <2>6 DEF IsBest
    <2> QED BY <2>8, <2>4, <2>7 DEF d
  <1> QED BY <1>3, <1>4

\* A row's handler is gated unless the table means it for every condition.
LEMMA HandlerGated ==
  ASSUME NEW i \in Rows, NEW w, NEW h \in BOOLEAN, Cond(w) # AL, ~ConditionHolds(w, h)
  PROVE  Handler(i, w, h) \in Unconditional
  <1>1. Table[i].cond \/ Table[i].fn \in Unconditional BY TableAssumption, RowTyped
  <1> QED BY <1>1 DEF Handler, Unconditional

LEMMA HandlerRuns ==
  ASSUME NEW i \in Rows, NEW w, NEW h PROVE Handler(i, w, h) # "none"
  BY TableAssumption, RowTyped DEF Handler

\* The words of a step have its key.
LEMMA SamplesHaveKey ==
  ASSUME key \in SUBSET (0 .. 11), NEW w \in Samples PROVE Key12(w) = key
  <1> DEFINE InKey == {b + 16 : b \in key \intersect 4 .. 11} \union {b + 4 : b \in key \intersect 0 .. 3}
             Free == (0 .. 3) \union (8 .. 19)
  <1>1. PICK r \in SUBSET (Free \union (28 .. 31)) : w = InKey \union r
    <2> DEFINE Fill(i, ones) == Free \intersect (Table[i].xvalue \union (ones \ Table[i].xmask))
    <2>0. AL \subseteq 28 .. 31 /\ NV \subseteq 28 .. 31 /\ {} \subseteq 28 .. 31 BY DEF AL, NV
    <2>1. CASE w = InKey \union AL
      <3>1. AL \in SUBSET (Free \union (28 .. 31)) BY <2>0
      <3> QED BY <3>1, <2>1
    <2>2. CASE \E i \in ToSet(list), ones \in {{}, Free, 12 .. 15}, c \in {AL, NV, {}} :
                 w = InKey \union Fill(i, ones) \union c
      <3>1. PICK i \in ToSet(list), ones \in {{}, Free, 12 .. 15}, c \in {AL, NV, {}} :
                   w = InKey \union Fill(i, ones) \union c
        BY <2>2
      <3>2. Fill(i, ones) \subseteq Free /\ c \subseteq 28 .. 31 BY <2>0
      <3>3. Fill(i, ones) \union c \in SUBSET (Free \union (28 .. 31)) BY <3>2
      <3>4. w = InKey \union (Fill(i, ones) \union c) BY <3>1
      <3> QED BY <3>3, <3>4
    <2>3. w \in {InKey \union AL} \union {InKey \union Fill(i, ones) \union c :
                i \in ToSet(list), ones \in {{}, Free, 12 .. 15}, c \in {AL, NV, {}}}
      BY DEF Samples
    <2> HIDE DEF Fill, InKey, Free
    <2> QED BY <2>1, <2>2, <2>3
  <1>2. ASSUME NEW b \in 20 .. 27 PROVE b \in w <=> b - 16 \in key
    <2>1. b \notin r BY DEF Free
    <2>2. b \in InKey <=> b - 16 \in key BY DEF InKey
    <2> QED BY <2>1, <2>2, <1>1
  <1>3. ASSUME NEW b \in 4 .. 7 PROVE b \in w <=> b - 4 \in key
    <2>1. b \notin r BY DEF Free
    <2>2. b \in InKey <=> b - 4 \in key BY DEF InKey
    <2> QED BY <2>1, <2>2, <1>1
  <1> HIDE DEF InKey, Free
  <1>4. ASSUME NEW c PROVE c \in Key12(w) <=> c \in key
    <2>1. c \in Key12(w) <=> \/ \E b \in 20 .. 27 : b \in w /\ c = b - 16
                             \/ \E b \in 4 .. 7 : b \in w /\ c = b - 4
      BY DEF Key12
    <2>2. (\E b \in 20 .. 27 : b \in w /\ c = b - 16) <=> c \in 4 .. 11 /\ c \in key
      <3>1. ASSUME c \in 4 .. 11, c \in key PROVE \E b \in 20 .. 27 : b \in w /\ c = b - 16
        <4>1. c + 16 \in 20 .. 27 /\ (c + 16) - 16 = c BY <3>1
        <4> QED BY <4>1, <3>1, <1>2
      <3>2. ASSUME NEW b \in 20 .. 27, b \in w, c = b - 16 PROVE c \in 4 .. 11 /\ c \in key
        BY <3>2, <1>2
      <3> QED BY <3>1, <3>2
    <2>3. (\E b \in 4 .. 7 : b \in w /\ c = b - 4) <=> c \in 0 .. 3 /\ c \in key
      <3>1. ASSUME c \in 0 .. 3, c \in key PROVE \E b \in 4 .. 7 : b \in w /\ c = b - 4
        <4>1. c + 4 \in 4 .. 7 /\ (c + 4) - 4 = c BY <3>1
        <4> QED BY <4>1, <3>1, <1>3
      <3>2. ASSUME NEW b \in 4 .. 7, b \in w, c = b - 4 PROVE c \in 0 .. 3 /\ c \in key
        BY <3>2, <1>3
      <3> QED BY <3>1, <3>2
    <2>4. c \in key => c \in 0 .. 3 \/ c \in 4 .. 11 OBVIOUS
    <2> QED BY <2>1, <2>2, <2>3, <2>4
  <1> QED BY <1>4

DecoderIInv ==
  /\ ListOf(key, ei, list) /\ DecodeIsBest /\ ConditionGates

LEMMA DecoderInit == DecodeInit => DecoderIInv
  <1> SUFFICES ASSUME DecodeInit PROVE DecoderIInv OBVIOUS
  <1>1. key \in SUBSET (0 .. 11) /\ ei = 1 /\ list = <<>> /\ ran = "none"
    BY KeysAssumption DEF DecodeInit
  <1>2. Considered(key, 1) = {} BY RowTyped DEF Considered, Rows
  <1>3. Cardinality(Considered(key, 1)) = 0 BY <1>2, FS_EmptySet
  <1>4. list \in Seq(Rows) /\ Len(list) = 0 /\ DOMAIN list = {} BY <1>1
  <1>5. ei \in 1 .. Len(Table) + 1 BY <1>1, RowTyped
  <1>6. ListOf(key, ei, list) BY <1>1, <1>2, <1>3, <1>4, <1>5 DEF ListOf, Sorted
  <1> QED BY <1>1, <1>6 DEF DecoderIInv, DecodeIsBest, ConditionGates

LEMMA DecoderStep == DecoderIInv /\ [DecodeNext]_decodeVars => DecoderIInv'
  <1> SUFFICES ASSUME DecoderIInv, [DecodeNext]_decodeVars PROVE DecoderIInv' OBVIOUS
  <1>1. CASE UNCHANGED decodeVars
    BY <1>1 DEF DecoderIInv, ListOf, DecodeIsBest, ConditionGates, decodeVars
  <1>2. CASE Build
    <2> DEFINE i == CHOOSE i \in Remaining : \A j \in Remaining : i <= j
    <2>1. Remaining # {} /\ list' = Place(list, i) /\ ei' = i + 1 /\ UNCHANGED <<key, word, holds, ran>>
      BY <1>2 DEF Build, Built
    <2>2. Remaining \subseteq Nat BY RowTyped DEF Remaining, DecoderIInv, ListOf
    <2>3. \E j \in Remaining : \A n \in Remaining : j <= n BY <2>1, <2>2, Least
    <2>4. i \in Remaining /\ \A j \in Remaining : i <= j BY <2>3
    <2> HIDE DEF i
    <2>5. ListOf(key, i + 1, Place(list, i))
      BY <2>4, BuildKeepsList DEF Remaining, DecoderIInv
    <2>6. ListOf(key, ei, list)' BY <2>1, <2>5 DEF ListOf
    <2> QED BY <2>1, <2>6 DEF DecoderIInv, DecodeIsBest, ConditionGates
  <1>3. CASE Decode
    <2>1. PICK w \in Samples, h \in BOOLEAN :
            /\ ran' = DecodeWith(list, w, h) /\ word' = w /\ holds' = h
      BY <1>3 DEF Decode
    <2>2. Built /\ UNCHANGED <<key, ei, list>> BY <1>3 DEF Decode
    <2>3. key \in SUBSET (0 .. 11) /\ ListOf(key, ei, list) BY DEF DecoderIInv, ListOf
    <2>4. Key12(w) = key BY <2>3, SamplesHaveKey
    <2>5. \A i \in ei .. Len(Table) : ~KeyMatches(i, key) BY <2>2 DEF Built, Remaining
    <2>6. /\ IsBest(w, h, DecodeWith(list, w, h))
          /\ \/ DecodeWith(list, w, h) = "unknown"
             \/ \E i \in Rows : DecodeWith(list, w, h) = Handler(i, w, h)
      BY <2>3, <2>4, <2>5, ListDecides
    <2>7. DecodeIsBest' BY <2>1, <2>6 DEF DecodeIsBest
    <2>8. ConditionGates' BY <2>1, <2>6, HandlerGated DEF ConditionGates
    <2>9. ListOf(key, ei, list)' BY <2>2, <2>3 DEF ListOf
    <2> QED BY <2>7, <2>8, <2>9 DEF DecoderIInv
  <1> QED BY <1>1, <1>2, <1>3 DEF DecodeNext

\* At every moment the list of a key is sorted, complete once it is built, and
\* what ran last is what the best row of the whole table says: for every rule
\* table that leaves no key more candidates than a list holds.
THEOREM DecodesBestRow == DecodeSpec => []DecoderInv
  <1>1. DecoderIInv => DecoderInv
    <2> SUFFICES ASSUME DecoderIInv PROVE DecoderInv OBVIOUS
    <2>1. /\ list \in Seq(Rows) /\ DOMAIN list = 1 .. Len(list) /\ Sorted(list)
          /\ \A i : (\E n \in 1 .. Len(list) : list[n] = i) <=> i \in Considered(key, ei)
      BY LenProperties DEF DecoderIInv, ListOf
    <2>2. BestFirst BY <2>1 DEF BestFirst, Sorted, Before
    <2>3. NothingLost
      <3> SUFFICES ASSUME Built PROVE ToSet(list) = {i \in DOMAIN Table : KeyMatches(i, key)}
        BY DEF NothingLost
      <3>1. ToSet(list) = Considered(key, ei) BY <2>1 DEF ToSet
      <3>2. \A i \in Rows : KeyMatches(i, key) => i < ei
        BY RowTyped DEF Built, Remaining, Rows, DecoderIInv, ListOf
      <3> QED BY <3>1, <3>2, RowTyped DEF Considered
    <2> QED BY <2>2, <2>3 DEF DecoderInv, DecoderIInv
  <1> QED BY <1>1, DecoderInit, DecoderStep, PTL DEF DecodeSpec

\* Every instruction word, not only those a run tries.
EveryWordIsBest ==
  Built => \A w \in SUBSET (0 .. 31), h \in BOOLEAN :
             Key12(w) = key =>
               /\ IsBest(w, h, DecodeWith(list, w, h))
               /\ Cond(w) # AL /\ ~ConditionHolds(w, h) =>
                    DecodeWith(list, w, h) \in Unconditional \union {"unknown"}

\* Once its list is built, the decoder runs the best row's handler for every
\* 32-bit word of the key, and gates it by the word's condition.
THEOREM DecodesEveryWord == DecodeSpec => []EveryWordIsBest
  <1>1. DecoderIInv => EveryWordIsBest
    <2> SUFFICES ASSUME DecoderIInv, Built, NEW w \in SUBSET (0 .. 31), NEW h \in BOOLEAN, Key12(w) = key
          PROVE  /\ IsBest(w, h, DecodeWith(list, w, h))
                 /\ Cond(w) # AL /\ ~ConditionHolds(w, h) =>
                      DecodeWith(list, w, h) \in Unconditional \union {"unknown"}
      BY DEF EveryWordIsBest
    <2>1. ListOf(key, ei, list) BY DEF DecoderIInv
    <2>2. \A i \in ei .. Len(Table) : ~KeyMatches(i, key) BY DEF Built, Remaining
    <2>3. /\ IsBest(w, h, DecodeWith(list, w, h))
          /\ \/ DecodeWith(list, w, h) = "unknown"
             \/ \E i \in Rows : DecodeWith(list, w, h) = Handler(i, w, h)
      BY <2>1, <2>2, ListDecides
    <2> QED BY <2>3, HandlerGated
  <1> QED BY <1>1, DecoderInit, DecoderStep, PTL DEF DecodeSpec
=============================================================================
