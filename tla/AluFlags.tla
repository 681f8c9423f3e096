------------------------------- MODULE AluFlags -------------------------------
(***************************************************************************)
(* The arithmetic of the data path (src/cpu/alu.c): what each handler      *)
(* leaves in its destination and in N, Z, C and V, as a function of the    *)
(* operands it read.  A word has 2 * H values; the program's H is 2^31.    *)
(* `x & 0x80000000` asks whether x is at least H, so the exclusive-ors the *)
(* handlers take of sign bits compare signs.                               *)
(***************************************************************************)
EXTENDS Integers

CONSTANT H
ASSUME HalfAssumption == H \in Nat \ {0}

M == 2 * H
Word == 0 .. M - 1

Neg(x) == x >= H
Signed(x) == IF Neg(x) THEN x - M ELSE x
Bit(b) == IF b THEN 1 ELSE 0

\* Overflow as the handlers test it for a sum and for a difference.
SumV(a, b, res)  == Neg(a) = Neg(b) /\ Neg(a) # Neg(res)
DiffV(a, b, res) == Neg(a) # Neg(b) /\ Neg(a) # Neg(res)

\* The result and its flags; set_NZ reads both from the result.
Result(res, carry, overflow) ==
  [res |-> res, n |-> Neg(res), z |-> res = 0, c |-> carry, v |-> overflow]

\* ADD and CMN: C is bit 32 of the wide sum.
Add(a, b) ==
  LET res == (a + b) % M IN Result(res, a + b >= M, SumV(a, b, res))

\* ADC looks for overflow between op1 and the wrapped op2 + C.
Adc(a, b, cin) ==
  LET wide == a + b + Bit(cin)
      res == wide % M
  IN  Result(res, wide >= M, SumV(a, (b + Bit(cin)) % M, res))

\* SUB and CMP, and RSB with the operands swapped: C is NOT borrow.
Sub(a, b) ==
  LET res == (a - b) % M IN Result(res, a >= b, DiffV(a, b, res))

Rsb(a, b) == Sub(b, a)

\* Mutant: borrows when C is set.
SbcBorrowsOnCarry(a, b, cin) ==
  LET wide == a - b - Bit(cin)
      res == wide % M
  IN  Result(res, wide >= 0, DiffV(a, (b + Bit(cin)) % M, res))

\* SBC, and RSC with the operands swapped.
Sbc(a, b, cin) ==
  LET borrow == 1 - Bit(cin)
      wide == a - b - borrow
      res == wide % M
  IN  Result(res, wide >= 0, DiffV(a, (b + borrow) % M, res))

Rsc(a, b, cin) == Sbc(b, a, cin)

-----------------------------------------------------------------------------
\* Multiplies: the low word, and the pair of words of the long ones.
Mul(x, y) ==
  LET res == (x * y) % M IN [res |-> res, n |-> Neg(res), z |-> res = 0]

\* The two's complement 64-bit value v in two words, N and Z of the pair.
Pair(v) ==
  LET w == v % (M * M)
  IN  [lo |-> w % M, hi |-> w \div M, n |-> w >= H * M, z |-> w = 0]

Umull(x, y) == Pair(x * y)
Umlal(hi, lo, x, y) == Pair(hi * M + lo + x * y)
Smull(x, y) == Pair(Signed(x) * Signed(y))
Smlal(hi, lo, x, y) == Pair(Signed(hi) * M + lo + Signed(x) * Signed(y))

-----------------------------------------------------------------------------
\* arm_condition_holds over the flags f.
Conditions == {"EQ", "NE", "CS", "CC", "MI", "PL", "VS", "VC",
               "HI", "LS", "GE", "LT", "GT", "LE", "AL", "NV"}

Holds(cond, f) ==
  CASE cond = "EQ" -> f.z                [] cond = "NE" -> ~f.z
    [] cond = "CS" -> f.c                [] cond = "CC" -> ~f.c
    [] cond = "MI" -> f.n                [] cond = "PL" -> ~f.n
    [] cond = "VS" -> f.v                [] cond = "VC" -> ~f.v
    [] cond = "HI" -> f.c /\ ~f.z        [] cond = "LS" -> ~f.c \/ f.z
    [] cond = "GE" -> f.n = f.v          [] cond = "LT" -> f.n # f.v
    [] cond = "GT" -> ~f.z /\ f.n = f.v  [] cond = "LE" -> f.z \/ f.n # f.v
    [] cond = "AL" -> TRUE               [] cond = "NV" -> FALSE

\* What the names of the conditions say of a comparison of a with b: unsigned
\* for CS, CC, HI and LS, signed for GE, LT, GT and LE.
TellsOrder(f, a, b) ==
  LET x == Signed(a)
      y == Signed(b)
      Is(cond) == Holds(cond, f)
  IN  /\ (Is("EQ") <=> a = b) /\ (Is("NE") <=> a # b)
      /\ (Is("CS") <=> a >= b) /\ (Is("CC") <=> a < b)
      /\ (Is("HI") <=> a > b) /\ (Is("LS") <=> a <= b)
      /\ (Is("GE") <=> x >= y) /\ (Is("LT") <=> x < y)
      /\ (Is("GT") <=> x > y) /\ (Is("LE") <=> x <= y)
=============================================================================
