------------------------------- MODULE Shifter -------------------------------
(***************************************************************************)
(* The barrel shifter: Operand2 of the data-processing instructions        *)
(* (src/cpu/operand.c) and the shifted offset of word and byte transfers   *)
(* (ctx_am2_shift_imm in src/include/ctx_helpers.h).  A word has Width     *)
(* bits, 32 in the program; the literals 31, 32 and 8 of the code that     *)
(* stand for a word's size are written with Width.                         *)
(***************************************************************************)
EXTENDS Integers

CONSTANT Width
ASSUME WidthAssumption == Width \in Nat \ {0}

WordSize == 2^Width
Words == 0 .. WordSize - 1
Ones == WordSize - 1
ShiftTypes == {"LSL", "LSR", "ASR", "ROR"}

BitOf(x, i) == (x \div 2^i) % 2 = 1
Top(x) == BitOf(x, Width - 1)

\* The C operators << and >> on a word, for amounts below Width.
Left(x, n)  == (x * 2^n) % WordSize
Right(x, n) == x \div 2^n
ror32(x, s) == IF s = 0 THEN x ELSE Right(x, s) + Left(x, Width - s)

\* >> of a negative number fills with ones.
ArithmeticRight(x, n) ==
  IF Top(x) THEN Right(x, n) + (Ones - Right(Ones, n)) ELSE Right(x, n)

\* A shifted value and the shifter's carry.
Out(x, c) == [val |-> x, c |-> c]
SignFill(x) == Out(IF Top(x) THEN Ones ELSE 0, Top(x))

\* What both forms do for an amount from 1 to Width - 1.
Within(type, x, n) ==
  CASE type = "LSL" -> Out(Left(x, n), BitOf(x, Width - n))
    [] type = "LSR" -> Out(Right(x, n), BitOf(x, n - 1))
    [] type = "ASR" -> Out(ArithmeticRight(x, n), BitOf(x, n - 1))
    [] type = "ROR" -> Out(ror32(x, n), BitOf(x, n - 1))

\* Amounts are five bits here: 0 has a meaning of its own for each type.
ShiftByImm(type, x, amount, inC) ==
  IF amount > 0 THEN Within(type, x, amount)
  ELSE CASE type = "LSL" -> Out(x, inC)
         [] type = "LSR" -> Out(0, Top(x))
         [] type = "ASR" -> SignFill(x)
         [] type = "ROR" -> Out((IF inC THEN 2^(Width - 1) ELSE 0) + Right(x, 1), BitOf(x, 0))

\* Mutant: the amount is taken modulo the width for every type of shift.
ShiftByRegModulo(type, x, rs, inC) ==
  LET s == (rs % 256) % Width IN IF s = 0 THEN Out(x, inC) ELSE Within(type, x, s)

\* Here they are the low byte of a register.
ShiftByReg(type, x, rs, inC) ==
  LET amount == rs % 256
      s == amount % Width
  IN  IF amount = 0 THEN Out(x, inC)
      ELSE IF type = "ROR" THEN (IF s = 0 THEN Out(x, Top(x)) ELSE Within(type, x, s))
      ELSE IF amount < Width THEN Within(type, x, amount)
      ELSE CASE type = "LSL" -> Out(0, amount = Width /\ BitOf(x, 0))
             [] type = "LSR" -> Out(0, amount = Width /\ Top(x))
             [] type = "ASR" -> SignFill(x)

\* The immediate form: a byte rotated right by twice rot.
Immediate(imm8, rot, inC) ==
  IF rot = 0 THEN Out(imm8, inC)
  ELSE LET val == ror32(imm8, 2 * rot) IN Out(val, Top(val))

\* dp_operand2_ctx, given the source registers and the incoming carry.
Operand2(src, inC) ==
  LET rms == {src[r] : r \in DOMAIN src}
  IN  {Immediate(i, rot, inC) : i \in 0 .. 2^(Width \div 4) - 1, rot \in 0 .. (Width \div 2) - 1}
        \union {ShiftByImm(t, x, n, inC) : t \in ShiftTypes, x \in rms, n \in 0 .. Width - 1}
        \union {ShiftByReg(t, x, rs, inC) : t \in ShiftTypes, x \in rms, rs \in rms}

\* The offset of an addressing mode has no carry, in or out.
Am2Shift(type, x, amount) ==
  CASE type = "LSL" -> Left(x, amount)
    [] type = "LSR" -> IF amount = 0 THEN 0 ELSE Right(x, amount)
    [] type = "ASR" -> ArithmeticRight(x, (IF amount = 0 THEN Width ELSE amount) % Width)
    [] type = "ROR" -> IF amount = 0 THEN Right(x, 1) ELSE ror32(x, amount)
=============================================================================
