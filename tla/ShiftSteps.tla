------------------------------ MODULE ShiftSteps ------------------------------
(***************************************************************************)
(* The shifter against its definition: a shift by n is n shifts by one     *)
(* bit, the carry is the bit that left last.  A behaviour picks a form of  *)
(* shift and its inputs, takes the answer of the code, and then makes the  *)
(* one-bit shifts.                                                         *)
(***************************************************************************)
EXTENDS Shifter

VARIABLES form, type, amount,  \* which shift
          out,                 \* the code's answer
          now, todo            \* value and carry so far, steps to go
stepVars == <<form, type, amount, out, now, todo>>

\* The offset of an addressing mode has no carry: it compares as FALSE.
Answer(f, t, x, n, c) ==
  CASE f = "imm" -> ShiftByImm(t, x, n, c)
    [] f = "reg" -> ShiftByReg(t, x, n, c)
    [] f = "rot" -> Immediate(x, n, c)
    [] f = "am2" -> Out(Am2Shift(t, x, n), FALSE)

\* An immediate amount of zero stands for Width, or for one step of RRX; of a
\* register the low byte counts.
Steps(f, t, n) ==
  CASE f = "rot" -> 2 * n
    [] f = "reg" -> n % 256
    [] f \in {"imm", "am2"} /\ n > 0 -> n
    [] f \in {"imm", "am2"} /\ n = 0 ->
         CASE t = "LSL" -> 0 [] t \in {"LSR", "ASR"} -> Width [] t = "ROR" -> 1

OneBit(t, x, c, rrx) ==
  LET Half == 2^(Width - 1)
      In(b) == IF b THEN Half ELSE 0
  IN  CASE t = "LSL" -> Out((2 * x) % (2 * Half), x >= Half)
        [] t = "LSR" -> Out(x \div 2, x % 2 = 1)
        [] t = "ASR" -> Out(In(x >= Half) + (x \div 2), x % 2 = 1)
        [] t = "ROR" -> Out(In(IF rrx THEN c ELSE x % 2 = 1) + (x \div 2), x % 2 = 1)

Begin(f, t, x, n, c) ==
  /\ form = f /\ type = t /\ amount = n
  /\ out = Answer(f, t, x, n, c)
  /\ now = Out(x, c)
  /\ todo = Steps(f, t, n)

StepsInit ==
  \E x \in Words, t \in ShiftTypes, c \in BOOLEAN :
    \/ \E n \in 0 .. Width - 1 : Begin("imm", t, x, n, c)
    \/ \E n \in Words : Begin("reg", t, x, n, c)
    \/ \E n \in 0 .. (Width \div 2) - 1 : x < 2^(Width \div 4) /\ Begin("rot", "ROR", x, n, c)
    \/ \E n \in 0 .. Width - 1 : Begin("am2", t, x, n, FALSE)

Step ==
  /\ todo > 0
  /\ todo' = todo - 1
  /\ now' = OneBit(type, now.val, now.c, form \in {"imm", "am2"} /\ amount = 0)
  /\ UNCHANGED <<form, type, amount, out>>

StepsNext == Step
StepsSpec == StepsInit /\ [][StepsNext]_stepVars

-----------------------------------------------------------------------------
Answered == out.val = now.val /\ (form # "am2" => out.c = now.c)

\* Operand2's three forms give the value and the carry of the one-bit shifts,
\* for amounts of zero, at, above and far above the width; so do the offsets
\* of addressing modes, except for ASR #0.
ShiftIsSteps ==
  todo = 0 /\ ~(form = "am2" /\ type = "ASR" /\ amount = 0) => Answered
=============================================================================
