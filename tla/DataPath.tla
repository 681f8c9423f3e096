------------------------------- MODULE DataPath -------------------------------
(***************************************************************************)
(* The data-processing and multiply instructions (src/cpu/alu.c,           *)
(* src/cpu/logic.c) over the general registers and the flags, in any       *)
(* order and with every second operand that the shifter can make of the    *)
(* registers.  Destinations other than PC (VmCore has those); PC as a      *)
(* source is "pc".                                                         *)
(*                                                                         *)
(* told is a history variable: the sum or difference that C still tells    *)
(* of, with its operands and result in one word, or in two when ADC, SBC   *)
(* or RSC went on with it; all says that N, Z and V tell of it too.        *)
(***************************************************************************)
EXTENDS AluFlags, Shifter

CONSTANTS Regs,   \* general registers
          Sources,  \* registers that instructions read, "pc" or not
          Pc      \* the address of the instruction
ASSUME DataPathAssumption ==
  /\ M = 2^Width /\ "pc" \notin Regs /\ Pc \in Word
  /\ Regs \subseteq Sources /\ Sources \subseteq Regs \union {"pc"}

VARIABLES regs, flags, told
dpVars == <<regs, flags, told>>

Flags == [n : BOOLEAN, z : BOOLEAN, c : BOOLEAN, v : BOOLEAN]
Long == 0 .. M * M - 1
Nothing == [of |-> "nothing", words |-> 1, a |-> 0, b |-> 0, res |-> 0, all |-> FALSE]
Told == [of : {"nothing", "sum", "difference"}, words : {1, 2},
         a : Long, b : Long, res : Long, all : BOOLEAN]

\* calloc and vm_reset: registers and CPSR are zero.
DpInit ==
  /\ regs = [r \in Regs |-> 0]
  /\ flags = [n |-> FALSE, z |-> FALSE, c |-> FALSE, v |-> FALSE]
  /\ told = Nothing

-----------------------------------------------------------------------------
\* r15 as a source is two instructions ahead, in alu.c and in operand2.
Ahead == LET x == (Pc + 8) % M IN x - (x % 4)
Src(r) == IF r = "pc" THEN Ahead ELSE regs[r]
\* logic.c reads the register array itself.
RawSrc(r) == IF r = "pc" THEN Pc ELSE regs[r]

Second == Operand2([r \in Sources |-> Src(r)], flags.c)

FlagsOf(r) == [n |-> r.n, z |-> r.z, c |-> r.c, v |-> r.v]

\* A result goes to Rd, its flags to the CPSR when S is set.
Write(rd, res) == regs' = [regs EXCEPT ![rd] = res]
SetFlags(s, r) == flags' = IF s THEN FlagsOf(r) ELSE flags

Arithmetic(rd, s, r) == Write(rd, r.res) /\ SetFlags(s, r)

\* Rd := x + y, x - y, y - x; C starts to tell of it.
Tells(s, of, x, y, r) ==
  told' = IF s THEN [of |-> of, words |-> 1, a |-> x, b |-> y, res |-> r.res, all |-> TRUE]
          ELSE told

HandleAdd(rd, rn, op2, s) ==
  LET r == Add(Src(rn), op2.val)
  IN  Arithmetic(rd, s, r) /\ Tells(s, "sum", Src(rn), op2.val, r)
HandleSub(rd, rn, op2, s) ==
  LET r == Sub(Src(rn), op2.val)
  IN  Arithmetic(rd, s, r) /\ Tells(s, "difference", Src(rn), op2.val, r)
HandleRsb(rd, rn, op2, s) ==
  LET r == Rsb(Src(rn), op2.val)
  IN  Arithmetic(rd, s, r) /\ Tells(s, "difference", op2.val, Src(rn), r)

\* The same with C; it goes on with what C told of.
GoesOn(s, of, x, y, r) ==
  told' = IF ~s THEN told
          ELSE IF told.of = of /\ told.words = 1
          THEN [of |-> of, words |-> 2, a |-> x * M + told.a, b |-> y * M + told.b,
                res |-> r.res * M + told.res, all |-> FALSE]
          ELSE Nothing

HandleAdc(rd, rn, op2, s) ==
  LET r == Adc(Src(rn), op2.val, flags.c)
  IN  Arithmetic(rd, s, r) /\ GoesOn(s, "sum", Src(rn), op2.val, r)
HandleSbc(rd, rn, op2, s) ==
  LET r == Sbc(Src(rn), op2.val, flags.c)
  IN  Arithmetic(rd, s, r) /\ GoesOn(s, "difference", Src(rn), op2.val, r)
HandleRsc(rd, rn, op2, s) ==
  LET r == Rsc(Src(rn), op2.val, flags.c)
  IN  Arithmetic(rd, s, r) /\ GoesOn(s, "difference", op2.val, Src(rn), r)

\* CMP and CMN have no destination.
HandleCmp(rn, op2) ==
  LET r == Sub(Src(rn), op2.val)
  IN  SetFlags(TRUE, r) /\ Tells(TRUE, "difference", Src(rn), op2.val, r) /\ UNCHANGED regs
HandleCmn(rn, op2) ==
  LET r == Add(Src(rn), op2.val)
  IN  SetFlags(TRUE, r) /\ Tells(TRUE, "sum", Src(rn), op2.val, r) /\ UNCHANGED regs

-----------------------------------------------------------------------------
BitSet == [x \in Word |-> {i \in 0 .. Width - 1 : BitOf(x, i)}]
FromBits == [S \in SUBSET (0 .. Width - 1) |-> CHOOSE x \in Word : BitSet[x] = S]

And(x, y) == FromBits[BitSet[x] \intersect BitSet[y]]
Orr(x, y) == FromBits[BitSet[x] \union BitSet[y]]
Not(x) == Ones - x
Eor(x, y) == FromBits[(BitSet[x] \union BitSet[y]) \ (BitSet[x] \intersect BitSet[y])]

\* Logical instructions take C from the shifter and leave V.
LogicalFlags(s, res, carry) ==
  /\ SetFlags(s, Result(res, carry, flags.v))
  /\ told' = IF ~s THEN told
             ELSE IF carry = flags.c THEN [told EXCEPT !.all = FALSE] ELSE Nothing
Logical(rd, s, res, carry) == Write(rd, res) /\ LogicalFlags(s, res, carry)

HandleAnd(rd, rn, op2, s) == Logical(rd, s, And(Src(rn), op2.val), op2.c)
HandleEor(rd, rn, op2, s) == Logical(rd, s, Eor(Src(rn), op2.val), op2.c)
HandleOrr(rd, rn, op2, s) == Logical(rd, s, Orr(RawSrc(rn), op2.val), op2.c)
HandleBic(rd, rn, op2, s) == Logical(rd, s, And(RawSrc(rn), Not(op2.val)), op2.c)
HandleMov(rd, op2, s) == Logical(rd, s, op2.val, op2.c)
HandleMvn(rd, op2, s) == Logical(rd, s, Not(op2.val), op2.c)
HandleTst(rn, op2) == LogicalFlags(TRUE, And(Src(rn), op2.val), op2.c) /\ UNCHANGED regs
HandleTeq(rn, op2) == LogicalFlags(TRUE, Eor(Src(rn), op2.val), op2.c) /\ UNCHANGED regs

\* Moves of half a word and the reversal of a word set no flags.
Half == 2^(Width \div 2)
Moves(rd, res) == Write(rd, res) /\ UNCHANGED <<flags, told>>
HandleMovw(rd, imm16) == Moves(rd, imm16)
HandleMovt(rd, imm16) == Moves(rd, (regs[rd] % Half) + imm16 * Half)
HandleRbit(rd, rm) == Moves(rd, FromBits[{Width - 1 - i : i \in BitSet[RawSrc(rm)]}])

-----------------------------------------------------------------------------
\* A multiply sets only N and Z.
SetNZ(s, r) ==
  /\ flags' = IF s THEN [flags EXCEPT !.n = r.n, !.z = r.z] ELSE flags
  /\ told' = IF s THEN [told EXCEPT !.all = FALSE] ELSE told

HandleMul(rd, rm, rs) ==
  LET r == Mul(regs[rm], regs[rs]) IN Write(rd, r.res) /\ SetNZ(TRUE, r)

\* RdLo is written first.
WritePair(hi, lo, s, p) ==
  regs' = [[regs EXCEPT ![lo] = p.lo] EXCEPT ![hi] = p.hi] /\ SetNZ(s, p)

HandleUmull(hi, lo, rm, rs, s) == WritePair(hi, lo, s, Umull(regs[rm], regs[rs]))
HandleSmull(hi, lo, rm, rs, s) == WritePair(hi, lo, s, Smull(regs[rm], regs[rs]))
HandleUmlal(hi, lo, rm, rs, s) ==
  WritePair(hi, lo, s, Umlal(regs[hi], regs[lo], regs[rm], regs[rs]))
HandleSmlal(hi, lo, rm, rs, s) ==
  WritePair(hi, lo, s, Smlal(regs[hi], regs[lo], regs[rm], regs[rs]))

-----------------------------------------------------------------------------
WithDestination(rd, rn, op2, s) ==
  \/ HandleAdd(rd, rn, op2, s) \/ HandleAdc(rd, rn, op2, s)
  \/ HandleSub(rd, rn, op2, s) \/ HandleSbc(rd, rn, op2, s)
  \/ HandleRsb(rd, rn, op2, s) \/ HandleRsc(rd, rn, op2, s)
  \/ HandleAnd(rd, rn, op2, s) \/ HandleEor(rd, rn, op2, s)
  \/ HandleOrr(rd, rn, op2, s) \/ HandleBic(rd, rn, op2, s)

Compare(rn, op2) ==
  HandleCmp(rn, op2) \/ HandleCmn(rn, op2) \/ HandleTst(rn, op2) \/ HandleTeq(rn, op2)

\* RdHi = RdLo is unpredictable on the processor and left out.
LongMultiply(hi, lo, rm, rs, s) ==
  /\ hi # lo
  /\ \/ HandleUmull(hi, lo, rm, rs, s) \/ HandleUmlal(hi, lo, rm, rs, s)
     \/ HandleSmull(hi, lo, rm, rs, s) \/ HandleSmlal(hi, lo, rm, rs, s)

DpNext ==
  \/ \E op2 \in Second :
       \/ \E rd \in Regs, rn \in Sources, s \in BOOLEAN : WithDestination(rd, rn, op2, s)
       \/ \E rn \in Sources : Compare(rn, op2)
       \/ \E rd \in Regs, s \in BOOLEAN : HandleMov(rd, op2, s) \/ HandleMvn(rd, op2, s)
  \/ \E rd \in Regs, imm16 \in 0 .. Half - 1 : HandleMovw(rd, imm16) \/ HandleMovt(rd, imm16)
  \/ \E rd \in Regs, rm \in Sources : HandleRbit(rd, rm)
  \/ \E rd, rm, rs \in Regs : HandleMul(rd, rm, rs)
  \/ \E hi, lo, rm, rs \in Regs, s \in BOOLEAN : LongMultiply(hi, lo, rm, rs, s)

DpSpec == DpInit /\ [][DpNext]_dpVars

-----------------------------------------------------------------------------
\* Registers are words and the history refers to words.
DpTypeOK ==
  /\ regs \in [Regs -> Word] /\ flags \in Flags /\ told \in Told

\* As long as only instructions that leave the flags alone follow a CMP, SUBS
\* or RSBS, each condition still means what its name says of the operands,
\* read as unsigned or as signed numbers.
OrderTold ==
  told.all /\ told.of = "difference" => TellsOrder(flags, told.a, told.b)

\* C stays the carry of the last sum, or the missing borrow of the last
\* difference, through everything that does not say otherwise: moves, other
\* registers' results, multiplies with S, logical instructions whose operand
\* is not shifted.  ADCS, SBCS and RSCS make it the carry or the missing borrow
\* of the two-word numbers.
CarryTold ==
  LET Base == IF told.words = 1 THEN M ELSE M * M
  IN  /\ told.of = "sum" => flags.c = (told.a + told.b >= Base)
      /\ told.of = "difference" => flags.c = (told.a >= told.b)

\* The high word of ADCS, SBCS or RSCS, however long after the low word's
\* instruction, makes the exact two-word sum or difference with it.
PairTold ==
  /\ told.of = "sum" /\ told.words = 2 => told.res = (told.a + told.b) % (M * M)
  /\ told.of = "difference" /\ told.words = 2 => told.res = (told.a - told.b) % (M * M)
\* What the flags tell, whatever came between.
FlagsTold == DpTypeOK /\ OrderTold /\ CarryTold /\ PairTold
=============================================================================
