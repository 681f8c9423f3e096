------------------------------- MODULE LoadStore -------------------------------
(***************************************************************************)
(* Loads and stores (src/cpu/memops.c and the address helpers of           *)
(* src/include/ctx_helpers.h) over the registers and RAM.  Each handler is *)
(* an operator from the state before to the state after, so that handlers  *)
(* can be compared with each other.  Devices are in MemRouting.            *)
(*                                                                         *)
(* A byte has ByteBits bits, eight in the program; a word is four bytes.   *)
(* wrote is a history variable: a store that no later one overlaps.        *)
(***************************************************************************)
EXTENDS Shifter, FiniteSets

CONSTANTS ByteBits, RamSize,
          Regs,      \* general registers, by number
          Pc,        \* the address of the instruction
          Offsets,   \* immediate offsets to use
          Starts,    \* the registers at the start
          MaxSteps   \* instructions in a behaviour
ASSUME LoadStoreAssumption ==
  /\ ByteBits \in Nat \ {0} /\ Width = 4 * ByteBits
  /\ RamSize \in 1 .. WordSize /\ Regs \subseteq 0 .. 14 /\ Pc \in Words /\ Offsets \subseteq Words
  /\ Starts \subseteq [Regs -> Words] /\ MaxSteps \in Nat
  /\ 4 * (Cardinality(Regs) + 1) <= WordSize  \* all registers in the address space

VARIABLES st, wrote, steps
lsVars == <<st, wrote, steps>>

W == 2^Width
Wrapped(x) == x % W
Aligned(x) == x - (x % 4)
Bytes(n) == 2^(ByteBits * n)  \* the values of n bytes
Byte == 0 .. Bytes(1) - 1
States == [r : [Regs -> Words], ram : [0 .. RamSize - 1 -> Byte], npc : Words]

\* ctx_reg_read_src; a register that is stored is read raw.
Src(s, r) == IF r = 15 THEN Wrapped(Aligned(Pc) + 8) ELSE s.r[r]
Raw(s, r) == IF r = 15 THEN Pc ELSE s.r[r]
SetReg(s, r, v) == [s EXCEPT !.r[r] = v]
\* A loaded PC takes effect as the next PC.
LoadReg(s, r, v) == IF r = 15 THEN [s EXCEPT !.npc = Aligned(v)] ELSE SetReg(s, r, v)

\* RAM alone: what does not fit in it reads as zero and is not written.
Digit(v, i) == Right(v, ByteBits * i) % Bytes(1)
Get(s, a, n) ==
  CASE a + n > RamSize -> 0
    [] a + n <= RamSize /\ n = 1 -> s.ram[a]
    [] a + n <= RamSize /\ n = 4 ->
         s.ram[a] + s.ram[a + 1] * Bytes(1) + s.ram[a + 2] * Bytes(2) + s.ram[a + 3] * Bytes(3)
Put(s, a, n, v) ==
  IF a + n > RamSize THEN s
  ELSE [s EXCEPT !.ram = [i \in DOMAIN s.ram |-> IF i \in a .. a + n - 1 THEN Digit(v, i - a) ELSE s.ram[i]]]

-----------------------------------------------------------------------------
\* Indexing: before or after the access, up or down, with write-back.
Modes == [p : BOOLEAN, u : BOOLEAN, w : BOOLEAN]
Moved(base, off, m) == Wrapped(IF m.u THEN base + off ELSE base - off)
Ea(base, off, m) == IF m.p THEN Moved(base, off, m) ELSE base
WritesBack(m) == (m.p /\ m.w) \/ ~m.p

\* Write-back is the last thing a handler does.
WriteBack(s, rn, off, m, before) ==
  IF WritesBack(m) THEN SetReg(s, rn, Moved(Src(before, rn), off, m)) ELSE s

LoadWith(s, rd, rn, off, m, val) == WriteBack(LoadReg(s, rd, val), rn, off, m, s)
At(s, rn, off, m) == Ea(Src(s, rn), off, m)

LdrImm(s, rd, rn, off, m) == LoadWith(s, rd, rn, off, m, Get(s, At(s, rn, off, m), 4))
LdrbImm(s, rd, rn, off, m) == LoadWith(s, rd, rn, off, m, Get(s, At(s, rn, off, m), 1))
StrImm(s, rd, rn, off, m) == WriteBack(Put(s, At(s, rn, off, m), 4, Raw(s, rd)), rn, off, m, s)
StrbImm(s, rd, rn, off, m) == WriteBack(Put(s, At(s, rn, off, m), 1, Raw(s, rd)), rn, off, m, s)

LdrLiteral(s, rd, imm12, u) ==
  LET base == Aligned(Src(s, 15))
  IN  LoadReg(s, rd, Get(s, Wrapped(IF u THEN base + imm12 ELSE base - imm12), 4))

\* The register-offset forms always add and never write back.
RegOffset(s, rn, rm, type, amount) == Wrapped(Src(s, rn) + Am2Shift(type, Src(s, rm), amount))
LdrReg(s, rd, rn, rm, type, amount) ==
  LoadReg(s, rd, Get(s, RegOffset(s, rn, rm, type, amount), 4))
StrReg(s, rd, rn, rm, type, amount) == Put(s, RegOffset(s, rn, rm, type, amount), 4, Raw(s, rd))
LdrbReg(s, rd, rn, rm, type, amount) ==
  SetReg(s, rd, Get(s, RegOffset(s, rn, rm, type, amount), 1))
StrbReg(s, rd, rn, rm, type, amount) == Put(s, RegOffset(s, rn, rm, type, amount), 1, Raw(s, rd))

-----------------------------------------------------------------------------
\* Halfwords go byte by byte, each with its own bounds check.
GetHalf(s, a) == Get(s, a, 1) + Get(s, Wrapped(a + 1), 1) * Bytes(1)
\* Mutant: the high byte goes to the lower address.
PutHalfSwapped(s, a, v) == Put(Put(s, a, 1, Digit(v, 1)), Wrapped(a + 1), 1, Digit(v, 0))
PutHalf(s, a, v) == Put(Put(s, a, 1, Digit(v, 0)), Wrapped(a + 1), 1, Digit(v, 1))
SignExtend(v, n) == IF v >= Bytes(n) \div 2 THEN W - Bytes(n) + v ELSE v

Ldrh(s, rd, rn, off, m) == LoadWith(s, rd, rn, off, m, GetHalf(s, At(s, rn, off, m)))
Ldrsb(s, rd, rn, off, m) ==
  LoadWith(s, rd, rn, off, m, SignExtend(Get(s, At(s, rn, off, m), 1), 1))
Ldrsh(s, rd, rn, off, m) ==
  LoadWith(s, rd, rn, off, m, SignExtend(GetHalf(s, At(s, rn, off, m)), 2))
Strh(s, rd, rn, off, m) == WriteBack(PutHalf(s, At(s, rn, off, m), Raw(s, rd)), rn, off, m, s)

\* Two words, to or from Rd and the register after it; both are read first.
Ldrd(s, rd, rn, off, m) ==
  LET ea == At(s, rn, off, m)
  IN  WriteBack(SetReg(SetReg(s, rd, Get(s, ea, 4)), rd + 1, Get(s, Wrapped(ea + 4), 4)), rn, off, m, s)
Strd(s, rd, rn, off, m) ==
  LET ea == At(s, rn, off, m)
  IN  WriteBack(Put(Put(s, ea, 4, Raw(s, rd)), Wrapped(ea + 4), 4, Raw(s, rd + 1)), rn, off, m, s)

-----------------------------------------------------------------------------
\* Block transfers: registers in ascending order at ascending addresses.
\* Mutant: DA starts where DB does.
FirstOfDb(base, n, m) == IF m.u THEN base + (IF m.p THEN 4 ELSE 0) ELSE base - 4 * n
First(base, n, m) == IF m.u THEN base + (IF m.p THEN 4 ELSE 0) ELSE base - 4 * n + (IF m.p THEN 0 ELSE 4)
Below(list, i) == Cardinality({j \in list : j < i})
Slot(s, rn, list, m, i) == Wrapped(First(s.r[rn], Cardinality(list), m) + 4 * Below(list, i))
BlockBase(s, rn, list, m) == Moved(s.r[rn], 4 * Cardinality(list), m)
BlockWriteBack(s, rn, list, m, before) ==
  IF m.w THEN SetReg(s, rn, BlockBase(before, rn, list, m)) ELSE s

\* The loops: the state after the registers below i.
Storing(s, rn, list, m) ==
  LET After[i \in 0 .. 16] ==
        IF i = 0 THEN s
        ELSE IF i - 1 \in list THEN Put(After[i - 1], Slot(s, rn, list, m, i - 1), 4, Raw(s, i - 1))
        ELSE After[i - 1]
  IN  After
Loading(s, rn, list, m) ==
  LET After[i \in 0 .. 16] ==
        IF i = 0 THEN s
        ELSE IF i - 1 \in list THEN LoadReg(After[i - 1], i - 1, Get(s, Slot(s, rn, list, m, i - 1), 4))
        ELSE After[i - 1]
  IN  After
Stm(s, rn, list, m) == BlockWriteBack(Storing(s, rn, list, m)[16], rn, list, m, s)
Ldm(s, rn, list, m) == BlockWriteBack(Loading(s, rn, list, m)[16], rn, list, m, s)

\* LDR pc, [sp], #4.
PopPc(s, sp) == SetReg(LoadReg(s, 15, Get(s, s.r[sp], 4)), sp, Wrapped(s.r[sp] + 4))

\* The register is read before the memory is written.
Swp(s, rd, rn, rm) == SetReg(Put(s, s.r[rn], 4, s.r[rm]), rd, Get(s, s.r[rn], 4))
Swpb(s, rd, rn, rm) == SetReg(Put(s, s.r[rn], 1, s.r[rm]), rd, Get(s, s.r[rn], 1))

-----------------------------------------------------------------------------
Nothing == [at |-> 0, n |-> 0, val |-> 0]
Low(v, n) == v % Bytes(n)
Stored(at, n, v) == IF at + n <= RamSize THEN [at |-> at, n |-> n, val |-> Low(v, n)] ELSE Nothing
\* The bytes of a halfword part at the ends of RAM and of the address space.
StoredHalf(at, v) ==
  IF at + 2 <= RamSize THEN {Stored(at, 2, v)}
  ELSE {Stored(at, 1, Digit(v, 0)), Stored(Wrapped(at + 1), 1, Digit(v, 1))}
Apart(x, y) == x.at + x.n <= y.at \/ y.at + y.n <= x.at

LsInit ==
  /\ st \in [r : Starts, ram : {[i \in 0 .. RamSize - 1 |-> (i \div 3) % Bytes(1)]}, npc : {Wrapped(Pc + 4)}]
  /\ wrote = Nothing /\ steps = 0

\* cpu_execute sets npc to the next address before the handler.
Now == [st EXCEPT !.npc = Wrapped(Pc + 4)]
Load(s) == st' = s /\ UNCHANGED wrote
Store(s, stored) ==
  /\ st' = s
  /\ \/ wrote' \in stored
     \/ (\A x \in stored : Apart(x, wrote)) /\ UNCHANGED wrote

\* A base of r15 is not written back, a base and a destination are distinct.
Indexed(rn, m) == rn = 15 => ~WritesBack(m)
Distinct(rd, rn, m) == rd = rn => ~WritesBack(m)

HandleLdrImm(rd, rn, off, m) == Distinct(rd, rn, m) /\ Load(LdrImm(Now, rd, rn, off, m))
HandleLdrbImm(rd, rn, off, m) == Distinct(rd, rn, m) /\ rd # 15 /\ Load(LdrbImm(Now, rd, rn, off, m))

HandleStrPreimm(rd, rn, off, m) ==
  /\ m.p
  /\ Store(StrImm(Now, rd, rn, off, m), {Stored(At(Now, rn, off, m), 4, Raw(Now, rd))})
\* Without P, a set W makes it another instruction, which is not decoded.
HandleStrPostimm(rd, rn, off, m) ==
  /\ ~m.p /\ ~m.w
  /\ Store(StrImm(Now, rd, rn, off, m), {Stored(At(Now, rn, off, m), 4, Raw(Now, rd))})
HandleStrbPreimm(rd, rn, off, m) ==
  /\ m.p
  /\ Store(StrbImm(Now, rd, rn, off, m), {Stored(At(Now, rn, off, m), 1, Raw(Now, rd))})
HandleStrbPostimm(rd, rn, off, m) ==
  /\ ~m.p
  /\ Store(StrbImm(Now, rd, rn, off, m), {Stored(At(Now, rn, off, m), 1, Raw(Now, rd))})

HandleLdrLiteral(rd, imm12, u) == Load(LdrLiteral(Now, rd, imm12, u))

HandleLdrRegoffset(rd, rn, rm, type, n) == Load(LdrReg(Now, rd, rn, rm, type, n))
HandleLdrbReg(rd, rn, rm, type, n) == rd # 15 /\ Load(LdrbReg(Now, rd, rn, rm, type, n))
HandleStrRegoffset(rd, rn, rm, type, n) ==
  Store(StrReg(Now, rd, rn, rm, type, n), {Stored(RegOffset(Now, rn, rm, type, n), 4, Raw(Now, rd))})
HandleStrbRegShift(rd, rn, rm, type, n) ==
  Store(StrbReg(Now, rd, rn, rm, type, n), {Stored(RegOffset(Now, rn, rm, type, n), 1, Raw(Now, rd))})

\* Halfwords, signed bytes and pairs take a register or an immediate as offset.
HandleLdrh(rd, rn, off, m) == Distinct(rd, rn, m) /\ Load(Ldrh(Now, rd, rn, off, m))
HandleLdrsb(rd, rn, off, m) == Distinct(rd, rn, m) /\ Load(Ldrsb(Now, rd, rn, off, m))
HandleLdrsh(rd, rn, off, m) == Distinct(rd, rn, m) /\ Load(Ldrsh(Now, rd, rn, off, m))
HandleStrh(rd, rn, off, m) ==
  Store(Strh(Now, rd, rn, off, m), StoredHalf(At(Now, rn, off, m), Raw(Now, rd)))
ExecLdrd(rd, rn, off, m) ==
  /\ rd + 1 \in Regs /\ Distinct(rd, rn, m) /\ Distinct(rd + 1, rn, m)
  /\ Load(Ldrd(Now, rd, rn, off, m))
ExecStrd(rd, rn, off, m) ==
  /\ rd + 1 \in Regs
  /\ LET ea == At(Now, rn, off, m)
     IN  Store(Strd(Now, rd, rn, off, m),
               {Stored(ea, 4, Raw(Now, rd)), Stored(Wrapped(ea + 4), 4, Raw(Now, rd + 1))})

\* With write-back the base is not in the list.
HandleLdm(rn, list, m) == (m.w => rn \notin list) /\ Load(Ldm(Now, rn, list, m))
HandleStm(rn, list, m) ==
  /\ m.w => rn \notin list
  /\ Store(Stm(Now, rn, list, m),
           {Stored(Slot(Now, rn, list, m, i), 4, Raw(Now, i)) : i \in list})
HandlePopPc(sp) == Load(PopPc(Now, sp))

HandleSwp(rd, rn, rm) == Store(Swp(Now, rd, rn, rm), {Stored(Now.r[rn], 4, Now.r[rm])})
HandleSwpb(rd, rn, rm) == Store(Swpb(Now, rd, rn, rm), {Stored(Now.r[rn], 1, Now.r[rm])})

-----------------------------------------------------------------------------
All == Regs \union {15}
Lists == (SUBSET All) \ {{}}

WordOrByte(rd, rn, off, m) ==
  \/ HandleLdrImm(rd, rn, off, m) \/ HandleLdrbImm(rd, rn, off, m)
  \/ HandleStrPreimm(rd, rn, off, m) \/ HandleStrPostimm(rd, rn, off, m)
  \/ HandleStrbPreimm(rd, rn, off, m) \/ HandleStrbPostimm(rd, rn, off, m)

Extra(rd, rn, off, m) ==
  \/ HandleLdrh(rd, rn, off, m) \/ HandleLdrsb(rd, rn, off, m) \/ HandleLdrsh(rd, rn, off, m)
  \/ HandleStrh(rd, rn, off, m) \/ ExecLdrd(rd, rn, off, m) \/ ExecStrd(rd, rn, off, m)

ByRegister(rd, rn, rm, type, n) ==
  \/ HandleLdrRegoffset(rd, rn, rm, type, n) \/ HandleLdrbReg(rd, rn, rm, type, n)
  \/ HandleStrRegoffset(rd, rn, rm, type, n) \/ HandleStrbRegShift(rd, rn, rm, type, n)

LsNext ==
  /\ steps < MaxSteps /\ steps' = steps + 1
  /\ \/ \E rd, rn \in All, off \in Offsets, m \in Modes : Indexed(rn, m) /\ WordOrByte(rd, rn, off, m)
     \/ \E rd \in Regs, rn \in All, off \in Offsets \union {Src(st, r) : r \in All}, m \in Modes :
          Indexed(rn, m) /\ Extra(rd, rn, off, m)
     \/ \E rd, rn, rm \in All, type \in ShiftTypes, n \in 0 .. Width - 1 : ByRegister(rd, rn, rm, type, n)
     \/ \E rd \in All, off \in Offsets, u \in BOOLEAN : HandleLdrLiteral(rd, off, u)
     \/ \E rn \in Regs, list \in Lists, m \in Modes : HandleLdm(rn, list, m) \/ HandleStm(rn, list, m)
     \/ \E sp \in Regs : HandlePopPc(sp)
     \/ \E rd, rn, rm \in Regs : HandleSwp(rd, rn, rm) \/ HandleSwpb(rd, rn, rm)

LsSpec == LsInit /\ [][LsNext]_lsVars

-----------------------------------------------------------------------------
\* Registers, next PC and RAM hold words and bytes; a loaded PC is a multiple of four.
LsTypeOK ==
  /\ st \in States /\ (st.npc = Wrapped(Pc + 4) \/ Aligned(st.npc) = st.npc)
  /\ wrote \in [at : Words, n : {0, 1, 2, 4}, val : Words] /\ steps \in 0 .. MaxSteps

\* Whatever instruction stored a byte, a halfword or a word, and whatever was
\* stored elsewhere since, every instruction that loads that size from there
\* brings back its value, extended as the instruction says.
LoadSeesStore ==
  \A rn, rd \in Regs :
    LET m == [p |-> TRUE, u |-> TRUE, w |-> FALSE]
        Got(s) == s.r[rd]
    IN  wrote.n > 0 /\ st.r[rn] = wrote.at =>
          /\ wrote.n = 4 => /\ Got(LdrImm(st, rd, rn, 0, m)) = wrote.val
                            /\ Got(Ldm(st, rn, {rd}, [m EXCEPT !.p = FALSE])) = wrote.val
                            /\ Got(Swp(st, rd, rn, rd)) = wrote.val
          /\ wrote.n = 2 => /\ Got(Ldrh(st, rd, rn, 0, m)) = wrote.val
                            /\ Got(Ldrsh(st, rd, rn, 0, m)) % Bytes(2) = wrote.val
                            /\ BitOf(Got(Ldrsh(st, rd, rn, 0, m)), Width - 1) = BitOf(wrote.val, (Width \div 2) - 1)
          /\ wrote.n = 1 => /\ Got(LdrbImm(st, rd, rn, 0, m)) = wrote.val
                            /\ Got(Swpb(st, rd, rn, rd)) = wrote.val
                            /\ Got(Ldrsb(st, rd, rn, 0, m)) % Bytes(1) = wrote.val
                            /\ BitOf(Got(Ldrsb(st, rd, rn, 0, m)), Width - 1) = BitOf(wrote.val, (Width \div 4) - 1)

\* What loads and stores promise at every moment.
LoadStoreInv == LsTypeOK /\ LoadSeesStore

\* Single transfers of a list's registers, upwards or downwards; the W of a
\* post-indexed transfer is clear.
Turn(u, i) == IF u THEN i - 1 ELSE 16 - i
Singly(m) == [m EXCEPT !.w = m.p]
LdrEach(s, rn, list, m) ==
  LET After[i \in 0 .. 16] ==
        IF i = 0 THEN s
        ELSE IF Turn(m.u, i) \in list THEN LdrImm(After[i - 1], Turn(m.u, i), rn, 4, Singly(m))
        ELSE After[i - 1]
  IN  After
StrEach(s, rn, list, m) ==
  LET After[i \in 0 .. 16] ==
        IF i = 0 THEN s
        ELSE IF Turn(m.u, i) \in list THEN StrImm(After[i - 1], Turn(m.u, i), rn, 4, Singly(m))
        ELSE After[i - 1]
  IN  After

\* A block transfer is the same as single transfers of its registers: upwards
\* in ascending order, downwards in descending order, with the same indexing;
\* in every state that the behaviour goes on from.
MultipleIsSequence ==
  steps < MaxSteps => \A rn \in Regs, p, u \in BOOLEAN : \A list \in (SUBSET (All \ {rn})) \ {{}} :
    LET m == [p |-> p, u |-> u, w |-> TRUE]
    IN  /\ Ldm(st, rn, list, m) = LdrEach(st, rn, list, m)[16]
        /\ Stm(st, rn, list, m) = StrEach(st, rn, list, m)[16]

=============================================================================
