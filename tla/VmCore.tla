------------------------------- MODULE VmCore -------------------------------
(***************************************************************************)
(* The machine a host drives: vm_step / vm_run, cpu_execute and the        *)
(* handlers that touch what decides where execution goes next (r15, LR,    *)
(* the PSRs, the halt latches), against the host's calls in between:       *)
(* reset, clear halt, set register, load a program, attach RAM.            *)
(*                                                                         *)
(* Data is abstracted: an instruction word is its kind, a member of Kinds; *)
(* a value an instruction takes from a register or from memory is any      *)
(* member of Values; a PSR is its mode; the flags are not kept, so a       *)
(* conditional instruction may or may not be taken.  Addresses are bytes   *)
(* modulo Space, the 2^32 of the program.  The cycle counter, which        *)
(* nothing reads, and the registers that reach r15 only through Values     *)
(* are left out.                                                           *)
(***************************************************************************)
EXTENDS Integers, Sequences

CONSTANTS RamWords,   \* size of RAM, in words
          Space,      \* size of the address space, in bytes
          Values,     \* what registers and memory may hold
          HostPc,     \* addresses the host sets r15 to
          Images,     \* programs the host loads: sequences of kinds
          LoadAddr,   \* word addresses it loads them at
          Budgets     \* step budgets given to vm_run; 0 is no limit

ASSUME SpaceAssumption  == /\ Space \in Nat /\ Space > 8 /\ Space % 4 = 0
                           /\ RamWords \in Nat /\ 4 * RamWords <= Space
ASSUME ValuesAssumption == Values \subseteq Nat /\ HostPc \subseteq Nat
ASSUME BudgetAssumption == Budgets \subseteq Nat

Addr  == 0 .. Space - 1
Words == 0 .. RamWords - 1

\* The kinds that stand for an instruction under any condition, and those
\* without one (alupc and alupcs: under AL).
Conditional   == {"dp", "b", "bl", "bx", "blx", "ldpc", "ldlr", "ldm", "movspc",
                  "svc", "msr", "msrspsr", "cps",
                  "ldrbpc", "ldrpcwb", "ldrlrwb", "ldmwb", "ldrdpc"}
Unconditional == {"unknown", "bkpt", "deadbeef", "alupc", "alupcs"}
Kinds == Conditional \cup Unconditional

\* The kinds whose handler writes r15 itself, besides or instead of npc.
WritesR15 == {"ldrbpc", "ldrpcwb", "ldrlrwb", "ldmwb", "ldrdpc"}

ASSUME ImagesAssumption == Images \subseteq Seq(Kinds) /\ LoadAddr \subseteq Nat

\* A PSR is its mode field; zero is what memset leaves.
Psr      == {"zero", "usr", "svc"}
Reasons  == {"none", "bkpt"}
Cpu == [r15 : Addr, npc : Addr, lr : Addr, psr : Psr, spsr : Psr,
        halted : BOOLEAN, reason : Reasons]

VARIABLES cpu,        \* vm->cpu
          vmHalted,   \* vm->halted
          hasRam,     \* vm->ram != NULL
          code,       \* the words of RAM
          run         \* the vm_run in progress: its budget, iterations done

vars == <<cpu, vmHalted, hasRam, code, run>>

ZeroCpu == [r15 |-> 0, npc |-> 0, lr |-> 0, psr |-> "zero", spsr |-> "zero",
            halted |-> FALSE, reason |-> "none"]
Blank == [w \in Words |-> "dp"]      \* a zero word is ANDEQ r0,r0,r0
Idle  == [active |-> FALSE, budget |-> 0, done |-> 0]

\* arm7vm_create
Init ==
  /\ cpu = ZeroCpu
  /\ vmHalted = FALSE
  /\ hasRam = TRUE
  /\ code = Blank
  /\ run = Idle

-----------------------------------------------------------------------------
\* Mutant: a branch that keeps bit 0.
KeepThumbBit(a) == a

Wrap(a)     == a % Space              \* uint32_t arithmetic
Halfword(a) == a - (a % 2)            \* & ~1u
Word(a)     == a - (a % 4)            \* & ~3u

\* vm_read_mem32: within RAM or not at all.
Fetchable(a) == hasRam /\ a + 4 <= 4 * RamWords

\* A word that straddles two others may decode as anything.
Fetched(a) == IF a % 4 = 0 THEN {code[a \div 4]} ELSE Kinds

-----------------------------------------------------------------------------
\* The handlers: what each makes of the CPU, whose npc is already r15 + 4.
HandleB(c, v)   == [c EXCEPT !.npc = Wrap(c.r15 + 8 + Word(v))]
HandleBl(c, v)  == [c EXCEPT !.lr  = Wrap(c.r15 + 4), !.npc = Wrap(c.r15 + 8 + Word(v))]
HandleBx(c, v)  == [c EXCEPT !.npc = Wrap(Halfword(v))]
HandleBlx(c, v) == [c EXCEPT !.lr  = Wrap(c.r15 + 4), !.npc = Wrap(Halfword(v))]
LoadPc(c, v)    == [c EXCEPT !.npc = Wrap(Word(v))]
LoadLr(c, v)    == [c EXCEPT !.lr  = Wrap(v)]
LoadLrPc(c)     == {LoadPc(LoadLr(c, u), v) : u \in Values, v \in Values}

\* A write to r15 that does not go through npc: the result of LDRB, LDRH, LDRSB,
\* LDRSH, SWP, SWPB, MUL, RBIT and USAT with Rd = PC, the half of LDRD and the
\* written-back base of a load or a store that fall on PC.  cs is what else the
\* handler makes of the CPU.
WriteR15(cs) == {[d EXCEPT !.r15 = Wrap(v)] : d \in cs, v \in Values}

\* MOVS/ORRS/... PC (logic.c): the return from an exception.
ExceptionReturn(c, v) == [c EXCEPT !.psr = c.spsr, !.npc = Wrap(Halfword(v))]

\* ADD/SUB/RSB ... PC (alu.c): the result goes to e->pc, which the commit
\* overwrites, or to a stub when S = 1.  Nothing of it survives.
AluWritePc(c, v) == c

HandleSvc(c) ==
  [c EXCEPT !.spsr = c.psr, !.lr = c.npc, !.psr = "svc", !.npc = 8]

HandleMsr(c, p)     == [c EXCEPT !.psr = p]
HandleMsrSpsr(c, p) == IF c.psr = "usr" THEN c ELSE [c EXCEPT !.spsr = p]

\* cpu_request_exit(CPUX_BKPT); CPUX_DEADBEEF is not defined, so 0xDEADBEEF is
\* a breakpoint too, which does not rewind npc.
RequestExit(c)    == [c EXCEPT !.reason = "bkpt", !.halted = TRUE]
HandleBkpt(c)     == RequestExit([c EXCEPT !.npc = c.r15])
HandleDeadbeef(c) == RequestExit(c)

\* What one instruction can do.  "cps" decodes under a condition (1111) that
\* never holds, so its handler is never reached.  The wb kinds load and write
\* back to PC; "ldrlrwb" is LDRD lr, pc as well, and "ldrdpc" is LDRD with Rd = PC,
\* whose second half lands past r[15], on the CPSR (cpu.h:33).
Handle(k, c) ==
  CASE k = "b"        -> {HandleB(c, v)   : v \in Values}
    [] k = "bl"       -> {HandleBl(c, v)  : v \in Values}
    [] k = "bx"       -> {HandleBx(c, v)  : v \in Values \cup {c.lr}}
    [] k = "blx"      -> {HandleBlx(c, v) : v \in Values}
    [] k = "ldpc"     -> {LoadPc(c, v)    : v \in Values}
    [] k = "ldlr"     -> {LoadLr(c, v)    : v \in Values}
    [] k = "ldm"      -> LoadLrPc(c)
    [] k = "ldrbpc"   -> WriteR15({c})
    [] k = "ldrpcwb"  -> WriteR15({LoadPc(c, v) : v \in Values})
    [] k = "ldrlrwb"  -> WriteR15({LoadLr(c, v) : v \in Values})
    [] k = "ldmwb"    -> WriteR15(LoadLrPc(c))
    [] k = "ldrdpc"   -> WriteR15({HandleMsr(c, p) : p \in Psr})
    [] k = "movspc"   -> {ExceptionReturn(c, v) : v \in Values \cup {c.lr}}
    [] k \in {"alupc", "alupcs"} -> {AluWritePc(c, v) : v \in Values}
    [] k = "svc"      -> {HandleSvc(c)}
    [] k = "msr"      -> {HandleMsr(c, p)     : p \in Psr}
    [] k = "msrspsr"  -> {HandleMsrSpsr(c, p) : p \in Psr}
    [] k = "bkpt"     -> {HandleBkpt(c)}
    [] k = "deadbeef" -> {HandleDeadbeef(c)}
    [] OTHER          -> {c}

\* k12_decode_ctx: a condition that fails turns the instruction into a NOP.
Effects(k, c) == Handle(k, c) \cup (IF k \in Conditional THEN {c} ELSE {})

\* A handled instruction commits npc unless the CPU is latched, whoever
\* latched it; an unknown one always commits.
Commit(c) == [c EXCEPT !.r15 = c.npc]
CommitAnyway(c) == Commit(c)            \* mutant: the halt test forgotten
CommitUnlessHalted(c) == IF c.halted \/ c.reason # "none" THEN c ELSE Commit(c)

CpuExecute(k, c) ==
  LET fresh == [c EXCEPT !.npc = Wrap(c.r15 + 4)]
  IN  IF k = "unknown" THEN {Commit(fresh)}
      ELSE {CommitUnlessHalted(d) : d \in Effects(k, fresh)}

-----------------------------------------------------------------------------
\* The body shared by vm_step and vm_run.
\* Mutant: a fault that skips the word it could not fetch.
FaultSkipsWord ==
  /\ ~Fetchable(cpu.r15) /\ vmHalted' = TRUE
  /\ cpu' = [cpu EXCEPT !.r15 = Wrap(cpu.r15 + 4)]

FetchFault == ~Fetchable(cpu.r15) /\ vmHalted' = TRUE /\ UNCHANGED cpu

\* Mutants: the VM stops only for an exit requested by this very instruction;
\* the VM never looks at the CPU's latch.
ExecuteOwnExit(k) ==
  /\ Fetchable(cpu.r15)
  /\ k \in Fetched(cpu.r15)
  /\ cpu' \in CpuExecute(k, cpu)
  /\ vmHalted' = (cpu'.halted /\ ~cpu.halted)

ExecuteDeaf(k) ==
  /\ Fetchable(cpu.r15)
  /\ k \in Fetched(cpu.r15)
  /\ cpu' \in CpuExecute(k, cpu)
  /\ UNCHANGED vmHalted

Execute(k) ==
  /\ Fetchable(cpu.r15)
  /\ k \in Fetched(cpu.r15)
  /\ cpu' \in CpuExecute(k, cpu)
  /\ vmHalted' = cpu'.halted

VmStep ==
  /\ ~run.active /\ ~vmHalted
  /\ FetchFault \/ \E k \in Kinds : Execute(k)
  /\ UNCHANGED <<hasRam, code, run>>

\* vm_run(n): n = 0 is no limit.
VmRun(n) ==
  /\ ~run.active
  /\ run' = [active |-> TRUE, budget |-> n, done |-> 0]
  /\ UNCHANGED <<cpu, vmHalted, hasRam, code>>

\* Mutants: one iteration too many; a counter too narrow for the budget.
MayIterateOnce == ~vmHalted /\ (run.budget = 0 \/ run.done <= run.budget)
CountedNarrow(r) ==
  IF r.budget = 0 THEN r ELSE [r EXCEPT !.done = (r.done + 1) % 2]

MayIterate == ~vmHalted /\ (run.budget = 0 \/ run.done < run.budget)
Counted(r) == IF r.budget = 0 THEN r ELSE [r EXCEPT !.done = r.done + 1]

RunIteration ==
  /\ run.active /\ MayIterate
  /\ \/ FetchFault /\ UNCHANGED run
     \/ (\E k \in Kinds : Execute(k)) /\ run' = Counted(run)
  /\ UNCHANGED <<hasRam, code>>

RunReturns ==
  /\ run.active /\ ~MayIterate
  /\ run' = Idle
  /\ UNCHANGED <<cpu, vmHalted, hasRam, code>>

-----------------------------------------------------------------------------
\* Host calls; the emulator has one thread, so none of them meets a vm_run.
VmReset ==
  /\ ~run.active
  /\ cpu' = ZeroCpu /\ vmHalted' = FALSE
  /\ UNCHANGED <<hasRam, code, run>>

VmClearHalt ==
  /\ ~run.active
  /\ vmHalted' = FALSE
  /\ UNCHANGED <<cpu, hasRam, code, run>>

VmSetPc(a) ==
  /\ ~run.active
  /\ cpu' = [cpu EXCEPT !.r15 = Wrap(a), !.npc = Wrap(Word(a))]
  /\ UNCHANGED <<vmHalted, hasRam, code, run>>

\* vm_load_binary and arm7vm_load_buffer store until the first byte outside
\* RAM; what was stored before it stays.
VmLoad(img, w) ==
  /\ ~run.active /\ hasRam
  /\ code' = [x \in Words |-> IF x >= w /\ x - w < Len(img) THEN img[x - w + 1] ELSE code[x]]
  /\ UNCHANGED <<cpu, vmHalted, hasRam, run>>

\* vm_add_ram frees the old RAM before it asks for the new.
VmAddRam(granted) ==
  /\ ~run.active
  /\ hasRam' = granted
  /\ code' = Blank
  /\ UNCHANGED <<cpu, vmHalted, run>>

GuestStep == VmStep \/ RunIteration

Next ==
  \/ VmStep \/ RunIteration \/ RunReturns
  \/ \E n \in Budgets : VmRun(n)
  \/ VmReset \/ VmClearHalt
  \/ \E a \in HostPc : VmSetPc(a)
  \/ \E img \in Images, w \in LoadAddr : VmLoad(img, w)
  \/ \E granted \in BOOLEAN : VmAddRam(granted)

Spec == Init /\ [][Next]_vars

\* The loop of vm_run is ordinary code of one thread: it keeps going.
FairSpec == Spec /\ WF_vars(RunIteration) /\ WF_vars(RunReturns)

-----------------------------------------------------------------------------
TypeOK ==
  /\ cpu \in Cpu
  /\ vmHalted \in BOOLEAN /\ hasRam \in BOOLEAN
  /\ code \in [Words -> Kinds]
  /\ run \in [active : BOOLEAN, budget : Budgets \cup {0}, done : Nat]

\* Given even addresses by the host, a CPU that is not latched is never at an odd
\* address (there is no Thumb state to enter), whatever branches, loads, exception
\* returns and direct writes to r15 it went through: the commit overwrites those.
\* A latched CPU commits nothing, so a direct write of an odd value stays.
PcIsEven == ~cpu.halted => cpu.r15 % 2 = 0

\* vm_run returns when the machine stopped or when it has executed exactly the
\* instructions it was given, never one more or fewer.
RunsItsBudget ==
  [][RunReturns => vmHalted \/ (run.budget # 0 /\ run.done = run.budget)]_vars

\* A breakpoint stops ON its own address: r15 still names the instruction that
\* stopped the machine, however the machine got there (system.c:196).
StopsOnBreakpoint ==
  [][~cpu.halted /\ cpu'.halted =>
       /\ cpu'.r15 = cpu.r15 /\ vmHalted'
       /\ Fetched(cpu.r15) \cap {"bkpt", "deadbeef"} # {}]_vars

\* A machine that stops without the CPU's latch ran off RAM, and the CPU is
\* exactly as the last instruction left it.
FaultLeavesCpu ==
  [][~vmHalted /\ vmHalted' /\ ~cpu'.halted => UNCHANGED cpu /\ ~Fetchable(cpu.r15)]_vars

\* A latched CPU does not go on: a step of it executes the instruction at r15
\* over and over and stops the machine again.  No branch, load of PC, SVC or
\* exception return takes effect; r15 moves only by a word the decoder does not
\* know, or by one whose handler writes r15 past npc.
LatchedCpuStays ==
  [][GuestStep /\ cpu.halted =>
       /\ vmHalted' /\ cpu'.halted
       /\ cpu'.r15 = cpu.r15 \/ Fetched(cpu.r15) \cap (WritesR15 \cup {"unknown"}) # {}]_vars

\* Every bounded vm_run returns, whatever the guest's program is.
BoundedRunReturns == (run.active /\ run.budget # 0) ~> ~run.active

Mode ==
  IF cpu.halted THEN IF vmHalted THEN "broken" ELSE "latched"
                ELSE IF vmHalted THEN "faulted" ELSE "ready"

Halting == INSTANCE HaltControl WITH mode <- Mode

\* The two latches implement the stopping protocol.
RefinesHaltControl == Halting!Spec

-----------------------------------------------------------------------------
\* What the code says of itself and does not do.

\* arm7-run's clrhalt is "clear CPU halt" (cli.c:126): afterwards the CPU is
\* not halted.
ClearHaltClearsCpu == [][VmClearHalt => ~cpu'.halted]_vars

\* A step of a CPU that is not latched over an instruction of kind k.
Executes(k) == VmStep /\ ~cpu.halted /\ Fetchable(cpu.r15) /\ Fetched(cpu.r15) = {k}

\* alu.c:17-21: an ADD, SUB, ... with Rd = PC is a "plain branch via DP write to
\* PC": execution goes on at a word-aligned value some register held; with S = 1
\* it has "exception return semantics (CPSR := SPSR_<mode>, PC := value)".
DpWritesPc ==
  [][/\ Executes("alupc") => \E v \in Values : cpu'.r15 = Wrap(Word(v))
     /\ Executes("alupcs") => cpu'.psr = cpu.spsr]_vars
=============================================================================
