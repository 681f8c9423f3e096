---------------------------- MODULE ExecutionProofs ----------------------------
(***************************************************************************)
(* What runs: the VM around its CPU, and the calls of the program that the *)
(* CPU executes.  For every size of RAM, every program and every value in  *)
(* registers and memory, the types hold, the two halt latches implement    *)
(* HaltControl, and the action properties of a stop hold.  For words of    *)
(* every size, every choice of registers and calls nested to any depth,    *)
(* registers, r13 and the bytes of RAM implement FrameStack.               *)
(***************************************************************************)
EXTENDS VmCore, CallStack, SequenceTheorems, ArithmeticLemmas

\* Arithmetic modulo the address space stays in it.
LEMMA WrapInAddr == \A x \in Nat : Wrap(x) \in Addr
  <1> TAKE x \in Nat
  <1>1. Space \in Nat /\ Space > 0 BY SpaceAssumption
  <1>2. x % Space \in 0 .. Space - 1 BY <1>1
  <1>3. QED BY <1>2 DEF Wrap, Addr

LEMMA MaskInNat == \A x \in Nat : Halfword(x) \in Nat /\ Word(x) \in Nat
  BY DEF Halfword, Word

\* What a handler may do to a CPU: keep its type, keep r15 unless it is one that
\* writes it (the others leave it to the commit), never drop the latch, and set it
\* only for the two stopping kinds; a reason to stop comes with the latch.
Tame(k, c, d) ==
  /\ d \in Cpu
  /\ d.r15 = c.r15 \/ k \in WritesR15
  /\ c.halted => d.halted
  /\ d.halted => c.halted \/ k \in {"bkpt", "deadbeef"}
  /\ d.reason = c.reason \/ d.halted

\* The updates handlers are made of.
LEMMA SetNpc ==
  ASSUME NEW c \in Cpu, NEW k, NEW a \in Addr PROVE Tame(k, c, [c EXCEPT !.npc = a])
  BY DEF Tame, Cpu

LEMMA SetLr ==
  ASSUME NEW c \in Cpu, NEW k, NEW a \in Addr PROVE Tame(k, c, [c EXCEPT !.lr = a])
  BY DEF Tame, Cpu

LEMMA SetLrNpc ==
  ASSUME NEW c \in Cpu, NEW k, NEW a \in Addr, NEW b \in Addr
  PROVE  Tame(k, c, [c EXCEPT !.lr = a, !.npc = b])
  BY DEF Tame, Cpu

\* A write of r15 on top of what a handler did.
LEMMA SetR15 ==
  ASSUME NEW c \in Cpu, NEW k \in WritesR15, NEW e, Tame(k, c, e), NEW a \in Addr
  PROVE  Tame(k, c, [e EXCEPT !.r15 = a])
  BY DEF Tame, Cpu

\* The handlers that write r15 besides what they load.
LEMMA DirectTame ==
  ASSUME NEW k \in WritesR15, NEW c \in Cpu, NEW cs, NEW d \in WriteR15(cs),
         \A e \in cs : Tame(k, c, e)
  PROVE  Tame(k, c, d)
  <1>1. PICK e \in cs, v \in Values : d = [e EXCEPT !.r15 = Wrap(v)] BY DEF WriteR15
  <1>2. v \in Nat BY ValuesAssumption
  <1>3. QED BY <1>1, <1>2, WrapInAddr, SetR15

\* Loads of PC, of LR and of both.
LEMMA LoadedTame ==
  ASSUME NEW k \in Kinds, NEW c \in Cpu
  PROVE  /\ \A v \in Values : Tame(k, c, LoadPc(c, v)) /\ Tame(k, c, LoadLr(c, v))
         /\ \A e \in LoadLrPc(c) : Tame(k, c, e)
  <1>1. ASSUME NEW v \in Values PROVE Wrap(v) \in Addr /\ Wrap(Word(v)) \in Addr
    BY ValuesAssumption, MaskInNat, WrapInAddr
  <1>2. ASSUME NEW v \in Values PROVE Tame(k, c, LoadPc(c, v)) /\ Tame(k, c, LoadLr(c, v))
    BY <1>1, SetNpc, SetLr DEF LoadPc, LoadLr
  <1>3. ASSUME NEW e \in LoadLrPc(c) PROVE Tame(k, c, e)
    <2>1. PICK u \in Values, v \in Values : e = LoadPc(LoadLr(c, u), v) BY DEF LoadLrPc
    <2>2. e = [c EXCEPT !.lr = Wrap(u), !.npc = Wrap(Word(v))] BY <2>1 DEF LoadPc, LoadLr
    <2>3. QED BY <1>1, <2>2, SetLrNpc
  <1>4. QED BY <1>2, <1>3

LEMMA SetPsr == ASSUME NEW c \in Cpu, NEW k, NEW p \in Psr PROVE Tame(k, c, HandleMsr(c, p))
  BY DEF HandleMsr, Tame, Cpu

\* What a handler that writes r15 makes of the rest of the CPU.
LEMMA DirectIs ==
  ASSUME NEW k \in WritesR15, NEW c, NEW d \in Handle(k, c)
  PROVE  \E cs : /\ d \in WriteR15(cs)
                 /\ \/ cs = {c}
                    \/ cs = {LoadPc(c, v) : v \in Values}
                    \/ cs = {LoadLr(c, v) : v \in Values}
                    \/ cs = LoadLrPc(c)
                    \/ cs = {HandleMsr(c, p) : p \in Psr}
  <1>1. CASE k = "ldrbpc" BY <1>1 DEF Handle
  <1>2. CASE k = "ldrpcwb" BY <1>2 DEF Handle
  <1>3. CASE k = "ldrlrwb" BY <1>3 DEF Handle
  <1>4. CASE k = "ldmwb" BY <1>4 DEF Handle
  <1>5. CASE k = "ldrdpc" BY <1>5 DEF Handle
  <1>6. QED BY <1>1, <1>2, <1>3, <1>4, <1>5 DEF WritesR15

LEMMA EffectsTame ==
  ASSUME NEW k \in Kinds, NEW c \in Cpu, NEW d \in Effects(k, c)
  PROVE  Tame(k, c, d)
  <1> USE SpaceAssumption
  <1>a. /\ c.r15 \in Nat /\ c.lr \in Addr /\ c.lr \in Nat /\ c.npc \in Addr
        /\ c.r15 \in Addr /\ c.psr \in Psr /\ c.spsr \in Psr /\ c.halted \in BOOLEAN
    BY DEF Cpu, Addr
  <1>v. ASSUME NEW v \in Values \cup {c.lr}
        PROVE  /\ v \in Nat /\ Wrap(v) \in Addr
               /\ Wrap(Word(v)) \in Addr /\ Wrap(Halfword(v)) \in Addr
               /\ Wrap(c.r15 + 4) \in Addr /\ Wrap(c.r15 + 8 + Word(v)) \in Addr
    <2>1. v \in Nat BY <1>a, ValuesAssumption
    <2>2. Word(v) \in Nat /\ Halfword(v) \in Nat BY <2>1, MaskInNat
    <2>3. c.r15 + 4 \in Nat /\ c.r15 + 8 + Word(v) \in Nat BY <1>a, <2>2
    <2>4. QED BY <2>1, <2>2, <2>3, WrapInAddr
  <1>0. CASE d = c BY <1>0 DEF Tame
  <1>1. CASE k = "b" /\ d \in Handle(k, c)
    <2>1. PICK v \in Values : d = HandleB(c, v) BY <1>1 DEF Handle
    <2>2. QED BY <1>v, <2>1, SetNpc DEF HandleB
  <1>2. CASE k = "bl" /\ d \in Handle(k, c)
    <2>1. PICK v \in Values : d = HandleBl(c, v) BY <1>2 DEF Handle
    <2>2. QED BY <1>v, <2>1, SetLrNpc DEF HandleBl
  <1>3. CASE k = "bx" /\ d \in Handle(k, c)
    <2>1. PICK v \in Values \cup {c.lr} : d = HandleBx(c, v) BY <1>3 DEF Handle
    <2>2. QED BY <1>v, <2>1, SetNpc DEF HandleBx
  <1>4. CASE k = "blx" /\ d \in Handle(k, c)
    <2>1. PICK v \in Values : d = HandleBlx(c, v) BY <1>4 DEF Handle
    <2>2. QED BY <1>v, <2>1, SetLrNpc DEF HandleBlx
  <1>5. CASE k = "ldpc" /\ d \in Handle(k, c)
    <2>1. PICK v \in Values : d = LoadPc(c, v) BY <1>5 DEF Handle
    <2>2. QED BY <2>1, LoadedTame
  <1>6. CASE k = "ldlr" /\ d \in Handle(k, c)
    <2>1. PICK v \in Values : d = LoadLr(c, v) BY <1>6 DEF Handle
    <2>2. QED BY <2>1, LoadedTame
  <1>7. CASE k = "movspc" /\ d \in Handle(k, c)
    <2>1. PICK v \in Values \cup {c.lr} : d = ExceptionReturn(c, v) BY <1>7 DEF Handle
    <2>2. Wrap(Halfword(v)) \in Addr BY <1>v
    <2>3. QED BY <1>a, <2>1, <2>2 DEF ExceptionReturn, Tame, Cpu
  <1>8. CASE k \in {"alupc", "alupcs"} /\ d \in Handle(k, c)
    BY <1>0, <1>8 DEF Handle, AluWritePc
  <1>9. CASE k = "svc" /\ d \in Handle(k, c)
    <2>1. d = HandleSvc(c) BY <1>9 DEF Handle
    <2>2. 8 \in Addr /\ "svc" \in Psr BY DEF Addr, Psr
    <2>3. QED BY <1>a, <2>1, <2>2 DEF HandleSvc, Tame, Cpu
  <1>10. CASE k = "msr" /\ d \in Handle(k, c)
    <2>1. PICK p \in Psr : d = HandleMsr(c, p) BY <1>10 DEF Handle
    <2>2. QED BY <2>1, SetPsr
  <1>11. CASE k = "msrspsr" /\ d \in Handle(k, c)
    <2>1. PICK p \in Psr : d = HandleMsrSpsr(c, p) BY <1>11 DEF Handle
    <2>2. CASE c.psr = "usr" BY <1>0, <2>1, <2>2 DEF HandleMsrSpsr
    <2>3. CASE c.psr # "usr" BY <2>1, <2>3 DEF HandleMsrSpsr, Tame, Cpu
    <2>4. QED BY <2>2, <2>3
  <1>12. CASE k = "bkpt" /\ d \in Handle(k, c)
    <2>1. d = HandleBkpt(c) BY <1>12 DEF Handle
    <2>2. "bkpt" \in Reasons BY DEF Reasons
    <2>3. QED BY <1>a, <1>12, <2>1, <2>2 DEF HandleBkpt, RequestExit, Tame, Cpu
  <1>13. CASE k = "deadbeef" /\ d \in Handle(k, c)
    <2>1. d = HandleDeadbeef(c) BY <1>13 DEF Handle
    <2>2. "bkpt" \in Reasons BY DEF Reasons
    <2>3. QED BY <1>a, <1>13, <2>1, <2>2 DEF HandleDeadbeef, RequestExit, Tame, Cpu
  <1>14. CASE k \in {"dp", "cps", "unknown"} /\ d \in Handle(k, c)
    BY <1>0, <1>14 DEF Handle
  <1>15. CASE k = "ldm" /\ d \in Handle(k, c)
    <2>1. d \in LoadLrPc(c) BY <1>15 DEF Handle
    <2>2. QED BY <2>1, LoadedTame
  <1>16. CASE k \in WritesR15 /\ d \in Handle(k, c)
    <2>1. PICK cs : /\ d \in WriteR15(cs)
                    /\ \/ cs = {c}
                       \/ cs = {LoadPc(c, v) : v \in Values}
                       \/ cs = {LoadLr(c, v) : v \in Values}
                       \/ cs = LoadLrPc(c)
                       \/ cs = {HandleMsr(c, p) : p \in Psr}
      BY <1>16, DirectIs
    <2>2. Tame(k, c, c) BY DEF Tame
    <2>3. ASSUME NEW e \in cs PROVE Tame(k, c, e)
      BY <2>1, <2>2, LoadedTame, SetPsr
    <2>4. QED BY <1>16, <2>1, <2>3, DirectTame
  <1>17. d = c \/ d \in Handle(k, c) BY DEF Effects
  <1>18. QED
    BY <1>0, <1>1, <1>2, <1>3, <1>4, <1>5, <1>6, <1>7, <1>8, <1>9, <1>10, <1>11,
       <1>12, <1>13, <1>14, <1>15, <1>16, <1>17
    DEF Kinds, Conditional, Unconditional, WritesR15

\* One instruction: a latched CPU stays latched and, unless the word is unknown or
\* writes r15, where it was; only a stopping kind latches, and stops where it is.
LEMMA ExecuteOutcome ==
  ASSUME cpu \in Cpu, NEW k \in Kinds, NEW d \in CpuExecute(k, cpu)
  PROVE  /\ d \in Cpu
         /\ cpu.halted => d.halted /\ (d.r15 = cpu.r15 \/ k \in WritesR15 \cup {"unknown"})
         /\ ~cpu.halted /\ d.halted => d.r15 = cpu.r15 /\ k \in {"bkpt", "deadbeef"}
  <1> DEFINE fresh == [cpu EXCEPT !.npc = Wrap(cpu.r15 + 4)]
  <1>1. Wrap(cpu.r15 + 4) \in Addr
    <2>1. cpu.r15 + 4 \in Nat BY SpaceAssumption DEF Cpu, Addr
    <2>2. QED BY <2>1, WrapInAddr
  <1>2. fresh \in Cpu /\ fresh.r15 = cpu.r15 /\ fresh.halted = cpu.halted
    BY <1>1 DEF Cpu
  <1>3. CASE k = "unknown"
    <2>1. d = Commit(fresh) BY <1>3 DEF CpuExecute
    <2>2. d \in Cpu /\ d.halted = fresh.halted
      <3> HIDE DEF fresh
      <3>1. QED BY <1>2, <2>1 DEF Commit, Cpu
    <2>3. QED BY <1>2, <1>3, <2>2 DEF Cpu
  <1>4. CASE k # "unknown"
    <2>1. PICK e \in Effects(k, fresh) : d = CommitUnlessHalted(e)
      BY <1>4 DEF CpuExecute
    <2>2. /\ e \in Cpu /\ (e.r15 = cpu.r15 \/ k \in WritesR15) /\ (cpu.halted => e.halted)
          /\ e.halted => cpu.halted \/ k \in {"bkpt", "deadbeef"}
      <3> HIDE DEF fresh
      <3>1. Tame(k, fresh, e) BY <1>2, EffectsTame
      <3>2. QED BY <1>2, <3>1 DEF Tame
    <2>3. CASE e.halted \/ e.reason # "none"
      <3>1. d = e BY <2>1, <2>3 DEF CommitUnlessHalted
      <3>2. k \in WritesR15 => k \notin {"bkpt", "deadbeef"} BY DEF WritesR15
      <3>3. QED BY <2>2, <3>1, <3>2
    <2>4. CASE ~(e.halted \/ e.reason # "none")
      <3>1. d = [e EXCEPT !.r15 = e.npc] BY <2>1, <2>4 DEF CommitUnlessHalted, Commit
      <3>2. d \in Cpu /\ ~d.halted BY <2>2, <2>4, <3>1 DEF Cpu
      <3>3. QED BY <2>2, <2>4, <3>2
    <2>5. QED BY <2>3, <2>4
  <1>5. QED BY <1>3, <1>4

-----------------------------------------------------------------------------
\* What a guest step does to the CPU and the VM's latch.
GuestOutcome ==
  \/ FetchFault
  \/ \E k \in Kinds : Execute(k)

LEMMA GuestStepOutcome == GuestStep => GuestOutcome /\ ~vmHalted /\ UNCHANGED <<hasRam, code>>
  BY DEF GuestStep, VmStep, RunIteration, MayIterate, GuestOutcome

LEMMA GuestCpuTyped ==
  ASSUME cpu \in Cpu, vmHalted \in BOOLEAN, GuestOutcome
  PROVE  cpu' \in Cpu /\ vmHalted' \in BOOLEAN
  <1>1. CASE FetchFault BY <1>1 DEF FetchFault
  <1>2. ASSUME NEW k \in Kinds, Execute(k) PROVE cpu' \in Cpu /\ vmHalted' \in BOOLEAN
    <2>1. cpu' \in CpuExecute(k, cpu) /\ vmHalted' = cpu'.halted BY <1>2 DEF Execute
    <2>2. cpu' \in Cpu BY <2>1, ExecuteOutcome
    <2>3. QED BY <2>1, <2>2 DEF Cpu
  <1>3. QED BY <1>1, <1>2 DEF GuestOutcome

LEMMA InitTypeOK == Init => TypeOK
  <1> SUFFICES ASSUME Init PROVE TypeOK OBVIOUS
  <1>1. 0 \in Addr /\ "zero" \in Psr /\ "none" \in Reasons
    BY SpaceAssumption DEF Addr, Psr, Reasons
  <1>2. ZeroCpu \in Cpu BY <1>1 DEF ZeroCpu, Cpu
  <1>3. Blank \in [Words -> Kinds] BY DEF Blank, Kinds, Conditional
  <1>4. Idle \in [active : BOOLEAN, budget : Budgets \cup {0}, done : Nat] BY DEF Idle
  <1>5. QED BY <1>2, <1>3, <1>4 DEF Init, TypeOK

LEMMA NextTypeOK == TypeOK /\ [Next]_vars => TypeOK'
  <1> SUFFICES ASSUME TypeOK, [Next]_vars PROVE TypeOK' OBVIOUS
  <1> DEFINE Runs == [active : BOOLEAN, budget : Budgets \cup {0}, done : Nat]
  <1>t. /\ cpu \in Cpu /\ vmHalted \in BOOLEAN /\ hasRam \in BOOLEAN
        /\ code \in [Words -> Kinds] /\ run \in Runs
    BY DEF TypeOK
  <1>z. ZeroCpu \in Cpu /\ Blank \in [Words -> Kinds] /\ Idle \in Runs
    <2>1. 0 \in Addr /\ "zero" \in Psr /\ "none" \in Reasons
      BY SpaceAssumption DEF Addr, Psr, Reasons
    <2>2. QED BY <2>1 DEF ZeroCpu, Cpu, Blank, Kinds, Conditional, Idle
  <1>1. CASE VmStep
    <2>1. GuestOutcome /\ UNCHANGED <<hasRam, code, run>> BY <1>1 DEF VmStep, GuestOutcome
    <2>2. QED BY <1>t, <2>1, GuestCpuTyped DEF TypeOK
  <1>2. CASE RunIteration
    <2>1. GuestOutcome /\ UNCHANGED <<hasRam, code>> /\ (run' = run \/ run' = Counted(run))
      BY <1>2 DEF RunIteration, GuestOutcome
    <2>2. run' \in Runs BY <1>t, <2>1 DEF Counted
    <2>3. QED BY <1>t, <2>1, <2>2, GuestCpuTyped DEF TypeOK
  <1>3. CASE RunReturns BY <1>t, <1>z, <1>3 DEF RunReturns, TypeOK
  <1>4. ASSUME NEW n \in Budgets, VmRun(n) PROVE TypeOK'
    <2>1. run' \in Runs BY <1>4 DEF VmRun
    <2>2. QED BY <1>t, <1>4, <2>1 DEF VmRun, TypeOK
  <1>5. CASE VmReset BY <1>t, <1>z, <1>5 DEF VmReset, TypeOK
  <1>6. CASE VmClearHalt BY <1>t, <1>6 DEF VmClearHalt, TypeOK
  <1>7. ASSUME NEW a \in HostPc, VmSetPc(a) PROVE TypeOK'
    <2>1. a \in Nat /\ Word(a) \in Nat BY ValuesAssumption, MaskInNat
    <2>2. Wrap(a) \in Addr /\ Wrap(Word(a)) \in Addr BY <2>1, WrapInAddr
    <2>3. cpu' \in Cpu BY <1>t, <1>7, <2>2 DEF VmSetPc, Cpu
    <2>4. QED BY <1>t, <1>7, <2>3 DEF VmSetPc, TypeOK
  <1>8. ASSUME NEW img \in Images, NEW w \in LoadAddr, VmLoad(img, w) PROVE TypeOK'
    <2>1. img \in Seq(Kinds) /\ w \in Nat BY ImagesAssumption
    <2>2. ASSUME NEW x \in Words, x >= w, x - w < Len(img) PROVE img[x - w + 1] \in Kinds
      <3>1. x \in Nat /\ Len(img) \in Nat BY <2>1, SpaceAssumption DEF Words
      <3>2. x - w + 1 \in 1 .. Len(img) BY <2>1, <2>2, <3>1
      <3>3. QED BY <2>1, <3>2
    <2>3. code' \in [Words -> Kinds] BY <1>t, <1>8, <2>2 DEF VmLoad
    <2>4. QED BY <1>t, <1>8, <2>3 DEF VmLoad, TypeOK
  <1>9. ASSUME NEW granted \in BOOLEAN, VmAddRam(granted) PROVE TypeOK'
    BY <1>t, <1>z, <1>9 DEF VmAddRam, TypeOK
  <1>10. CASE UNCHANGED vars BY <1>t, <1>10 DEF vars, TypeOK
  <1>11. QED
    BY <1>1, <1>2, <1>3, <1>4, <1>5, <1>6, <1>7, <1>8, <1>9, <1>10 DEF Next

\* Every field keeps its type, for every program, value and host call.
THEOREM VmTypeCorrect == Spec => []TypeOK
  <1>1. QED BY InitTypeOK, NextTypeOK, PTL DEF Spec

-----------------------------------------------------------------------------
\* The steps of the machine seen as steps of its two latches.
LEMMA StepRefines == TypeOK /\ [Next]_vars => [Halting!Next]_Mode
  <1> SUFFICES ASSUME TypeOK, [Next]_vars PROVE [Halting!Next]_Mode OBVIOUS
  <1> USE DEF Halting!Next, Halting!Step, Halting!ClearHalt, Halting!Reset, Mode
  <1>t. cpu \in Cpu /\ vmHalted \in BOOLEAN /\ cpu.halted \in BOOLEAN BY DEF TypeOK, Cpu
  <1>1. CASE GuestStep
    <2>1. GuestOutcome /\ ~vmHalted BY <1>1, GuestStepOutcome
    <2>2. CASE FetchFault BY <1>t, <2>1, <2>2 DEF FetchFault
    <2>3. ASSUME NEW k \in Kinds, Execute(k) PROVE [Halting!Next]_Mode
      <3>1. cpu' \in CpuExecute(k, cpu) /\ vmHalted' = cpu'.halted BY <2>3 DEF Execute
      <3>2. cpu' \in Cpu /\ (cpu.halted => cpu'.halted) BY <1>t, <3>1, ExecuteOutcome
      <3>3. cpu'.halted \in BOOLEAN BY <3>2 DEF Cpu
      <3>4. QED BY <1>t, <2>1, <3>1, <3>2, <3>3
    <2>4. QED BY <2>1, <2>2, <2>3 DEF GuestOutcome
  <1>2. CASE VmReset BY <1>2 DEF VmReset, ZeroCpu
  <1>3. CASE VmClearHalt BY <1>t, <1>3 DEF VmClearHalt
  <1>4. ASSUME NEW a \in HostPc, VmSetPc(a) PROVE UNCHANGED Mode
    <2>1. cpu'.halted = cpu.halted /\ vmHalted' = vmHalted BY <1>t, <1>4 DEF VmSetPc, Cpu
    <2>2. QED BY <2>1
  <1>5. ASSUME cpu' = cpu, vmHalted' = vmHalted PROVE UNCHANGED Mode BY <1>5
  <1>6. QED
    BY <1>1, <1>2, <1>3, <1>4, <1>5
    DEF Next, vars, GuestStep, RunReturns, VmRun, VmLoad, VmAddRam

\* The VM's and the CPU's halt latches together implement HaltControl.
THEOREM VmRefinesHaltControl == Spec => RefinesHaltControl
  <1>1. Init => Halting!Init BY DEF Init, ZeroCpu, Mode, Halting!Init
  <1>2. QED
    BY InitTypeOK, NextTypeOK, StepRefines, <1>1, PTL
    DEF Spec, RefinesHaltControl, Halting!Spec

-----------------------------------------------------------------------------
\* Which steps can change what the action properties speak of.
LEMMA LatchingIsExecution ==
  ASSUME TypeOK, [Next]_vars, ~cpu.halted, cpu'.halted
  PROVE  \E k \in Kinds : Execute(k)
  <1>t. cpu \in Cpu BY DEF TypeOK
  <1>1. CASE GuestStep
    BY <1>1, GuestStepOutcome DEF GuestOutcome, FetchFault
  <1>2. CASE VmReset BY <1>2 DEF VmReset, ZeroCpu
  <1>3. ASSUME NEW a \in HostPc, VmSetPc(a) PROVE FALSE
    BY <1>t, <1>3 DEF VmSetPc, Cpu
  <1>4. CASE cpu' = cpu BY <1>4
  <1>5. QED
    BY <1>1, <1>2, <1>3, <1>4
    DEF Next, vars, GuestStep, RunReturns, VmRun, VmClearHalt, VmLoad, VmAddRam

\* A breakpoint stops the machine on its own address.
THEOREM VmStopsOnBreakpoint == Spec => StopsOnBreakpoint
  <1> DEFINE Stop == ~cpu.halted /\ cpu'.halted =>
                       /\ cpu'.r15 = cpu.r15 /\ vmHalted'
                       /\ Fetched(cpu.r15) \cap {"bkpt", "deadbeef"} # {}
  <1>1. TypeOK /\ [Next]_vars => [Stop]_vars
    <2> SUFFICES ASSUME TypeOK, [Next]_vars, ~cpu.halted, cpu'.halted
                 PROVE  /\ cpu'.r15 = cpu.r15 /\ vmHalted'
                        /\ Fetched(cpu.r15) \cap {"bkpt", "deadbeef"} # {}
      OBVIOUS
    <2>1. PICK k \in Kinds : Execute(k) BY LatchingIsExecution
    <2>2. /\ k \in Fetched(cpu.r15) /\ cpu' \in CpuExecute(k, cpu)
          /\ vmHalted' = cpu'.halted
      BY <2>1 DEF Execute
    <2>3. cpu \in Cpu BY DEF TypeOK
    <2>4. cpu'.r15 = cpu.r15 /\ k \in {"bkpt", "deadbeef"} BY <2>2, <2>3, ExecuteOutcome
    <2>5. QED BY <2>2, <2>4
  <1>2. QED BY InitTypeOK, NextTypeOK, <1>1, PTL DEF Spec, StopsOnBreakpoint

\* A stop without the CPU's latch is a fetch outside RAM, and changes nothing
\* else.
THEOREM VmFaultLeavesCpu == Spec => FaultLeavesCpu
  <1> DEFINE Fault == ~vmHalted /\ vmHalted' /\ ~cpu'.halted =>
                        UNCHANGED cpu /\ ~Fetchable(cpu.r15)
  <1>1. TypeOK /\ [Next]_vars => [Fault]_vars
    <2> SUFFICES ASSUME TypeOK, [Next]_vars, ~vmHalted, vmHalted', ~cpu'.halted
                 PROVE  UNCHANGED cpu /\ ~Fetchable(cpu.r15)
      OBVIOUS
    <2>1. GuestStep
      BY DEF Next, vars, GuestStep, RunReturns, VmRun, VmReset, VmClearHalt, VmSetPc,
             VmLoad, VmAddRam
    <2>2. FetchFault
      BY <2>1, GuestStepOutcome DEF GuestOutcome, Execute
    <2>3. QED BY <2>2 DEF FetchFault
  <1>2. QED BY InitTypeOK, NextTypeOK, <1>1, PTL DEF Spec, FaultLeavesCpu

\* A step of a latched CPU stops the machine again and commits nothing: r15 stays
\* unless the word is unknown or its handler writes r15 itself.
THEOREM VmLatchedCpuStays == Spec => LatchedCpuStays
  <1> DEFINE Moving == WritesR15 \cup {"unknown"}
             Stay == GuestStep /\ cpu.halted =>
                       /\ vmHalted' /\ cpu'.halted
                       /\ cpu'.r15 = cpu.r15 \/ Fetched(cpu.r15) \cap Moving # {}
  <1>1. TypeOK /\ [Next]_vars => [Stay]_vars
    <2> SUFFICES ASSUME TypeOK, GuestStep, cpu.halted
                 PROVE  /\ vmHalted' /\ cpu'.halted
                        /\ cpu'.r15 = cpu.r15 \/ Fetched(cpu.r15) \cap Moving # {}
      OBVIOUS
    <2>1. GuestOutcome BY GuestStepOutcome
    <2>2. CASE FetchFault BY <2>2 DEF FetchFault
    <2>3. ASSUME NEW k \in Kinds, Execute(k)
          PROVE  /\ vmHalted' /\ cpu'.halted
                 /\ cpu'.r15 = cpu.r15 \/ Fetched(cpu.r15) \cap Moving # {}
      <3>1. /\ k \in Fetched(cpu.r15) /\ cpu' \in CpuExecute(k, cpu)
            /\ vmHalted' = cpu'.halted
        BY <2>3 DEF Execute
      <3>2. cpu \in Cpu BY DEF TypeOK
      <3>3. cpu'.halted /\ (cpu'.r15 = cpu.r15 \/ k \in Moving) BY <3>1, <3>2, ExecuteOutcome
      <3>4. QED BY <3>1, <3>3
    <2>4. QED BY <2>1, <2>2, <2>3 DEF GuestOutcome
  <1>2. QED BY InitTypeOK, NextTypeOK, <1>1, PTL DEF Spec, LatchedCpuStays

-----------------------------------------------------------------------------
\* An iteration is started only below the budget, so the count never passes it.
RunInBudget == run.active /\ run.budget # 0 => run.done <= run.budget

LEMMA NextRunInBudget == TypeOK /\ RunInBudget /\ [Next]_vars => RunInBudget'
  <1> SUFFICES ASSUME TypeOK, RunInBudget, [Next]_vars PROVE RunInBudget' OBVIOUS
  <1> USE DEF RunInBudget
  <1>t. run \in [active : BOOLEAN, budget : Budgets \cup {0}, done : Nat] BY DEF TypeOK
  <1>b. run.budget \in Nat /\ run.done \in Nat
    <2>1. run.budget \in Budgets \/ run.budget = 0 BY <1>t
    <2>2. CASE run.budget = 0 BY <1>t, <2>2
    <2>3. CASE run.budget \in Budgets BY <1>t, <2>3, BudgetAssumption
    <2>4. QED BY <2>1, <2>2, <2>3
  <1>1. CASE RunIteration
    <2>1. run.active /\ (run.budget = 0 \/ run.done < run.budget)
          /\ (run' = run \/ run' = Counted(run))
      BY <1>1 DEF RunIteration, MayIterate
    <2>2. CASE run' = run BY <2>2
    <2>3. CASE run' = Counted(run) BY <1>t, <1>b, <2>1, <2>3 DEF Counted
    <2>4. QED BY <2>1, <2>2, <2>3
  <1>2. CASE RunReturns BY <1>2 DEF RunReturns, Idle
  <1>3. ASSUME NEW n \in Budgets, VmRun(n) PROVE RunInBudget'
    <2>1. n \in Nat BY BudgetAssumption
    <2>2. QED BY <1>3, <2>1 DEF VmRun
  <1>4. CASE run' = run BY <1>4
  <1>5. QED
    BY <1>1, <1>2, <1>3, <1>4
    DEF Next, vars, VmStep, VmReset, VmClearHalt, VmSetPc, VmLoad, VmAddRam

\* vm_run(n) returns on a stop or after exactly n instructions.
THEOREM VmRunsItsBudget == Spec => RunsItsBudget
  <1> DEFINE Done == RunReturns => vmHalted \/ (run.budget # 0 /\ run.done = run.budget)
  <1>1. Init => RunInBudget BY DEF Init, Idle, RunInBudget
  <1>2. TypeOK /\ RunInBudget /\ [Next]_vars => [Done]_vars
    <2> SUFFICES ASSUME TypeOK, RunInBudget, RunReturns
                 PROVE  vmHalted \/ (run.budget # 0 /\ run.done = run.budget)
      OBVIOUS
    <2>1. run \in [active : BOOLEAN, budget : Budgets \cup {0}, done : Nat] BY DEF TypeOK
    <2>2. run.active /\ (vmHalted \/ (run.budget # 0 /\ ~(run.done < run.budget)))
      BY DEF RunReturns, MayIterate
    <2>3. run.budget # 0 => run.budget \in Nat /\ run.done \in Nat
      BY <2>1, BudgetAssumption
    <2>4. QED BY <2>2, <2>3 DEF RunInBudget
  <1>3. QED
    BY InitTypeOK, NextTypeOK, NextRunInBudget, <1>1, <1>2, PTL DEF Spec, RunsItsBudget

-----------------------------------------------------------------------------
\* The PC of a CPU that is not latched stays even: the address space has an even
\* size, so wrapping keeps parity, every way to write npc clears bit 0 or adds an
\* even number, and the commit overwrites what a handler wrote to r15.
LEMMA HalfOfMultiple == \A h, q \in Nat : (2 * h) * q = 2 * (h * q)
  OBVIOUS

LEMMA EvenWrap == ASSUME NEW x \in Nat, x % 2 = 0 PROVE Wrap(x) % 2 = 0
  <1> DEFINE h == Space \div 2
             q == x \div Space
             k == h * q
             r == x % Space
  <1>1. Space \in Nat /\ Space > 0 /\ Space % 4 = 0 BY SpaceAssumption
  <1>2. h \in Nat /\ Space = 2 * h BY <1>1
  <1>3. q \in Nat /\ r \in Nat /\ x = (Space * q) + r BY <1>1, DivMod
  <1>4. Space * q = 2 * k BY <1>2, <1>3, HalfOfMultiple
  <1>5. k \in Nat BY <1>2, <1>3
  <1>6. x = (2 * k) + r BY <1>3, <1>4
  <1> HIDE DEF k, r, q, h
  <1>7. r % 2 = 0 BY <1>3, <1>5, <1>6
  <1>8. QED BY <1>7 DEF r, Wrap

\* What the masks leave, and what branches add to it.
LEMMA MaskEven ==
  ASSUME NEW v \in Nat, NEW pc \in Nat, pc % 2 = 0
  PROVE  /\ Wrap(Halfword(v)) % 2 = 0 /\ Wrap(Word(v)) % 2 = 0
         /\ Wrap(pc + 4) % 2 = 0 /\ Wrap(pc + 8 + Word(v)) % 2 = 0
  <1>1. Halfword(v) \in Nat /\ Halfword(v) % 2 = 0 BY DEF Halfword
  <1>2. Word(v) \in Nat /\ Word(v) % 2 = 0 BY DEF Word
  <1>3. (pc + 4) \in Nat /\ (pc + 4) % 2 = 0 OBVIOUS
  <1>4. (pc + 8 + Word(v)) \in Nat /\ (pc + 8 + Word(v)) % 2 = 0 BY <1>2
  <1>5. QED BY <1>1, <1>2, <1>3, <1>4, EvenWrap

\* Whatever a handler makes of an even pc and npc, npc is even.
LEMMA EffectsEven ==
  ASSUME NEW k \in Kinds, NEW c \in Cpu, NEW d \in Effects(k, c),
         c.r15 % 2 = 0, c.npc % 2 = 0
  PROVE  d.npc % 2 = 0
  <1>a. /\ c = [r15 |-> c.r15, npc |-> c.npc, lr |-> c.lr, psr |-> c.psr, spsr |-> c.spsr,
                halted |-> c.halted, reason |-> c.reason]
        /\ c.r15 \in Nat /\ c.lr \in Nat
    BY SpaceAssumption DEF Cpu, Addr
  <1>v. ASSUME NEW v \in Values \cup {c.lr}
        PROVE  /\ Wrap(Halfword(v)) % 2 = 0 /\ Wrap(Word(v)) % 2 = 0
               /\ Wrap(c.r15 + 8 + Word(v)) % 2 = 0
    <2>1. v \in Nat BY <1>a, ValuesAssumption
    <2>2. QED BY <1>a, <2>1, MaskEven
  <1>0. CASE d.npc = c.npc BY <1>0
  <1>1. CASE k = "b" /\ d \in Handle(k, c)
    <2>1. PICK v \in Values : d = HandleB(c, v) BY <1>1 DEF Handle
    <2>2. d.npc = Wrap(c.r15 + 8 + Word(v)) BY <1>a, <2>1 DEF HandleB
    <2>3. QED BY <1>v, <2>2
  <1>2. CASE k = "bl" /\ d \in Handle(k, c)
    <2>1. PICK v \in Values : d = HandleBl(c, v) BY <1>2 DEF Handle
    <2>2. d.npc = Wrap(c.r15 + 8 + Word(v)) BY <1>a, <2>1 DEF HandleBl
    <2>3. QED BY <1>v, <2>2
  <1>3. CASE k = "bx" /\ d \in Handle(k, c)
    <2>1. PICK v \in Values \cup {c.lr} : d = HandleBx(c, v) BY <1>3 DEF Handle
    <2>2. d.npc = Wrap(Halfword(v)) BY <1>a, <2>1 DEF HandleBx
    <2>3. QED BY <1>v, <2>2
  <1>4. CASE k = "blx" /\ d \in Handle(k, c)
    <2>1. PICK v \in Values : d = HandleBlx(c, v) BY <1>4 DEF Handle
    <2>2. d.npc = Wrap(Halfword(v)) BY <1>a, <2>1 DEF HandleBlx
    <2>3. QED BY <1>v, <2>2
  <1>5. CASE k = "ldpc" /\ d \in Handle(k, c)
    <2>1. PICK v \in Values : d = LoadPc(c, v) BY <1>5 DEF Handle
    <2>2. d.npc = Wrap(Word(v)) BY <1>a, <2>1 DEF LoadPc
    <2>3. QED BY <1>v, <2>2
  <1>6. CASE k = "ldlr" /\ d \in Handle(k, c)
    <2>1. PICK v \in Values : d = LoadLr(c, v) BY <1>6 DEF Handle
    <2>2. QED BY <1>0, <1>a, <2>1 DEF LoadLr
  <1>7. CASE k = "movspc" /\ d \in Handle(k, c)
    <2>1. PICK v \in Values \cup {c.lr} : d = ExceptionReturn(c, v) BY <1>7 DEF Handle
    <2>2. d.npc = Wrap(Halfword(v)) BY <1>a, <2>1 DEF ExceptionReturn
    <2>3. QED BY <1>v, <2>2
  <1>8. CASE k = "svc" /\ d \in Handle(k, c)
    <2>1. d.npc = 8 BY <1>a, <1>8 DEF Handle, HandleSvc
    <2>2. QED BY <2>1
  <1>9. CASE k = "bkpt" /\ d \in Handle(k, c)
    <2>1. d = HandleBkpt(c) BY <1>9 DEF Handle
    <2>2. d.npc = c.r15 BY <1>a, <2>1 DEF HandleBkpt, RequestExit
    <2>3. QED BY <2>2
  <1>10. CASE k = "msr" /\ d \in Handle(k, c)
    <2>1. PICK p \in Psr : d = HandleMsr(c, p) BY <1>10 DEF Handle
    <2>2. QED BY <1>0, <1>a, <2>1 DEF HandleMsr
  <1>11. CASE k = "msrspsr" /\ d \in Handle(k, c)
    <2>1. PICK p \in Psr : d = HandleMsrSpsr(c, p) BY <1>11 DEF Handle
    <2>2. QED BY <1>0, <1>a, <2>1 DEF HandleMsrSpsr
  <1>12. CASE k = "deadbeef" /\ d \in Handle(k, c)
    <2>1. d = HandleDeadbeef(c) BY <1>12 DEF Handle
    <2>2. QED BY <1>0, <1>a, <2>1 DEF HandleDeadbeef, RequestExit
  <1>13. CASE k \in {"alupc", "alupcs", "dp", "cps", "unknown"} /\ d \in Handle(k, c)
    BY <1>0, <1>13 DEF Handle, AluWritePc
  <1>l. ASSUME NEW v \in Values
        PROVE  /\ LoadPc(c, v).npc % 2 = 0 /\ LoadLr(c, v).npc = c.npc
               /\ LoadPc(c, v) \in Cpu /\ LoadLr(c, v) \in Cpu
    <2>1. LoadPc(c, v).npc = Wrap(Word(v)) /\ LoadLr(c, v).npc = c.npc
      BY <1>a DEF LoadPc, LoadLr
    <2>2. QED BY <1>v, <2>1, LoadedTame DEF Tame
  <1>m. ASSUME NEW e \in LoadLrPc(c) PROVE e \in Cpu /\ e.npc % 2 = 0
    <2>1. PICK u \in Values, v \in Values : e = LoadPc(LoadLr(c, u), v) BY DEF LoadLrPc
    <2>2. e.npc = Wrap(Word(v)) BY <1>l, <2>1 DEF LoadPc, Cpu
    <2>3. QED BY <1>v, <2>2, LoadedTame DEF Tame
  <1>14. CASE k = "ldm" /\ d \in Handle(k, c) BY <1>m, <1>14 DEF Handle
  <1>15. CASE k \in WritesR15 /\ d \in Handle(k, c)
    <2>1. PICK cs : /\ d \in WriteR15(cs)
                    /\ \/ cs = {c}
                       \/ cs = {LoadPc(c, v) : v \in Values}
                       \/ cs = {LoadLr(c, v) : v \in Values}
                       \/ cs = LoadLrPc(c)
                       \/ cs = {HandleMsr(c, p) : p \in Psr}
      BY <1>15, DirectIs
    <2>2. ASSUME NEW p \in Psr PROVE HandleMsr(c, p) \in Cpu /\ HandleMsr(c, p).npc = c.npc
      BY DEF HandleMsr, Cpu
    <2>3. ASSUME NEW e \in cs PROVE e \in Cpu /\ e.npc % 2 = 0
      BY <1>l, <1>m, <2>1, <2>2
    <2>4. PICK e \in cs, v \in Values : d = [e EXCEPT !.r15 = Wrap(v)]
      BY <2>1 DEF WriteR15
    <2>5. d.npc = e.npc BY <2>3, <2>4 DEF Cpu
    <2>6. QED BY <2>3, <2>5
  <1>16. d = c \/ d \in Handle(k, c) BY DEF Effects
  <1>17. QED
    BY <1>0, <1>1, <1>2, <1>3, <1>4, <1>5, <1>6, <1>7, <1>8, <1>9, <1>10, <1>11,
       <1>12, <1>13, <1>14, <1>15, <1>16
    DEF Kinds, Conditional, Unconditional, WritesR15

\* What keeps a CPU that is not latched committing: no reason to stop either.
Committing == ~cpu.halted => cpu.r15 % 2 = 0 /\ cpu.reason = "none"

\* One instruction of such a CPU latches it or commits an even npc.
LEMMA ExecuteEven ==
  ASSUME cpu \in Cpu, Committing, ~cpu.halted,
         NEW k \in Kinds, NEW d \in CpuExecute(k, cpu), ~d.halted
  PROVE  d.r15 % 2 = 0 /\ d.reason = "none"
  <1> DEFINE fresh == [cpu EXCEPT !.npc = Wrap(cpu.r15 + 4)]
  <1>1. cpu.r15 \in Nat /\ cpu.r15 % 2 = 0 /\ cpu.reason = "none"
    BY SpaceAssumption DEF Committing, Cpu, Addr
  <1>2. Wrap(cpu.r15 + 4) \in Addr /\ Wrap(cpu.r15 + 4) % 2 = 0
    <2>1. cpu.r15 + 4 \in Nat /\ (cpu.r15 + 4) % 2 = 0 BY <1>1
    <2>2. QED BY <2>1, WrapInAddr, EvenWrap
  <1>3. /\ fresh \in Cpu /\ fresh.r15 % 2 = 0 /\ fresh.npc % 2 = 0
        /\ fresh.reason = "none"
    BY <1>1, <1>2 DEF Cpu
  <1>4. CASE k = "unknown"
    <2>1. d = Commit(fresh) BY <1>4 DEF CpuExecute
    <2>2. QED
      <3> HIDE DEF fresh
      <3>1. QED BY <1>3, <2>1 DEF Commit, Cpu
  <1>5. CASE k # "unknown"
    <2>1. PICK e \in Effects(k, fresh) : d = CommitUnlessHalted(e) BY <1>5 DEF CpuExecute
    <2>2. e \in Cpu /\ e.npc % 2 = 0 /\ (e.reason = "none" \/ e.halted)
      <3> HIDE DEF fresh
      <3>1. Tame(k, fresh, e) BY <1>3, EffectsTame
      <3>2. QED BY <1>3, <3>1, EffectsEven DEF Tame
    <2>3. ~e.halted /\ e.reason = "none"
      <3>1. CASE e.halted BY <2>1, <3>1 DEF CommitUnlessHalted
      <3>2. QED BY <2>2, <3>1
    <2>4. d = [e EXCEPT !.r15 = e.npc] BY <2>1, <2>3 DEF CommitUnlessHalted, Commit
    <2>5. QED BY <2>2, <2>3, <2>4 DEF Cpu
  <1>6. QED BY <1>4, <1>5

\* As long as the host sets even addresses, a CPU that is not latched is at an even
\* address, whatever the program and the registers hold, the instructions that
\* write r15 past npc included.
THEOREM VmPcIsEven == ASSUME \A a \in HostPc : a % 2 = 0 PROVE Spec => []PcIsEven
  <1>1. Init => Committing BY DEF Init, ZeroCpu, Committing
  <1>2. TypeOK /\ Committing /\ [Next]_vars => Committing'
    <2> SUFFICES ASSUME TypeOK, Committing, [Next]_vars PROVE Committing' OBVIOUS
    <2>1. cpu \in Cpu BY DEF TypeOK
    <2>2. CASE GuestStep
      <3>1. GuestOutcome BY <2>2, GuestStepOutcome
      <3>2. CASE FetchFault BY <3>2 DEF FetchFault, Committing
      <3>3. ASSUME NEW k \in Kinds, Execute(k), ~cpu'.halted
            PROVE  cpu'.r15 % 2 = 0 /\ cpu'.reason = "none"
        <4>1. cpu' \in CpuExecute(k, cpu) BY <3>3 DEF Execute
        <4>2. ~cpu.halted BY <2>1, <3>3, <4>1, ExecuteOutcome
        <4>3. QED BY <2>1, <3>3, <4>1, <4>2, ExecuteEven
      <3>4. QED BY <3>1, <3>2, <3>3 DEF GuestOutcome, Committing
    <2>3. ASSUME NEW a \in HostPc, VmSetPc(a) PROVE Committing'
      <3>1. a \in Nat /\ a % 2 = 0 BY ValuesAssumption
      <3>2. Wrap(a) % 2 = 0 BY <3>1, EvenWrap
      <3>3. cpu'.r15 = Wrap(a) /\ cpu'.halted = cpu.halted /\ cpu'.reason = cpu.reason
        BY <2>1, <2>3 DEF VmSetPc, Cpu
      <3>4. QED BY <3>2, <3>3 DEF Committing
    <2>4. CASE VmReset BY <2>4 DEF VmReset, ZeroCpu, Committing
    <2>5. CASE cpu' = cpu BY <2>5 DEF Committing
    <2>6. QED
      BY <2>2, <2>3, <2>4, <2>5
      DEF Next, vars, GuestStep, RunReturns, VmRun, VmClearHalt, VmLoad, VmAddRam
  <1>3. Committing => PcIsEven BY DEF Committing, PcIsEven
  <1>4. QED BY InitTypeOK, NextTypeOK, <1>1, <1>2, <1>3, PTL DEF Spec

(***************************************************************************)
(* Nested calls.  The block transfers that make a call and a return are    *)
(* those of LoadStore with the stack's machine, and what was proved of     *)
(* them holds here.                                                        *)
(***************************************************************************)
P == INSTANCE TransfersProofs WITH
  Width <- StackWidth, ByteBits <- StackByteBits, RamSize <- StackRam, Regs <- Saved \union {13},
  Pc <- 0, Offsets <- {}, Starts <- {}, MaxSteps <- 0, st <- machine, wrote <- 0, steps <- 0,
  form <- 0, type <- 0, amount <- 0, out <- 0, now <- 0, todo <- 0

LEMMA SavedIs ==
  /\ IsFiniteSet(Saved) /\ Cardinality(Saved) \in Nat /\ 13 \notin Saved /\ 15 \notin Saved
  /\ IsFiniteSet(Saved \union {13}) /\ Cardinality(Saved \union {13}) = Cardinality(Saved) + 1
<1>1. Saved \subseteq 0 .. 12
  BY CallStackAssumption
<1>2. IsFiniteSet(0 .. 12)
  BY FS_Interval, 0 \in Int, 12 \in Int
<1>3. IsFiniteSet(Saved) /\ Cardinality(Saved) \in Nat
  BY <1>1, <1>2, FS_Subset, FS_CardinalityType
<1>4. 13 \notin Saved /\ 15 \notin Saved
  BY <1>1
<1> QED BY <1>3, <1>4, FS_AddElement

LEMMA WordsOfStack ==
  LET b == 2^StackWidth
  IN  /\ StackWidth \in Nat \ {0} /\ b \in Nat \ {0} /\ P!Words = 0 .. b - 1 /\ P!WordSize = b /\ P!W = b
      /\ StackRam \in 1 .. b /\ \A S : P!Cardinality(S) = Cardinality(S)
<1>1. StackWidth \in Nat \ {0}
  BY CallStackAssumption
<1>2. 2^StackWidth \in Nat \ {0}
  BY <1>1, PowerTyped
<1>3. P!WordSize = 2^StackWidth /\ P!W = 2^StackWidth /\ P!Words = 0 .. 2^StackWidth - 1
  BY DEF P!WordSize, P!W, P!Words
<1>4. \A S : P!Cardinality(S) = Cardinality(S)
  BY DEF P!Cardinality, Cardinality
<1>5. StackRam \in 1 .. 2^StackWidth
  BY CallStackAssumption
<1> QED BY <1>1, <1>2, <1>3, <1>4, <1>5

\* The assumptions on words, bytes and RAM hold of the stack's machine.
LEMMA StackAssumes == P!WidthAssumption /\ P!LoadStoreAssumption
<1> DEFINE b == 2^StackWidth
           c == Cardinality(Saved)
<1>1. StackWidth \in Nat \ {0} /\ b \in Nat \ {0} /\ P!Words = 0 .. b - 1 /\ P!WordSize = b /\ StackRam \in 1 .. b
  BY WordsOfStack
<1>2. P!Cardinality(Saved \union {13}) = c + 1 /\ c \in Nat
  BY WordsOfStack, SavedIs
<1>3. 4 * (c + 2) <= b /\ StackByteBits \in Nat \ {0} /\ StackWidth = 4 * StackByteBits /\ Saved \subseteq 0 .. 12
  BY CallStackAssumption
<1> HIDE DEF b, c
<1>4. 4 * ((c + 1) + 1) <= b /\ 0 \in P!Words
  BY <1>1, <1>2, <1>3
<1>5. Saved \union {13} \subseteq 0 .. 14
  BY <1>3
<1> QED BY <1>1, <1>2, <1>3, <1>4, <1>5 DEF P!WidthAssumption, P!LoadStoreAssumption

LEMMA StackIsWriteBack ==
  \A t, rn, list, m, s : Stack!BlockWriteBack(t, rn, list, m, s) = P!BlockWriteBack(t, rn, list, m, s)
BY DEF Stack!BlockWriteBack, P!BlockWriteBack, Stack!BlockBase, P!BlockBase,
   Stack!Moved, P!Moved, Stack!SetReg, P!SetReg, Stack!Wrapped, P!Wrapped, Stack!W, P!W,
   Stack!Cardinality, P!Cardinality

LEMMA StackIsStm == \A s, rn, list, m : Stack!Stm(s, rn, list, m) = P!Stm(s, rn, list, m)
<1>1. \A s, rn, list, m : Stack!Storing(s, rn, list, m) = P!Storing(s, rn, list, m)
  BY DEF Stack!Wrapped, P!Wrapped, Stack!W, P!W,
     Stack!Cardinality, P!Cardinality, Stack!Storing, P!Storing, Stack!Raw, P!Raw,
     Stack!Slot, P!Slot, Stack!First, P!First, Stack!Below, P!Below,
     Stack!Put, P!Put, Stack!Digit, P!Digit, Stack!Bytes, P!Bytes, Stack!Right, P!Right
<1> QED BY <1>1, StackIsWriteBack DEF Stack!Stm, P!Stm

LEMMA StackIsLdm == \A s, rn, list, m : Stack!Ldm(s, rn, list, m) = P!Ldm(s, rn, list, m)
<1>1. \A s, rn, list, m : Stack!Loading(s, rn, list, m) = P!Loading(s, rn, list, m)
  BY DEF Stack!SetReg, P!SetReg, Stack!Wrapped, P!Wrapped, Stack!W, P!W,
     Stack!Cardinality, P!Cardinality, Stack!Loading, P!Loading, Stack!LoadReg, P!LoadReg,
     Stack!Aligned, P!Aligned, Stack!Slot, P!Slot, Stack!First, P!First, Stack!Below, P!Below,
     Stack!Get, P!Get, Stack!Bytes, P!Bytes
<1> QED BY <1>1, StackIsWriteBack DEF Stack!Ldm, P!Ldm

LEMMA StackIs ==
  /\ \A s, r, v : Stack!SetReg(s, r, v) = P!SetReg(s, r, v)
  /\ \A b, off, m : Stack!Moved(b, off, m) = P!Moved(b, off, m)
  /\ \A x : Stack!Wrapped(x) = P!Wrapped(x)
  /\ \A s, a, n, v : Stack!Put(s, a, n, v) = P!Put(s, a, n, v)
  /\ Stack!Now = P!Now /\ Stack!Modes = P!Modes
<1>1. \A s, r, v : Stack!SetReg(s, r, v) = P!SetReg(s, r, v)
  BY DEF Stack!SetReg, P!SetReg
<1>2. \A x : Stack!Wrapped(x) = P!Wrapped(x)
  BY DEF Stack!Wrapped, P!Wrapped, Stack!W, P!W
<1>3. \A b, off, m : Stack!Moved(b, off, m) = P!Moved(b, off, m)
  BY DEF Stack!Moved, P!Moved, Stack!Wrapped, P!Wrapped, Stack!W, P!W
<1>4. \A s, a, n, v : Stack!Put(s, a, n, v) = P!Put(s, a, n, v)
  BY DEF Stack!Put, P!Put, Stack!Digit, P!Digit, Stack!Bytes, P!Bytes, Stack!Right, P!Right
<1>5. Stack!Now = P!Now
  BY DEF Stack!Now, P!Now, Stack!Wrapped, P!Wrapped, Stack!W, P!W
<1>6. Stack!Modes = P!Modes
  BY DEF Stack!Modes, P!Modes
<1> QED BY <1>1, <1>2, <1>3, <1>4, <1>5, <1>6

\* What a call leaves: its registers in their slots, all other words as they were.
SavedOnStack(s, list, m, d) ==
  /\ d \in P!States /\ d.r[13] = P!BlockBase(s, 13, list, m)
  /\ \A q \in Saved : d.r[q] = s.r[q]
  /\ \A q \in list : P!Slot(s, 13, list, m, q) + 4 <= StackRam =>
       P!Get(d, P!Slot(s, 13, list, m, q), 4) = s.r[q]
  /\ \A a \in P!Words :
       (\A q \in list : P!Slot(s, 13, list, m, q) + 4 <= a \/ a + 4 <= P!Slot(s, 13, list, m, q)) =>
       P!Get(d, a, 4) = P!Get(s, a, 4)

LEMMA PushOfStack ==
  ASSUME NEW s \in P!States, NEW list \in SUBSET Saved, NEW m \in P!Modes, m.w
  PROVE  SavedOnStack(s, list, m, P!Stm(s, 13, list, m))
<1>1. 13 \in Saved \union {13} /\ list \in SUBSET (Saved \union {13}) /\ list \in SUBSET P!All
  BY DEF P!All
<1>2. P!Pushes(s, 13, list, m, P!Stm(s, 13, list, m))
  BY <1>1, StackAssumes, P!PushIs DEF P!PushIs
<1>3. ASSUME NEW q \in list, P!Slot(s, 13, list, m, q) + 4 <= StackRam
      PROVE  P!Get(P!Stm(s, 13, list, m), P!Slot(s, 13, list, m, q), 4) = s.r[q]
  BY <1>1, <1>3, StackAssumes, P!PushSaves DEF P!PushSaves
<1>4. P!KeepsOthers(s, 13, list, m, P!Stm(s, 13, list, m))
  BY <1>1, StackAssumes, P!PushKeeps DEF P!PushKeeps
<1> QED BY <1>2, <1>3, <1>4, SavedIs DEF P!Pushes, P!KeepsOthers, SavedOnStack

LEMMA PopOfStack ==
  ASSUME NEW s \in P!States, NEW list \in SUBSET Saved, NEW m \in P!Modes, m.w
  PROVE  /\ P!Ldm(s, 13, list, m) \in P!States /\ P!Ldm(s, 13, list, m).ram = s.ram
         /\ P!Ldm(s, 13, list, m).r[13] = P!BlockBase(s, 13, list, m)
         /\ \A q \in list : P!Ldm(s, 13, list, m).r[q] = P!Get(s, P!Slot(s, 13, list, m, q), 4)
         /\ \A q \in Saved \ list : P!Ldm(s, 13, list, m).r[q] = s.r[q]
<1>1. 13 \in Saved \union {13} /\ list \in SUBSET (Saved \union {13}) /\ 13 \notin list
  BY SavedIs
<1>2. P!Pops(s, 13, list, m, P!Ldm(s, 13, list, m))
  BY <1>1, StackAssumes, P!PopIs DEF P!PopIs
<1>3. \A q \in Saved \ list : q \in (Saved \union {13}) \ list /\ q # 13
  BY SavedIs
<1> QED BY <1>2, <1>3 DEF P!Pops, P!Found

LEMMA RowOfStack ==
  ASSUME NEW s \in P!States, NEW list \in SUBSET Saved, NEW m, NEW q \in list, NEW f \in Nat,
         f = P!First(s.r[13], Cardinality(list), m), f + 4 * Cardinality(list) <= 2^StackWidth
  PROVE  /\ P!Slot(s, 13, list, m, q) = f + 4 * P!Below(list, q)
         /\ P!Slot(s, 13, list, m, q) \in f .. f + 4 * Cardinality(list) - 4
<1>1. 13 \in Saved \union {13} /\ list \in SUBSET P!All
  BY DEF P!All
<1>2. f = P!First(s.r[13], P!Cardinality(list), m) /\ f + 4 * P!Cardinality(list) <= P!W
      /\ P!Cardinality(list) = Cardinality(list)
  BY WordsOfStack
<1>3. /\ P!Slot(s, 13, list, m, q) = f + 4 * P!Below(list, q)
      /\ P!Slot(s, 13, list, m, q) \in f .. f + 4 * P!Cardinality(list) - 4
  BY <1>1, <1>2, StackAssumes, P!SlotsInRow DEF P!SlotsInRow
<1> QED BY <1>2, <1>3

LEMMA MirrorOfStack ==
  ASSUME NEW b \in P!Words, NEW n \in Nat, NEW m \in P!Modes, NEW e \in P!Words,
         e = IF m.u THEN b + 4 * n ELSE b - 4 * n
  PROVE  /\ P!Moved(b, 4 * n, m) = e /\ P!Moved(e, 4 * n, P!Mirror(m)) = b
         /\ P!First(e, n, P!Mirror(m)) = P!First(b, n, m)
BY StackAssumes, P!MirrorReturns DEF P!MirrorReturns

LEMMA PutOfStack ==
  ASSUME NEW s \in P!States, NEW a \in P!Words, NEW v \in P!Words
  PROVE  /\ P!Put(s, a, 4, v) \in P!States /\ P!Put(s, a, 4, v).r = s.r
         /\ \A c \in P!Words : a + 4 <= c \/ c + 4 <= a => P!Get(P!Put(s, a, 4, v), c, 4) = P!Get(s, c, 4)
<1>1. P!Put(s, a, 4, v) \in P!States /\ P!Put(s, a, 4, v).r = s.r
  BY StackAssumes, P!PutIs DEF P!PutIs
<1>2. ASSUME NEW c \in P!Words, a + 4 <= c \/ c + 4 <= a
      PROVE  P!Get(P!Put(s, a, 4, v), c, 4) = P!Get(s, c, 4)
  BY <1>2, StackAssumes, P!PutApart DEF P!PutApart
<1> QED BY <1>1, <1>2

LEMMA SetOfStack ==
  ASSUME NEW s \in P!States, NEW q \in Saved \union {13}, NEW v \in P!Words
  PROVE  /\ P!SetReg(s, q, v) \in P!States /\ P!SetReg(s, q, v).ram = s.ram
         /\ P!SetReg(s, q, v).r[q] = v
         /\ \A x \in Saved \union {13} : x # q => P!SetReg(s, q, v).r[x] = s.r[x]
BY StackAssumes, P!SetRegReads DEF P!SetRegReads

\* The instruction that runs finds registers and RAM as they are.
LEMMA NowOfStack ==
  ASSUME machine \in P!States
  PROVE  P!Now \in P!States /\ P!Now.ram = machine.ram /\ P!Now.r = machine.r
<1>1. P!Wrapped(0 + 4) \in P!Words
  BY StackAssumes, P!Wraps, 0 + 4 \in Int DEF P!Wraps
<1> QED BY <1>1 DEF P!Now, P!States

(***************************************************************************)
(* How many words the calls saved.                                         *)
(***************************************************************************)
Taking(ls, k) == {x \in (1 .. k) \X Saved : x[2] \in ls[x[1]]}
HeightOf(ls, k) == Cardinality(Taking(ls, k))

LEMMA TakingIs ==
  ASSUME NEW ls, NEW k \in Nat
  PROVE  IsFiniteSet(Taking(ls, k)) /\ HeightOf(ls, k) \in Nat
<1>1. IsFiniteSet(1 .. k)
  BY FS_Interval, 1 \in Int, k \in Int
<1>2. IsFiniteSet((1 .. k) \X Saved)
  BY <1>1, SavedIs, FS_Product
<1>3. Taking(ls, k) \in SUBSET ((1 .. k) \X Saved)
  BY DEF Taking
<1>4. IsFiniteSet(Taking(ls, k))
  <2> HIDE DEF Taking
  <2> QED BY <1>2, <1>3, FS_Subset
<1> QED BY <1>4, FS_CardinalityType DEF HeightOf

LEMMA HeightNone == ASSUME NEW ls PROVE HeightOf(ls, 0) = 0
<1>1. Taking(ls, 0) = {}
  BY DEF Taking
<1> QED BY <1>1, FS_EmptySet DEF HeightOf

LEMMA HeightGrows ==
  ASSUME NEW ls, NEW j \in Nat, NEW k \in Nat, j <= k
  PROVE  HeightOf(ls, j) <= HeightOf(ls, k)
<1>1. Taking(ls, j) \in SUBSET Taking(ls, k)
  BY DEF Taking
<1>2. IsFiniteSet(Taking(ls, k))
  BY TakingIs
<1> HIDE DEF Taking
<1> QED BY <1>1, <1>2, FS_Subset DEF HeightOf

LEMMA HeightAlike ==
  ASSUME NEW ls, NEW ms, NEW k \in Nat, \A j \in 1 .. k : ls[j] = ms[j]
  PROVE  HeightOf(ls, k) = HeightOf(ms, k)
<1>1. \A x \in (1 .. k) \X Saved : x[1] \in 1 .. k
  OBVIOUS
<1>2. Taking(ls, k) = Taking(ms, k)
  BY <1>1 DEF Taking
<1> QED BY <1>2 DEF HeightOf

\* One more call takes one word for each register of its list.
LEMMA HeightOneMore ==
  ASSUME NEW ls, NEW k \in Nat, ls[k + 1] \in SUBSET Saved
  PROVE  /\ HeightOf(ls, k + 1) = HeightOf(ls, k) + Cardinality(ls[k + 1])
         /\ Cardinality(ls[k + 1]) \in Nat
<1> DEFINE l == ls[k + 1]
           A == Taking(ls, k)
           B == {k + 1} \X l
<1>1. l \in SUBSET Saved /\ IsFiniteSet(l) /\ Cardinality(l) \in Nat
  BY SavedIs, FS_Subset, FS_CardinalityType
<1>2. IsFiniteSet(A) /\ Cardinality(A) \in Nat
  BY TakingIs DEF HeightOf
<1>3. IsFiniteSet(B) /\ Cardinality(B) = Cardinality(l)
  <2>1. IsFiniteSet({k + 1}) /\ Cardinality({k + 1}) = 1
    BY FS_Singleton
  <2> HIDE DEF l
  <2>2. IsFiniteSet(B) /\ Cardinality(B) = 1 * Cardinality(l)
    BY <1>1, <2>1, FS_Product
  <2> QED BY <1>1, <2>2
<1>4. Taking(ls, k + 1) = A \union B
  <2>1. ASSUME NEW x \in Taking(ls, k + 1) PROVE x \in A \union B
    <3>1. x \in (1 .. k + 1) \X Saved /\ x[2] \in ls[x[1]]
      BY DEF Taking
    <3>2. CASE x[1] = k + 1
      BY <3>1, <3>2
    <3>3. CASE x[1] # k + 1
      <4>1. x[1] \in 1 .. k
        BY <3>1, <3>3
      <4> QED BY <3>1, <4>1 DEF Taking
    <3> QED BY <3>2, <3>3
  <2>2. ASSUME NEW x \in A PROVE x \in Taking(ls, k + 1)
    <3>1. x \in (1 .. k) \X Saved /\ x[2] \in ls[x[1]]
      BY DEF Taking
    <3>2. x \in (1 .. k + 1) \X Saved
      BY <3>1
    <3> QED BY <3>1, <3>2 DEF Taking
  <2>3. ASSUME NEW x \in B PROVE x \in Taking(ls, k + 1)
    <3>1. x[1] = k + 1 /\ x[2] \in l /\ x \in (1 .. k + 1) \X Saved
      BY <1>1
    <3> QED BY <3>1 DEF Taking
  <2> QED BY <2>1, <2>2, <2>3
<1>5. A \cap B = {}
  <2>1. \A x \in A : x[1] \in 1 .. k
    BY DEF Taking
  <2>2. \A x \in B : x[1] = k + 1
    OBVIOUS
  <2> QED BY <2>1, <2>2
<1>6. Cardinality(A \union B) = Cardinality(A) + Cardinality(B) - Cardinality(A \cap B)
  <2> HIDE DEF A, B
  <2> QED BY <1>2, <1>3, FS_Union
<1>7. Cardinality(A \cap B) = 0
  BY <1>5, FS_EmptySet
<1> HIDE DEF A, B, l
<1>8. Cardinality(A \union B) = Cardinality(A) + Cardinality(l)
  BY <1>1, <1>2, <1>3, <1>6, <1>7
<1> QED BY <1>1, <1>4, <1>8 DEF HeightOf, l, A

(***************************************************************************)
(* The addresses of a frame: where it begins, and that it lies between the *)
(* calls before it and those after it.                                     *)
(***************************************************************************)
Base(m, h) == IF m.u THEN Bottom + 4 * h ELSE Bottom - 4 * h
Floor(m, h) == IF m.p THEN (IF m.u THEN Bottom + 4 * h + 4 ELSE Bottom - 4 * h)
               ELSE (IF m.u THEN Bottom + 4 * h ELSE Bottom - 4 * h + 4)
Start(m, list, h) == IF m.u THEN Floor(m, h) ELSE Floor(m, h + Cardinality(list))
Place(m, list, h, q) == Start(m, list, h) + 4 * P!Below(list, q)

LEMMA StackInRam ==
  /\ Room \in Nat /\ Bottom \in Nat /\ StackRam \in Nat /\ 2^StackWidth \in Nat /\ StackRam <= 2^StackWidth
  /\ 4 * Room <= Bottom /\ Bottom + 4 * Room + 4 <= StackRam
BY CallStackAssumption, WordsOfStack

LEMMA BaseIs ==
  ASSUME NEW m \in P!Modes, NEW h \in 0 .. Room
  PROVE  /\ Base(m, h) \in P!Words /\ Floor(m, h) \in Nat /\ Floor(m, h) <= StackRam
         /\ Base(m, h) + 4 <= StackRam
<1>1. m.u \in BOOLEAN /\ m.p \in BOOLEAN
  BY DEF P!Modes
<1>2. P!Words = 0 .. 2^StackWidth - 1
  BY WordsOfStack
<1> DEFINE w == 2^StackWidth
<1> HIDE DEF w
<1>3. Base(m, h) \in 0 .. w - 1 /\ Floor(m, h) \in Nat /\ Floor(m, h) <= StackRam /\ Base(m, h) + 4 <= StackRam
  BY <1>1, StackInRam DEF Base, Floor, w
<1> QED BY <1>2, <1>3 DEF w

LEMMA ListSaved ==
  ASSUME NEW list \in SUBSET Saved
  PROVE  IsFiniteSet(list) /\ Cardinality(list) \in Nat
BY SavedIs, FS_Subset, FS_CardinalityType

LEMMA StartIs ==
  ASSUME NEW m \in P!Modes, NEW list \in SUBSET Saved, NEW h \in Nat, h + Cardinality(list) <= Room
  PROVE  LET n == Cardinality(list)
         IN  /\ h \in 0 .. Room /\ h + n \in 0 .. Room
             /\ P!First(Base(m, h), n, m) = Start(m, list, h)
             /\ P!First(Base(m, h + n), n, P!Mirror(m)) = Start(m, list, h)
             /\ P!Moved(Base(m, h), 4 * n, m) = Base(m, h + n)
             /\ P!Moved(Base(m, h + n), 4 * n, P!Mirror(m)) = Base(m, h)
             /\ Start(m, list, h) \in Nat /\ Start(m, list, h) + 4 * n <= StackRam
             /\ m.u => Start(m, list, h) + 4 * n = Floor(m, h + n)
             /\ ~m.u => Start(m, list, h) + 4 * n = Floor(m, h)
<1> DEFINE n == Cardinality(list)
<1>1. n \in Nat /\ h + n <= Room
  BY ListSaved
<1> HIDE DEF n
<1>2. h \in 0 .. Room /\ h + n \in 0 .. Room
  BY <1>1, StackInRam
<1>3. m.u \in BOOLEAN /\ m.p \in BOOLEAN
  BY DEF P!Modes
<1>4. Base(m, h) \in P!Words /\ Base(m, h + n) \in P!Words /\ Floor(m, h) \in Nat /\ Floor(m, h + n) \in Nat
      /\ Floor(m, h) <= StackRam /\ Floor(m, h + n) <= StackRam
  BY <1>2, BaseIs
<1>5. Base(m, h + n) = IF m.u THEN Base(m, h) + 4 * n ELSE Base(m, h) - 4 * n
  BY <1>1, <1>3, StackInRam DEF Base
<1>6. /\ P!Moved(Base(m, h), 4 * n, m) = Base(m, h + n) /\ P!Moved(Base(m, h + n), 4 * n, P!Mirror(m)) = Base(m, h)
      /\ P!First(Base(m, h + n), n, P!Mirror(m)) = P!First(Base(m, h), n, m)
  BY <1>1, <1>4, <1>5, MirrorOfStack
<1>7. P!First(Base(m, h), n, m) = IF m.u THEN Floor(m, h) ELSE Floor(m, h + n)
  BY <1>1, <1>3, StackInRam DEF P!First, Base, Floor
<1>8. Floor(m, h + n) = IF m.u THEN Floor(m, h) + 4 * n ELSE Floor(m, h) - 4 * n
  BY <1>1, <1>3, StackInRam DEF Floor
<1>9. Start(m, list, h) = IF m.u THEN Floor(m, h) ELSE Floor(m, h + n)
  BY DEF Start, n
<1> HIDE DEF Floor, Base
<1>10. /\ Start(m, list, h) \in Nat /\ Start(m, list, h) + 4 * n <= StackRam
       /\ m.u => Start(m, list, h) + 4 * n = Floor(m, h + n)
       /\ ~m.u => Start(m, list, h) + 4 * n = Floor(m, h)
  <2>1. CASE m.u
    BY <1>1, <1>4, <1>8, <1>9, <2>1
  <2>2. CASE ~m.u
    BY <1>1, <1>4, <1>8, <1>9, <2>2
  <2> QED BY <2>1, <2>2
<1>11. P!First(Base(m, h), n, m) = Start(m, list, h)
  BY <1>7, <1>9
<1> QED BY <1>2, <1>6, <1>10, <1>11 DEF n

\* The word of a register: in RAM, and where a push and the pop that undoes it go.
LEMMA PlaceIs ==
  ASSUME NEW m \in P!Modes, NEW list \in SUBSET Saved, NEW h \in Nat, h + Cardinality(list) <= Room,
         NEW q \in list
  PROVE  LET n == Cardinality(list)
             a == Place(m, list, h, q)
         IN  /\ a \in P!Words /\ a \in Nat /\ a + 4 <= StackRam
             /\ a \in Start(m, list, h) .. Start(m, list, h) + 4 * n - 4
             /\ \A s \in P!States : s.r[13] = Base(m, h) => P!Slot(s, 13, list, m, q) = a
             /\ \A s \in P!States : s.r[13] = Base(m, h + n) => P!Slot(s, 13, list, P!Mirror(m), q) = a
<1> DEFINE n == Cardinality(list)
           f == Start(m, list, h)
           a == Place(m, list, h, q)
<1>1. /\ f \in Nat /\ f + 4 * n <= StackRam /\ n \in Nat
      /\ P!First(Base(m, h), n, m) = f /\ P!First(Base(m, h + n), n, P!Mirror(m)) = f
      /\ h \in 0 .. Room /\ h + n \in 0 .. Room
  BY StartIs, ListSaved
<1>2. f + 4 * n <= 2^StackWidth /\ P!Words = 0 .. 2^StackWidth - 1 /\ StackRam \in Nat /\ 2^StackWidth \in Nat
      /\ StackRam <= 2^StackWidth
  BY <1>1, StackInRam, WordsOfStack
<1>3. ASSUME NEW s \in P!States, NEW k, f = P!First(s.r[13], n, k)
      PROVE  P!Slot(s, 13, list, k, q) = a /\ P!Slot(s, 13, list, k, q) \in f .. f + 4 * n - 4
  <2> HIDE DEF f, a
  <2>1. /\ P!Slot(s, 13, list, k, q) = f + 4 * P!Below(list, q)
        /\ P!Slot(s, 13, list, k, q) \in f .. f + 4 * Cardinality(list) - 4
    BY <1>1, <1>2, <1>3, RowOfStack
  <2> QED BY <2>1 DEF a, f, Place
<1>4. \A s \in P!States : s.r[13] = Base(m, h) => P!Slot(s, 13, list, m, q) = a
  <2> HIDE DEF f, a, n
  <2> QED BY <1>1, <1>3
<1>5. \A s \in P!States : s.r[13] = Base(m, h + n) => P!Slot(s, 13, list, P!Mirror(m), q) = a
  <2> HIDE DEF f, a, n
  <2> QED BY <1>1, <1>3
<1>6. a \in f .. f + 4 * n - 4
  <2> DEFINE s == [r |-> [x \in Saved \union {13} |-> Base(m, h)], ram |-> [i \in 0 .. StackRam - 1 |-> 0], npc |-> 0]
  <2>1. Base(m, h) \in P!Words /\ 0 \in P!Words /\ 0 \in P!Byte
    BY <1>1, BaseIs, StackAssumes, P!WordsAre DEF P!WordsAre
  <2>2. s \in P!States /\ s.r[13] = Base(m, h)
    BY <2>1 DEF P!States
  <2> HIDE DEF s, f, a, n
  <2> QED BY <1>1, <1>3, <2>2
<1> HIDE DEF f, a, n
<1>7. a \in Nat /\ a + 4 <= StackRam /\ a \in 0 .. 2^StackWidth - 1
  BY <1>1, <1>2, <1>6
<1> QED BY <1>2, <1>4, <1>5, <1>6, <1>7 DEF a, f, n

LEMMA FloorsOrdered ==
  ASSUME NEW m \in P!Modes, NEW h \in 0 .. Room, NEW j \in 0 .. Room, h <= j
  PROVE  IF m.u THEN Floor(m, h) <= Floor(m, j) ELSE Floor(m, j) <= Floor(m, h)
BY StackInRam DEF P!Modes, Floor

\* Words of different calls are apart.
LEMMA PlacesApart ==
  ASSUME NEW m \in P!Modes, NEW list \in SUBSET Saved, NEW h \in Nat, NEW later \in SUBSET Saved, NEW j \in Nat,
         h + Cardinality(list) <= j, j + Cardinality(later) <= Room, NEW q \in list, NEW x \in later
  PROVE  \/ Place(m, list, h, q) + 4 <= Place(m, later, j, x)
         \/ Place(m, later, j, x) + 4 <= Place(m, list, h, q)
<1> DEFINE n == Cardinality(list)
           k == Cardinality(later)
           f == Start(m, list, h)
           g == Start(m, later, j)
           a == Place(m, list, h, q)
           c == Place(m, later, j, x)
<1>1. n \in Nat /\ k \in Nat /\ h + n <= Room /\ m.u \in BOOLEAN
  <2>1. n \in Nat /\ k \in Nat
    BY ListSaved
  <2> HIDE DEF n, k
  <2>2. h + n <= j /\ j + k <= Room
    BY DEF n, k
  <2> QED BY <2>1, <2>2, StackInRam DEF P!Modes
<1>2. a \in f .. f + 4 * n - 4 /\ f \in Nat /\ f + 4 * n = (IF m.u THEN Floor(m, h + n) ELSE Floor(m, h))
      /\ h \in 0 .. Room /\ h + n \in 0 .. Room
  BY <1>1, PlaceIs, StartIs
<1>3. c \in g .. g + 4 * k - 4 /\ g \in Nat /\ g + 4 * k = (IF m.u THEN Floor(m, j + k) ELSE Floor(m, j))
      /\ j \in 0 .. Room /\ j + k \in 0 .. Room
  BY <1>1, PlaceIs, StartIs
<1>4. f = (IF m.u THEN Floor(m, h) ELSE Floor(m, h + n)) /\ g = (IF m.u THEN Floor(m, j) ELSE Floor(m, j + k))
  BY DEF Start
<1>5. h + n <= j
  OBVIOUS
<1> HIDE DEF n, k, f, g, a, c
<1>6. /\ Floor(m, h) \in Nat /\ Floor(m, j) \in Nat /\ Floor(m, h + n) \in Nat
      /\ IF m.u THEN Floor(m, h + n) <= Floor(m, j) ELSE Floor(m, j) <= Floor(m, h + n)
  BY <1>2, <1>3, <1>5, BaseIs, FloorsOrdered
<1> HIDE DEF Floor
<1>7. CASE m.u
  BY <1>1, <1>2, <1>3, <1>4, <1>6, <1>7 DEF a, c
<1>8. CASE ~m.u
  BY <1>1, <1>2, <1>3, <1>4, <1>6, <1>8 DEF a, c
<1> QED BY <1>7, <1>8

\* The words of a frame are in the area of the stack.
AreaOf(m) == IF m.u THEN Bottom .. Bottom + 4 * Room + 3 ELSE Bottom - 4 * Room .. Bottom + 3

LEMMA PlaceInArea ==
  ASSUME NEW m \in P!Modes, NEW list \in SUBSET Saved, NEW h \in Nat, h + Cardinality(list) <= Room, NEW q \in list,
         NEW a \in P!Words, AreaOf(m) \cap a .. a + 3 = {}
  PROVE  a + 4 <= Place(m, list, h, q) \/ Place(m, list, h, q) + 4 <= a
<1> DEFINE n == Cardinality(list)
           f == Start(m, list, h)
           c == Place(m, list, h, q)
<1>1. n \in Nat /\ m.u \in BOOLEAN /\ m.p \in BOOLEAN
  BY ListSaved DEF P!Modes
<1>2. c \in f .. f + 4 * n - 4 /\ f \in Nat /\ f + 4 * n = (IF m.u THEN Floor(m, h + n) ELSE Floor(m, h))
      /\ h \in 0 .. Room /\ h + n \in 0 .. Room
  BY PlaceIs, StartIs
<1>3. f = (IF m.u THEN Floor(m, h) ELSE Floor(m, h + n))
  BY DEF Start
<1>4. a \in Nat
  BY WordsOfStack
<1> HIDE DEF n, f, c
<1>5. c \in AreaOf(m) /\ c + 3 \in AreaOf(m)
  <2>1. CASE m.u
    BY <1>1, <1>2, <1>3, <2>1, StackInRam DEF Floor, AreaOf
  <2>2. CASE ~m.u
    BY <1>1, <1>2, <1>3, <2>2, StackInRam DEF Floor, AreaOf
  <2> QED BY <2>1, <2>2
<1>6. c \notin a .. a + 3 /\ c + 3 \notin a .. a + 3 /\ c \in Nat
  BY <1>2, <1>5
<1>7. a + 4 <= c \/ c + 4 <= a
  BY <1>4, <1>6
<1> QED BY <1>7 DEF c

(***************************************************************************)
(* The inductive invariant of nested calls, of a state given by its parts: *)
(* r13 is as far from the bottom as the calls took words.                  *)
(***************************************************************************)
Calls == Seq((SUBSET Saved) \ {{}})
InUse(ls) == HeightOf(ls, Len(ls))
Sound(mc, m, ls) ==
  /\ mc \in P!States /\ m \in P!Modes /\ m.w /\ ls \in Calls
  /\ InUse(ls) <= Room /\ mc.r[13] = Base(m, InUse(ls))

\* A frame read from r13 on, as Frame does, and word by word.
Reads(mc, m, ls, k) ==
  LET top  == P!Moved(mc.r[13], 4 * (InUse(ls) - HeightOf(ls, k)), P!Mirror(m))
      read == P!Ldm(P!SetReg(mc, 13, top), 13, ls[k], P!Mirror(m))
  IN  [r \in ls[k] |-> read.r[r]]
FrameWords(mc, m, ls, k) == [r \in ls[k] |-> P!Get(mc, Place(m, ls[k], HeightOf(ls, k - 1), r), 4)]

LEMMA CallIs ==
  ASSUME NEW ls \in Calls, InUse(ls) <= Room, NEW k \in 1 .. Len(ls)
  PROVE  /\ ls[k] \in SUBSET Saved /\ ls[k] # {} /\ Cardinality(ls[k]) \in Nat
         /\ HeightOf(ls, k - 1) \in Nat /\ HeightOf(ls, k) \in Nat
         /\ HeightOf(ls, k) = HeightOf(ls, k - 1) + Cardinality(ls[k])
         /\ HeightOf(ls, k) <= InUse(ls) /\ HeightOf(ls, k - 1) + Cardinality(ls[k]) <= Room
         /\ InUse(ls) \in Nat
<1>1. Len(ls) \in Nat /\ k \in Nat /\ k - 1 \in Nat /\ k <= Len(ls) /\ (k - 1) + 1 = k
  BY DEF Calls
<1>2. ls[k] \in SUBSET Saved /\ ls[k] # {}
  BY DEF Calls
<1>3. HeightOf(ls, (k - 1) + 1) = HeightOf(ls, k - 1) + Cardinality(ls[(k - 1) + 1]) /\ Cardinality(ls[(k - 1) + 1]) \in Nat
  <2> DEFINE j == k - 1
  <2>1. j \in Nat /\ ls[j + 1] \in SUBSET Saved
    BY <1>1, <1>2
  <2> HIDE DEF j
  <2>2. HeightOf(ls, j + 1) = HeightOf(ls, j) + Cardinality(ls[j + 1]) /\ Cardinality(ls[j + 1]) \in Nat
    BY <2>1, HeightOneMore
  <2> QED BY <2>2 DEF j
<1>4. HeightOf(ls, k - 1) \in Nat /\ HeightOf(ls, k) \in Nat /\ InUse(ls) \in Nat
  BY <1>1, TakingIs DEF InUse
<1>5. HeightOf(ls, k) <= InUse(ls)
  BY <1>1, HeightGrows DEF InUse
<1> DEFINE h == HeightOf(ls, k - 1)
           n == Cardinality(ls[k])
           t == HeightOf(ls, k)
           u == InUse(ls)
<1>6. t = h + n /\ n \in Nat /\ h \in Nat /\ t <= u /\ u <= Room /\ u \in Nat
  BY <1>1, <1>3, <1>4, <1>5
<1> HIDE DEF h, n, t, u
<1>7. h + n <= Room
  BY <1>6, StackInRam
<1> QED BY <1>2, <1>4, <1>6, <1>7 DEF h, n, t, u

LEMMA MirrorTyped == \A m \in P!Modes : P!Mirror(m) \in P!Modes /\ P!Mirror(m).w
BY DEF P!Modes, P!Mirror

\* r13 above a frame, from r13 above all of them.
LEMMA DownTo ==
  ASSUME NEW m \in P!Modes, NEW u \in 0 .. Room, NEW t \in 0 .. Room, t <= u
  PROVE  P!Moved(Base(m, u), 4 * (u - t), P!Mirror(m)) = Base(m, t)
<1>1. PICK d \in Nat : d = u - t
  OBVIOUS
<1>2. Base(m, t) \in P!Words /\ Base(m, u) \in P!Words
  BY BaseIs
<1>3. Base(m, u) = IF m.u THEN Base(m, t) + 4 * d ELSE Base(m, t) - 4 * d
  BY <1>1, StackInRam DEF Base
<1>4. P!Moved(Base(m, u), 4 * d, P!Mirror(m)) = Base(m, t)
  BY <1>2, <1>3, MirrorOfStack
<1> QED BY <1>1, <1>4

\* What is read from r13 on are the words of the frame.
LEMMA ReadsAre ==
  ASSUME NEW mc, NEW m, NEW ls, Sound(mc, m, ls), NEW k \in 1 .. Len(ls)
  PROVE  Reads(mc, m, ls, k) = FrameWords(mc, m, ls, k)
<1> DEFINE l == ls[k]
           h == HeightOf(ls, k - 1)
           n == Cardinality(l)
           t == HeightOf(ls, k)
           u == InUse(ls)
           x == P!Mirror(m)
           top == P!Moved(mc.r[13], 4 * (u - t), x)
           s == P!SetReg(mc, 13, top)
<1>1. mc \in P!States /\ m \in P!Modes /\ ls \in Calls /\ u <= Room /\ mc.r[13] = Base(m, u)
  BY DEF Sound
<1>2. /\ l \in SUBSET Saved /\ n \in Nat /\ h \in Nat /\ t \in Nat /\ t = h + n /\ t <= u /\ h + n <= Room /\ u \in Nat
  <2> HIDE DEF l, h, n, t, u
  <2> QED BY <1>1, CallIs DEF l, h, n, t, u
<1>3. top = Base(m, t) /\ Base(m, t) \in P!Words
  <2>1. t \in 0 .. Room /\ u \in 0 .. Room /\ t <= u
    <3> HIDE DEF h, n, t, u
    <3> QED BY <1>1, <1>2, StackInRam
  <2> HIDE DEF t, u
  <2>2. P!Moved(Base(m, u), 4 * (u - t), P!Mirror(m)) = Base(m, t)
    BY <1>1, <2>1, DownTo
  <2> QED BY <1>1, <2>1, <2>2, BaseIs
<1>4. s \in P!States /\ s.ram = mc.ram /\ s.r[13] = Base(m, t)
  <2> HIDE DEF top, t
  <2>1. 13 \in Saved \union {13}
    OBVIOUS
  <2> QED BY <1>1, <1>3, <2>1, SetOfStack
<1>5. x \in P!Modes /\ x.w
  BY <1>1, MirrorTyped
<1>6. \A r \in l : P!Ldm(s, 13, l, x).r[r] = P!Get(s, P!Slot(s, 13, l, x, r), 4)
  <2> HIDE DEF s, x, l
  <2> QED BY <1>2, <1>4, <1>5, PopOfStack
<1>7. \A r \in l : P!Slot(s, 13, l, x, r) = Place(m, l, h, r)
  <2>1. s.r[13] = Base(m, h + n)
    BY <1>2, <1>4
  <2>2. TAKE r \in l
  <2> HIDE DEF s, l, h
  <2>3. \A z \in P!States : z.r[13] = Base(m, h + Cardinality(l)) => P!Slot(z, 13, l, P!Mirror(m), r) = Place(m, l, h, r)
    BY <1>1, <1>2, PlaceIs
  <2> QED BY <1>4, <2>1, <2>3
<1>8. \A a : P!Get(s, a, 4) = P!Get(mc, a, 4)
  <2> HIDE DEF s
  <2> QED BY <1>4 DEF P!Get
<1>9. Reads(mc, m, ls, k) = [r \in l |-> P!Ldm(s, 13, l, x).r[r]]
  BY DEF Reads
<1>10. FrameWords(mc, m, ls, k) = [r \in l |-> P!Get(mc, Place(m, l, h, r), 4)]
  BY DEF FrameWords
<1> HIDE DEF l, h, s, x
<1> QED BY <1>6, <1>7, <1>8, <1>9, <1>10

(***************************************************************************)
(* What the steps do to the words of the frames.                           *)
(***************************************************************************)
LEMMA WordsAlike ==
  ASSUME NEW mc, NEW d, NEW m, NEW ls, NEW ms, NEW k, k - 1 \in Nat, ls[k] = ms[k],
         \A j \in 1 .. k - 1 : ls[j] = ms[j],
         \A q \in ls[k] : P!Get(d, Place(m, ls[k], HeightOf(ls, k - 1), q), 4) = P!Get(mc, Place(m, ls[k], HeightOf(ls, k - 1), q), 4)
  PROVE  FrameWords(d, m, ms, k) = FrameWords(mc, m, ls, k)
<1>1. HeightOf(ms, k - 1) = HeightOf(ls, k - 1)
  <2> DEFINE i == k - 1
  <2>1. i \in Nat /\ \A j \in 1 .. i : ls[j] = ms[j]
    OBVIOUS
  <2> HIDE DEF i
  <2>2. HeightOf(ls, i) = HeightOf(ms, i)
    BY <2>1, HeightAlike
  <2> QED BY <2>2 DEF i
<1>2. FrameWords(d, m, ms, k) = [q \in ms[k] |-> P!Get(d, Place(m, ms[k], HeightOf(ms, k - 1), q), 4)]
  BY DEF FrameWords
<1>3. FrameWords(mc, m, ls, k) = [q \in ls[k] |-> P!Get(mc, Place(m, ls[k], HeightOf(ls, k - 1), q), 4)]
  BY DEF FrameWords
<1> QED BY <1>1, <1>2, <1>3

LEMMA Appended ==
  ASSUME NEW ls \in Calls, NEW list \in (SUBSET Saved) \ {{}}
  PROVE  LET ms == Append(ls, list)
         IN  /\ ms \in Calls /\ Len(ms) = Len(ls) + 1 /\ ms[Len(ls) + 1] = list
             /\ \A k \in 1 .. Len(ls) : ms[k] = ls[k]
             /\ InUse(ms) = InUse(ls) + Cardinality(list)
<1> DEFINE ms == Append(ls, list)
<1>1. ms \in Calls /\ Len(ms) = Len(ls) + 1 /\ ms[Len(ls) + 1] = list /\ Len(ls) \in Nat
      /\ \A k \in 1 .. Len(ls) : ms[k] = ls[k]
  BY DEF Calls
<1> HIDE DEF ms
<1>2. HeightOf(ms, Len(ls)) = HeightOf(ls, Len(ls))
  <2>1. \A k \in 1 .. Len(ls) : ls[k] = ms[k]
    BY <1>1
  <2> QED BY <1>1, <2>1, HeightAlike
<1>3. HeightOf(ms, Len(ls) + 1) = HeightOf(ms, Len(ls)) + Cardinality(ms[Len(ls) + 1])
  <2>1. ms[Len(ls) + 1] \in SUBSET Saved
    BY <1>1
  <2> QED BY <1>1, <2>1, HeightOneMore
<1> QED BY <1>1, <1>2, <1>3 DEF InUse, ms

LEMMA Fronted ==
  ASSUME NEW ls \in Calls, ls # <<>>
  PROVE  LET ms == Front(ls)
             list == Last(ls)
         IN  /\ ms \in Calls /\ Len(ls) \in Nat \ {0} /\ Len(ms) = Len(ls) - 1 /\ list = ls[Len(ls)]
             /\ list \in (SUBSET Saved) \ {{}}
             /\ \A k \in 1 .. Len(ls) - 1 : ms[k] = ls[k]
             /\ InUse(ls) = InUse(ms) + Cardinality(list) /\ InUse(ms) = HeightOf(ls, Len(ls) - 1)
<1> DEFINE ms == Front(ls)
           list == Last(ls)
<1>1. Len(ls) \in Nat \ {0} /\ list = ls[Len(ls)] /\ list \in (SUBSET Saved) \ {{}}
  BY DEF Calls, Last
<1>2. ms \in Calls /\ Len(ms) = Len(ls) - 1 /\ \A k \in 1 .. Len(ls) - 1 : ms[k] = ls[k]
  <2>1. ms = SubSeq(ls, 1, Len(ls) - 1)
    BY DEF Front
  <2> DEFINE S == (SUBSET Saved) \ {{}}
             n == Len(ls) - 1
  <2>2. ls \in Seq(S) /\ n \in 0 .. Len(ls)
    BY <1>1 DEF Calls
  <2> HIDE DEF S, n, ms
  <2>3. SubSeq(ls, 1, n) \in Seq(S) /\ Len(SubSeq(ls, 1, n)) = n
        /\ \A k \in 1 .. n : SubSeq(ls, 1, n)[k] = ls[k]
    BY <2>2
  <2> QED BY <2>1, <2>3 DEF Calls, S, n
<1> HIDE DEF ms, list
<1>3. PICK n \in Nat : Len(ls) = n + 1
  <2>1. Len(ls) - 1 \in Nat /\ Len(ls) = (Len(ls) - 1) + 1
    BY <1>1
  <2> QED BY <2>1
<1>4. HeightOf(ms, n) = HeightOf(ls, n)
  <2>1. \A k \in 1 .. n : ms[k] = ls[k]
    BY <1>2, <1>3
  <2> QED BY <2>1, HeightAlike
<1>5. HeightOf(ls, n + 1) = HeightOf(ls, n) + Cardinality(ls[n + 1])
  <2>1. ls[n + 1] \in SUBSET Saved
    BY <1>1, <1>3
  <2> QED BY <2>1, HeightOneMore
<1>6. Len(ms) = n /\ Len(ls) - 1 = n
  BY <1>2, <1>3
<1> QED BY <1>1, <1>2, <1>3, <1>4, <1>5, <1>6 DEF InUse, ms, list

\* A call keeps the words of the frames and adds the registers it saves.
LEMMA CallKeeps ==
  ASSUME NEW mc, NEW m, NEW ls, Sound(mc, m, ls), NEW list \in (SUBSET Saved) \ {{}},
         InUse(ls) + Cardinality(list) <= Room
  PROVE  LET d == P!Stm(mc, 13, list, m)
             ms == Append(ls, list)
         IN  /\ Sound(d, m, ms) /\ \A q \in Saved : d.r[q] = mc.r[q]
             /\ \A k \in 1 .. Len(ls) : FrameWords(d, m, ms, k) = FrameWords(mc, m, ls, k)
             /\ FrameWords(d, m, ms, Len(ls) + 1) = [q \in list |-> mc.r[q]]
<1> DEFINE d == P!Stm(mc, 13, list, m)
           ms == Append(ls, list)
           u == InUse(ls)
           n == Cardinality(list)
<1>1. mc \in P!States /\ m \in P!Modes /\ m.w /\ ls \in Calls /\ u <= Room /\ mc.r[13] = Base(m, u) /\ list \in SUBSET Saved
  BY DEF Sound
<1>2. u \in Nat /\ n \in Nat /\ u + n <= Room /\ u \in 0 .. Room /\ Len(ls) \in Nat
  <2>1. u \in Nat /\ n \in Nat /\ Len(ls) \in Nat
    BY <1>1, TakingIs, ListSaved DEF InUse, Calls
  <2>2. u + n <= Room
    OBVIOUS
  <2> HIDE DEF u, n
  <2> QED BY <2>1, <2>2, StackInRam
<1>3. ms \in Calls /\ Len(ms) = Len(ls) + 1 /\ ms[Len(ls) + 1] = list /\ (\A k \in 1 .. Len(ls) : ms[k] = ls[k])
      /\ InUse(ms) = u + n
  BY <1>1, Appended
<1>4. /\ d \in P!States /\ d.r[13] = P!BlockBase(mc, 13, list, m) /\ \A q \in Saved : d.r[q] = mc.r[q]
      /\ \A q \in list : P!Slot(mc, 13, list, m, q) + 4 <= StackRam =>
           P!Get(d, P!Slot(mc, 13, list, m, q), 4) = mc.r[q]
      /\ \A a \in P!Words :
           (\A q \in list : P!Slot(mc, 13, list, m, q) + 4 <= a \/ a + 4 <= P!Slot(mc, 13, list, m, q)) =>
           P!Get(d, a, 4) = P!Get(mc, a, 4)
  <2>1. SavedOnStack(mc, list, m, d)
    BY <1>1, PushOfStack
  <2> HIDE DEF d
  <2> QED BY <2>1 DEF SavedOnStack
<1>5. \A q \in list : P!Slot(mc, 13, list, m, q) = Place(m, list, u, q) /\ Place(m, list, u, q) + 4 <= StackRam
  <2> TAKE q \in list
  <2> HIDE DEF u
  <2> QED BY <1>1, <1>2, PlaceIs DEF n
<1>6. Sound(d, m, ms)
  <2>1. P!BlockBase(mc, 13, list, m) = P!Moved(Base(m, u), 4 * n, m)
    BY <1>1, WordsOfStack DEF P!BlockBase
  <2>2. P!Moved(Base(m, u), 4 * n, m) = Base(m, u + n)
    <3> HIDE DEF u
    <3> QED BY <1>1, <1>2, StartIs DEF n
  <2> HIDE DEF d, ms, u, n
  <2> QED BY <1>1, <1>2, <1>3, <1>4, <2>1, <2>2 DEF Sound
<1>7. ASSUME NEW k \in 1 .. Len(ls) PROVE FrameWords(d, m, ms, k) = FrameWords(mc, m, ls, k)
  <2> DEFINE l == ls[k]
             h == HeightOf(ls, k - 1)
  <2>1. l \in SUBSET Saved /\ h \in Nat /\ h + Cardinality(l) <= Room /\ h + Cardinality(l) <= u
    BY <1>1, CallIs
  <2>2. ASSUME NEW q \in l PROVE P!Get(d, Place(m, l, h, q), 4) = P!Get(mc, Place(m, l, h, q), 4)
    <3> HIDE DEF d, ms, u, l, h
    <3>1. Place(m, l, h, q) \in P!Words
      BY <1>1, <2>1, PlaceIs
    <3>2. ASSUME NEW x \in list
          PROVE  Place(m, list, u, x) + 4 <= Place(m, l, h, q) \/ Place(m, l, h, q) + 4 <= Place(m, list, u, x)
      BY <1>1, <1>2, <2>1, PlacesApart DEF n
    <3> QED BY <1>4, <1>5, <3>1, <3>2
  <2>3. k - 1 \in Nat /\ ls[k] = ms[k] /\ \A j \in 1 .. k - 1 : ls[j] = ms[j]
    BY <1>2, <1>3
  <2> HIDE DEF d, ms
  <2> QED BY <2>2, <2>3, WordsAlike
<1>8. FrameWords(d, m, ms, Len(ls) + 1) = [q \in list |-> mc.r[q]]
  <2>1. HeightOf(ms, Len(ls)) = u
    <3>1. \A j \in 1 .. Len(ls) : ms[j] = ls[j]
      BY <1>3
    <3> HIDE DEF ms
    <3> QED BY <1>2, <3>1, HeightAlike DEF InUse, u
  <2>2. (Len(ls) + 1) - 1 = Len(ls)
    BY <1>2
  <2>3. FrameWords(d, m, ms, Len(ls) + 1) = [q \in list |-> P!Get(d, Place(m, list, u, q), 4)]
    <3> HIDE DEF d, ms, u
    <3> QED BY <1>3, <2>1, <2>2 DEF FrameWords
  <2>4. \A q \in list : P!Get(d, Place(m, list, u, q), 4) = mc.r[q]
    <3> HIDE DEF d, u
    <3> QED BY <1>4, <1>5
  <2> HIDE DEF d, ms, u
  <2> QED BY <2>3, <2>4
<1> QED BY <1>4, <1>6, <1>7, <1>8

\* A return brings the last frame back and keeps the others.
LEMMA ReturnKeeps ==
  ASSUME NEW mc, NEW m, NEW ls, Sound(mc, m, ls), ls # <<>>
  PROVE  LET d == P!Ldm(mc, 13, Last(ls), P!Mirror(m))
             ms == Front(ls)
         IN  /\ Sound(d, m, ms)
             /\ \A q \in Saved : d.r[q] = IF q \in Last(ls) THEN FrameWords(mc, m, ls, Len(ls))[q] ELSE mc.r[q]
             /\ \A k \in 1 .. Len(ms) : FrameWords(d, m, ms, k) = FrameWords(mc, m, ls, k)
<1> DEFINE list == Last(ls)
           d == P!Ldm(mc, 13, list, P!Mirror(m))
           ms == Front(ls)
           v == InUse(ms)
           n == Cardinality(list)
<1>1. mc \in P!States /\ m \in P!Modes /\ m.w /\ ls \in Calls /\ InUse(ls) <= Room /\ mc.r[13] = Base(m, InUse(ls))
  BY DEF Sound
<1>2. /\ ms \in Calls /\ Len(ls) \in Nat \ {0} /\ Len(ms) = Len(ls) - 1 /\ list = ls[Len(ls)]
      /\ list \in SUBSET Saved
      /\ \A k \in 1 .. Len(ls) - 1 : ms[k] = ls[k]
      /\ InUse(ls) = v + n /\ v = HeightOf(ls, Len(ls) - 1)
  BY <1>1, Fronted
<1>3. v \in Nat /\ n \in Nat /\ v + n <= Room /\ v <= Room
  <2>1. v \in Nat /\ n \in Nat
    BY <1>2, TakingIs, ListSaved DEF InUse, Calls
  <2>2. v + n <= Room
    BY <1>1, <1>2
  <2> HIDE DEF v, n
  <2> QED BY <2>1, <2>2, StackInRam
<1>4. /\ d \in P!States /\ d.ram = mc.ram /\ d.r[13] = P!BlockBase(mc, 13, list, P!Mirror(m))
      /\ \A q \in list : d.r[q] = P!Get(mc, P!Slot(mc, 13, list, P!Mirror(m), q), 4)
      /\ \A q \in Saved \ list : d.r[q] = mc.r[q]
  <2>1. P!Mirror(m) \in P!Modes /\ P!Mirror(m).w
    BY <1>1, MirrorTyped
  <2>2. PICK x : x = P!Mirror(m)
    OBVIOUS
  <2>3. mc \in P!States /\ list \in SUBSET Saved /\ x \in P!Modes /\ x.w
    BY <1>1, <1>2, <2>1, <2>2
  <2> HIDE DEF list
  <2>4. /\ P!Ldm(mc, 13, list, x) \in P!States /\ P!Ldm(mc, 13, list, x).ram = mc.ram
        /\ P!Ldm(mc, 13, list, x).r[13] = P!BlockBase(mc, 13, list, x)
        /\ \A q \in list : P!Ldm(mc, 13, list, x).r[q] = P!Get(mc, P!Slot(mc, 13, list, x, q), 4)
        /\ \A q \in Saved \ list : P!Ldm(mc, 13, list, x).r[q] = mc.r[q]
    BY <2>3, PopOfStack
  <2> QED BY <2>2, <2>4
<1>5. ASSUME NEW q \in list PROVE d.r[q] = FrameWords(mc, m, ls, Len(ls))[q]
  <2>1. P!Slot(mc, 13, list, P!Mirror(m), q) = Place(m, list, v, q)
    <3>1. mc.r[13] = Base(m, v + n)
      BY <1>1, <1>2
    <3>2. \A s \in P!States : s.r[13] = Base(m, v + Cardinality(list)) =>
            P!Slot(s, 13, list, P!Mirror(m), q) = Place(m, list, v, q)
      <4> HIDE DEF list, v
      <4> QED BY <1>1, <1>2, <1>3, PlaceIs DEF n
    <3> HIDE DEF list, v
    <3> QED BY <1>1, <3>1, <3>2 DEF n
  <2>2. FrameWords(mc, m, ls, Len(ls)) = [x \in list |-> P!Get(mc, Place(m, list, v, x), 4)]
    <3> HIDE DEF list, v
    <3> QED BY <1>2 DEF FrameWords
  <2> HIDE DEF list, v, d
  <2> QED BY <1>4, <2>1, <2>2
<1>6. Sound(d, m, ms)
  <2>1. P!BlockBase(mc, 13, list, P!Mirror(m)) = P!Moved(Base(m, v + n), 4 * n, P!Mirror(m))
    <3> HIDE DEF list, v
    <3> QED BY <1>1, <1>2, WordsOfStack DEF P!BlockBase, n
  <2>2. P!Moved(Base(m, v + n), 4 * n, P!Mirror(m)) = Base(m, v)
    <3> HIDE DEF list, v
    <3> QED BY <1>1, <1>2, <1>3, StartIs DEF n
  <2> HIDE DEF d, ms, list, n
  <2> QED BY <1>1, <1>2, <1>3, <1>4, <2>1, <2>2 DEF Sound
<1>7. ASSUME NEW k \in 1 .. Len(ms) PROVE FrameWords(d, m, ms, k) = FrameWords(mc, m, ls, k)
  <2>1. k - 1 \in Nat /\ ls[k] = ms[k] /\ \A j \in 1 .. k - 1 : ls[j] = ms[j]
    <3> HIDE DEF ms
    <3> QED BY <1>2
  <2>2. \A a : P!Get(d, a, 4) = P!Get(mc, a, 4)
    <3> HIDE DEF d
    <3> QED BY <1>4 DEF P!Get
  <2> HIDE DEF d, ms
  <2> QED BY <2>1, <2>2, WordsAlike
<1>8. \A q \in Saved : d.r[q] = IF q \in list THEN FrameWords(mc, m, ls, Len(ls))[q] ELSE mc.r[q]
  <2> HIDE DEF d, list
  <2> QED BY <1>4, <1>5
<1> QED BY <1>6, <1>7, <1>8

\* What the body of a call does keeps all frames: it leaves r13 and the area alone.
LEMMA BodyKeeps ==
  ASSUME NEW mc, NEW m, NEW ls, Sound(mc, m, ls), NEW d \in P!States, d.r[13] = mc.r[13],
         \A a \in P!Words : (\A list \in SUBSET Saved : \A h \in Nat : \A q \in list :
             h + Cardinality(list) <= Room /\ a = Place(m, list, h, q) => P!Get(d, a, 4) = P!Get(mc, a, 4))
  PROVE  Sound(d, m, ls) /\ \A k \in 1 .. Len(ls) : FrameWords(d, m, ls, k) = FrameWords(mc, m, ls, k)
<1>1. Sound(d, m, ls) /\ ls \in Calls /\ m \in P!Modes /\ InUse(ls) <= Room
  BY DEF Sound
<1>2. ASSUME NEW k \in 1 .. Len(ls) PROVE FrameWords(d, m, ls, k) = FrameWords(mc, m, ls, k)
  <2> DEFINE l == ls[k]
             h == HeightOf(ls, k - 1)
  <2>1. l \in SUBSET Saved /\ h \in Nat /\ h + Cardinality(l) <= Room
    BY <1>1, CallIs
  <2>2. ASSUME NEW q \in l PROVE P!Get(d, Place(m, l, h, q), 4) = P!Get(mc, Place(m, l, h, q), 4)
    <3> HIDE DEF l, h
    <3>1. Place(m, l, h, q) \in P!Words
      BY <1>1, <2>1, PlaceIs
    <3> QED BY <2>1, <3>1
  <2>3. k - 1 \in Nat
    BY <1>1 DEF Calls
  <2> QED BY <2>2, <2>3, WordsAlike
<1> QED BY <1>1, <1>2

LEMMA ComputeKeeps ==
  ASSUME NEW mc, NEW m, NEW ls, Sound(mc, m, ls), NEW q \in Saved, NEW v \in P!Words
  PROVE  LET d == P!SetReg(mc, q, v)
         IN  /\ Sound(d, m, ls) /\ \A k \in 1 .. Len(ls) : FrameWords(d, m, ls, k) = FrameWords(mc, m, ls, k)
             /\ d.r[q] = v /\ \A x \in Saved : x # q => d.r[x] = mc.r[x]
<1> DEFINE d == P!SetReg(mc, q, v)
<1>1. mc \in P!States /\ q # 13
  BY SavedIs DEF Sound
<1>2. d \in P!States /\ d.ram = mc.ram /\ d.r[q] = v /\ \A x \in Saved \union {13} : x # q => d.r[x] = mc.r[x]
  BY <1>1, SetOfStack
<1> HIDE DEF d
<1>3. \A a : P!Get(d, a, 4) = P!Get(mc, a, 4)
  BY <1>2 DEF P!Get
<1>4. d.r[13] = mc.r[13]
  BY <1>1, <1>2
<1>5. Sound(d, m, ls) /\ \A k \in 1 .. Len(ls) : FrameWords(d, m, ls, k) = FrameWords(mc, m, ls, k)
  BY <1>2, <1>3, <1>4, BodyKeeps
<1> QED BY <1>2, <1>5 DEF d

LEMMA StoreKeepsFrames ==
  ASSUME NEW mc, NEW m, NEW ls, Sound(mc, m, ls), NEW a \in P!Words, NEW v \in P!Words,
         AreaOf(m) \cap a .. a + 3 = {}
  PROVE  LET d == P!Put(mc, a, 4, v)
         IN  /\ Sound(d, m, ls) /\ \A k \in 1 .. Len(ls) : FrameWords(d, m, ls, k) = FrameWords(mc, m, ls, k)
             /\ d.r = mc.r
<1> DEFINE d == P!Put(mc, a, 4, v)
<1>1. mc \in P!States /\ m \in P!Modes
  BY DEF Sound
<1>2. /\ d \in P!States /\ d.r = mc.r
      /\ \A c \in P!Words : a + 4 <= c \/ c + 4 <= a => P!Get(d, c, 4) = P!Get(mc, c, 4)
  BY <1>1, PutOfStack
<1> HIDE DEF d
<1>3. ASSUME NEW c \in P!Words, NEW list \in SUBSET Saved, NEW h \in Nat, NEW q \in list,
             h + Cardinality(list) <= Room, c = Place(m, list, h, q)
      PROVE  P!Get(d, c, 4) = P!Get(mc, c, 4)
  BY <1>1, <1>2, <1>3, PlaceInArea
<1>4. d.r[13] = mc.r[13]
  BY <1>2
<1>5. Sound(d, m, ls) /\ \A k \in 1 .. Len(ls) : FrameWords(d, m, ls, k) = FrameWords(mc, m, ls, k)
  BY <1>2, <1>3, <1>4, BodyKeeps
<1> QED BY <1>2, <1>5 DEF d

(***************************************************************************)
(* The specification of nested calls.                                      *)
(***************************************************************************)
CallIInv == Sound(machine, mode, lists)

LEMMA FrameIs ==
  /\ \A k : Height(k) = HeightOf(lists, k) /\ Height(k)' = HeightOf(lists', k)
  /\ Depth = InUse(lists) /\ Depth' = InUse(lists')
  /\ Mirrored = P!Mirror(mode) /\ Mirrored' = P!Mirror(mode')
  /\ \A k : Frame(k) = Reads(machine, mode, lists, k) /\ Frame(k)' = Reads(machine', mode', lists', k)
<1>1. \A k : Height(k) = HeightOf(lists, k) /\ Height(k)' = HeightOf(lists', k)
  BY DEF Height, HeightOf, Taking
<1>2. Depth = InUse(lists) /\ Depth' = InUse(lists')
  BY <1>1 DEF Depth, InUse
<1>3. Mirrored = P!Mirror(mode) /\ Mirrored' = P!Mirror(mode')
  BY DEF Mirrored, P!Mirror
<1>4. \A k : Frame(k) = Reads(machine, mode, lists, k)
  BY <1>1, <1>2, <1>3, StackIs, StackIsLdm DEF Frame, Popped, Reads
<1>5. \A k : Frame(k)' = Reads(machine', mode', lists', k)
  BY <1>1, <1>2, <1>3, StackIs, StackIsLdm DEF Frame, Popped, Reads
<1> QED BY <1>1, <1>2, <1>3, <1>4, <1>5

LEMMA NowIsSound ==
  ASSUME CallIInv
  PROVE  /\ Sound(P!Now, mode, lists) /\ P!Now.r = machine.r
         /\ \A k : FrameWords(P!Now, mode, lists, k) = FrameWords(machine, mode, lists, k)
<1>1. P!Now \in P!States /\ P!Now.ram = machine.ram /\ P!Now.r = machine.r
  BY NowOfStack DEF CallIInv, Sound
<1>2. \A a : P!Get(P!Now, a, 4) = P!Get(machine, a, 4)
  BY <1>1 DEF P!Get
<1>3. Sound(P!Now, mode, lists)
  BY <1>1 DEF CallIInv, Sound
<1> QED BY <1>1, <1>2, <1>3 DEF FrameWords

LEMMA CallInitSound == CallInit => CallIInv
<1> SUFFICES ASSUME CallInit PROVE CallIInv
  OBVIOUS
<1>1. PICK f \in [Saved \union {13} -> Scratch \union {Bottom}] :
        f[13] = Bottom /\ machine = [r |-> f, ram |-> [i \in 0 .. StackRam - 1 |-> 0], npc |-> 4]
  BY DEF CallInit
<1>2. Scratch \union {Bottom} \subseteq P!Words /\ 0 \in P!Byte /\ 4 \in P!Words
  <2>1. P!Words = 0 .. 2^StackWidth - 1
    BY WordsOfStack
  <2>2. Scratch \subseteq 0 .. 2^StackWidth - 1
    BY CallStackAssumption
  <2>3. Bottom \in P!Words /\ 4 \in P!Words
    <3> DEFINE w == 2^StackWidth
    <3>1. w \in Nat /\ StackRam <= w /\ Bottom \in Nat /\ Bottom + 4 * Room + 4 <= StackRam /\ StackRam \in Nat
          /\ Room \in Nat
      BY StackInRam
    <3>2. w >= 16 /\ P!Words = 0 .. w - 1
      BY <2>1, StackAssumes, P!Sizes, WordsOfStack DEF P!Sizes
    <3> HIDE DEF w
    <3> QED BY <3>1, <3>2
  <2>4. 0 \in P!Byte
    BY StackAssumes, P!WordsAre DEF P!WordsAre
  <2> QED BY <2>1, <2>2, <2>3, <2>4
<1>3. machine \in P!States
  <2>1. f \in [Saved \union {13} -> P!Words]
    BY <1>2
  <2> QED BY <1>1, <1>2, <2>1 DEF P!States
<1>4. lists = <<>> /\ mode \in P!Modes /\ mode.w
  BY StackIs DEF CallInit
<1>5. lists \in Calls /\ Len(lists) = 0
  BY <1>4 DEF Calls
<1>6. InUse(lists) = 0
  BY <1>5, HeightNone DEF InUse
<1>7. machine.r[13] = Bottom /\ Base(mode, 0) = Bottom /\ 0 <= Room
  BY <1>1, StackInRam DEF Base
<1> QED BY <1>3, <1>4, <1>5, <1>6, <1>7 DEF CallIInv, Sound

\* The frames of a sound state, before and after a step.
FramesOf(mc, m, ls) == [k \in 1 .. Len(ls) |-> FrameWords(mc, m, ls, k)]
LEMMA FramesAre ==
  /\ CallIInv => [k \in 1 .. Len(lists) |-> Frame(k)] = FramesOf(machine, mode, lists)
  /\ CallIInv' => [k \in 1 .. Len(lists) |-> Frame(k)]' = FramesOf(machine', mode', lists')
<1>1. ASSUME CallIInv PROVE \A k \in 1 .. Len(lists) : Frame(k) = FrameWords(machine, mode, lists, k)
  BY <1>1, FrameIs, ReadsAre DEF CallIInv
<1>2. ASSUME CallIInv' PROVE \A k \in 1 .. Len(lists') : Frame(k)' = FrameWords(machine', mode', lists', k)
  <2>1. Sound(machine', mode', lists')
    BY <1>2 DEF CallIInv, Sound, InUse, HeightOf, Taking, Base
  <2> QED BY <2>1, FrameIs, ReadsAre
<1> QED BY <1>1, <1>2 DEF FramesOf

LEMMA CallStep ==
  ASSUME CallIInv, UNCHANGED mode, NEW list \in (SUBSET Saved) \ {{}}, Call(list)
  PROVE  CallIInv' /\ Frames!Push(list)
<1> DEFINE d == P!Stm(P!Now, 13, list, mode)
           ms == Append(lists, list)
<1>1. machine' = d /\ lists' = ms /\ mode' = mode /\ InUse(lists) + Cardinality(list) <= Room
  BY StackIs, StackIsStm, FrameIs DEF Call
<1>2. /\ Sound(P!Now, mode, lists) /\ P!Now.r = machine.r
      /\ \A k : FrameWords(P!Now, mode, lists, k) = FrameWords(machine, mode, lists, k)
  BY NowIsSound
<1>3. /\ Sound(d, mode, ms) /\ \A q \in Saved : d.r[q] = P!Now.r[q]
      /\ \A k \in 1 .. Len(lists) : FrameWords(d, mode, ms, k) = FrameWords(P!Now, mode, lists, k)
      /\ FrameWords(d, mode, ms, Len(lists) + 1) = [q \in list |-> P!Now.r[q]]
  BY <1>1, <1>2, CallKeeps
<1> HIDE DEF d, ms
<1>4. CallIInv'
  BY <1>1, <1>3 DEF CallIInv, Sound, InUse, HeightOf, Taking, Base
<1>5. [k \in 1 .. Len(lists) |-> Frame(k)]' = FramesOf(d, mode, ms)
      /\ [k \in 1 .. Len(lists) |-> Frame(k)] = FramesOf(machine, mode, lists)
  BY <1>1, <1>4, FramesAre
<1>6. lists \in Calls /\ Len(lists) \in Nat /\ Len(ms) = Len(lists) + 1
  BY Appended DEF CallIInv, Sound, ms, Calls
<1>7. FramesOf(d, mode, ms) = Append(FramesOf(machine, mode, lists), [q \in list |-> machine.r[q]])
  <2> DEFINE F == FramesOf(machine, mode, lists)
             G == FramesOf(d, mode, ms)
             x == [q \in list |-> machine.r[q]]
             n == Len(lists)
  <2>1. n \in Nat /\ F = [k \in 1 .. n |-> FrameWords(machine, mode, lists, k)] /\ G = [k \in 1 .. n + 1 |-> FrameWords(d, mode, ms, k)]
    BY <1>6 DEF FramesOf
  <2>2. (\A k \in 1 .. n : FrameWords(d, mode, ms, k) = FrameWords(machine, mode, lists, k)) /\ FrameWords(d, mode, ms, n + 1) = x
    BY <1>2, <1>3
  <2> HIDE DEF F, G, x, n
  <2>3. Append(F, x) = [k \in 1 .. n + 1 |-> IF k = n + 1 THEN x ELSE F[k]]
    <3>1. F \in Seq({F[k] : k \in 1 .. n}) /\ Len(F) = n
      BY <2>1
    <3> QED BY <2>1, <3>1
  <2>4. \A k \in 1 .. n + 1 : G[k] = IF k = n + 1 THEN x ELSE F[k]
    BY <2>1, <2>2
  <2> QED BY <2>1, <2>3, <2>4 DEF F, G, x
<1>8. [r \in Saved |-> machine.r[r]]' = [r \in Saved |-> machine.r[r]]
      /\ [q \in list |-> [r \in Saved |-> machine.r[r]][q]] = [q \in list |-> machine.r[q]]
  BY <1>1, <1>2, <1>3
<1> QED BY <1>4, <1>5, <1>7, <1>8 DEF Frames!Push

LEMMA ReturnStep ==
  ASSUME CallIInv, UNCHANGED mode, Return
  PROVE  CallIInv' /\ Frames!Pop
<1> DEFINE list == Last(lists)
           d == P!Ldm(P!Now, 13, list, P!Mirror(mode))
           ms == Front(lists)
           n == Len(lists)
           F == FramesOf(machine, mode, lists)
<1>1. machine' = d /\ lists' = ms /\ mode' = mode /\ lists # <<>>
  BY StackIs, StackIsLdm, FrameIs DEF Return
<1>2. /\ Sound(P!Now, mode, lists) /\ P!Now.r = machine.r
      /\ \A k : FrameWords(P!Now, mode, lists, k) = FrameWords(machine, mode, lists, k)
  BY NowIsSound
<1>3. /\ Sound(d, mode, ms)
      /\ \A q \in Saved : d.r[q] = IF q \in list THEN FrameWords(P!Now, mode, lists, n)[q] ELSE P!Now.r[q]
      /\ \A k \in 1 .. Len(ms) : FrameWords(d, mode, ms, k) = FrameWords(P!Now, mode, lists, k)
  BY <1>1, <1>2, ReturnKeeps
<1>4. lists \in Calls /\ n \in Nat \ {0} /\ Len(ms) = n - 1 /\ list = lists[n] /\ list \in (SUBSET Saved) \ {{}}
  BY <1>1, Fronted DEF CallIInv, Sound
<1> HIDE DEF d, ms, list, n, F
<1>5. CallIInv'
  BY <1>1, <1>3 DEF CallIInv, Sound, InUse, HeightOf, Taking, Base
<1>6. [k \in 1 .. Len(lists) |-> Frame(k)]' = FramesOf(d, mode, ms) /\ [k \in 1 .. Len(lists) |-> Frame(k)] = F
  BY <1>1, <1>5, FramesAre DEF F
<1>7. F = [k \in 1 .. n |-> FrameWords(machine, mode, lists, k)]
  BY DEF F, FramesOf, n
<1>8. Len(F) = n /\ F # <<>> /\ Last(F) = FrameWords(machine, mode, lists, n) /\ Front(F) = [k \in 1 .. n - 1 |-> FrameWords(machine, mode, lists, k)]
  <2>1. Len(F) = n /\ F \in Seq({F[k] : k \in 1 .. n})
    BY <1>4, <1>7
  <2>2. Last(F) = F[n] /\ Front(F) = SubSeq(F, 1, n - 1)
    BY <2>1 DEF Last, Front
  <2>3. SubSeq(F, 1, n - 1) = [k \in 1 .. n - 1 |-> F[k]]
    BY <1>4, <2>1
  <2>4. \A k \in 1 .. n : F[k] = FrameWords(machine, mode, lists, k)
    BY <1>7
  <2>5. F # <<>> /\ n \in 1 .. n
    BY <1>4, <2>1
  <2>6. [k \in 1 .. n - 1 |-> F[k]] = [k \in 1 .. n - 1 |-> FrameWords(machine, mode, lists, k)]
    BY <1>4, <2>4
  <2> QED BY <2>1, <2>2, <2>3, <2>4, <2>5, <2>6
<1>9. FramesOf(d, mode, ms) = Front(F)
  <2>1. FramesOf(d, mode, ms) = [k \in 1 .. n - 1 |-> FrameWords(d, mode, ms, k)]
    BY <1>4 DEF FramesOf
  <2> QED BY <1>2, <1>3, <1>4, <1>8, <2>1
<1>10. DOMAIN Last(F) = list
  BY <1>4, <1>8 DEF FrameWords
<1>11. [r \in Saved |-> machine.r[r]]'
       = [r \in Saved |-> IF r \in DOMAIN Last(F) THEN Last(F)[r] ELSE [q \in Saved |-> machine.r[q]][r]]
  <2>1. \A r \in Saved : d.r[r] = IF r \in DOMAIN Last(F) THEN Last(F)[r] ELSE machine.r[r]
    BY <1>2, <1>3, <1>8, <1>10
  <2>2. [r \in Saved |-> machine.r[r]]' = [r \in Saved |-> d.r[r]]
    BY <1>1
  <2> QED BY <2>1, <2>2
<1>12. Frames!Last(F) = Last(F) /\ Frames!Front(F) = Front(F)
  BY DEF Frames!Last, Last, Frames!Front, Front
<1> QED BY <1>5, <1>6, <1>8, <1>9, <1>11, <1>12 DEF Frames!Pop

LEMMA ComputeStep ==
  ASSUME CallIInv, UNCHANGED mode, NEW r \in Saved, NEW v \in Scratch, Compute(r, v)
  PROVE  CallIInv' /\ Frames!Work(r, v)
<1> DEFINE d == P!SetReg(P!Now, r, v)
<1>1. machine' = d /\ lists' = lists /\ mode' = mode
  BY StackIs DEF Compute
<1>2. /\ Sound(P!Now, mode, lists) /\ P!Now.r = machine.r
      /\ \A k : FrameWords(P!Now, mode, lists, k) = FrameWords(machine, mode, lists, k)
  BY NowIsSound
<1>3. v \in P!Words
  BY WordsOfStack, CallStackAssumption
<1>4. /\ Sound(d, mode, lists) /\ \A k \in 1 .. Len(lists) : FrameWords(d, mode, lists, k) = FrameWords(P!Now, mode, lists, k)
      /\ d.r[r] = v /\ \A x \in Saved : x # r => d.r[x] = P!Now.r[x]
  BY <1>2, <1>3, ComputeKeeps
<1> HIDE DEF d
<1>5. CallIInv'
  BY <1>1, <1>4 DEF CallIInv, Sound, InUse, HeightOf, Taking, Base
<1>6. [k \in 1 .. Len(lists) |-> Frame(k)]' = FramesOf(d, mode, lists)
      /\ [k \in 1 .. Len(lists) |-> Frame(k)] = FramesOf(machine, mode, lists)
  BY <1>1, <1>5, FramesAre
<1>7. FramesOf(d, mode, lists) = FramesOf(machine, mode, lists)
  BY <1>2, <1>4 DEF FramesOf
<1>8. [q \in Saved |-> machine.r[q]]' = [[q \in Saved |-> machine.r[q]] EXCEPT ![r] = v]
  BY <1>1, <1>2, <1>4
<1> QED BY <1>5, <1>6, <1>7, <1>8 DEF Frames!Work

LEMMA StoreStep ==
  ASSUME CallIInv, UNCHANGED mode, NEW w \in Elsewhere, StoreElsewhere(w)
  PROVE  CallIInv' /\ UNCHANGED Frames!vars
<1> DEFINE d == P!Put(P!Now, w.at, 4, w.val)
<1>1. machine' = d /\ lists' = lists /\ mode' = mode /\ AreaOf(mode) \cap w.at .. w.at + 3 = {}
  BY StackIs DEF StoreElsewhere, Area, AreaOf
<1>2. /\ Sound(P!Now, mode, lists) /\ P!Now.r = machine.r
      /\ \A k : FrameWords(P!Now, mode, lists, k) = FrameWords(machine, mode, lists, k)
  BY NowIsSound
<1>3. w.at \in P!Words /\ w.val \in P!Words
  BY WordsOfStack, CallStackAssumption
<1>4. /\ Sound(d, mode, lists) /\ \A k \in 1 .. Len(lists) : FrameWords(d, mode, lists, k) = FrameWords(P!Now, mode, lists, k)
      /\ d.r = P!Now.r
  BY <1>1, <1>2, <1>3, StoreKeepsFrames
<1> HIDE DEF d
<1>5. CallIInv'
  BY <1>1, <1>4 DEF CallIInv, Sound, InUse, HeightOf, Taking, Base
<1>6. [k \in 1 .. Len(lists) |-> Frame(k)]' = FramesOf(d, mode, lists)
      /\ [k \in 1 .. Len(lists) |-> Frame(k)] = FramesOf(machine, mode, lists)
  BY <1>1, <1>5, FramesAre
<1>7. FramesOf(d, mode, lists) = FramesOf(machine, mode, lists)
  BY <1>2, <1>4 DEF FramesOf
<1>8. [q \in Saved |-> machine.r[q]]' = [q \in Saved |-> machine.r[q]]
  BY <1>1, <1>2, <1>4
<1> QED BY <1>5, <1>6, <1>7, <1>8 DEF Frames!vars

LEMMA CallNextStep == CallIInv /\ [CallNext]_stackVars => CallIInv' /\ [Frames!Next]_Frames!vars
<1> SUFFICES ASSUME CallIInv, [CallNext]_stackVars PROVE CallIInv' /\ [Frames!Next]_Frames!vars
  OBVIOUS
<1>1. ASSUME UNCHANGED mode, NEW list \in (SUBSET Saved) \ {{}}, Call(list)
      PROVE  CallIInv' /\ [Frames!Next]_Frames!vars
  BY <1>1, CallStep DEF Frames!Next
<1>2. ASSUME UNCHANGED mode, Return PROVE CallIInv' /\ [Frames!Next]_Frames!vars
  BY <1>2, ReturnStep DEF Frames!Next
<1>3. ASSUME UNCHANGED mode, NEW r \in Saved, NEW v \in Scratch, Compute(r, v)
      PROVE  CallIInv' /\ [Frames!Next]_Frames!vars
  BY <1>3, ComputeStep DEF Frames!Next
<1>4. ASSUME UNCHANGED mode, NEW w \in Elsewhere, StoreElsewhere(w)
      PROVE  CallIInv' /\ [Frames!Next]_Frames!vars
  BY <1>4, StoreStep
<1>5. ASSUME UNCHANGED stackVars PROVE CallIInv' /\ [Frames!Next]_Frames!vars
  <2>1. machine' = machine /\ mode' = mode /\ lists' = lists
    BY <1>5 DEF stackVars
  <2>2. CallIInv'
    BY <2>1 DEF CallIInv, Sound, InUse, HeightOf, Taking, Base
  <2>3. [k \in 1 .. Len(lists) |-> Frame(k)]' = [k \in 1 .. Len(lists) |-> Frame(k)]
    BY <2>1, <2>2, FramesAre
  <2>4. [q \in Saved |-> machine.r[q]]' = [q \in Saved |-> machine.r[q]]
    BY <2>1
  <2> QED BY <2>2, <2>3, <2>4 DEF Frames!vars
<1> QED BY <1>1, <1>2, <1>3, <1>4, <1>5 DEF CallNext

LEMMA CallInitFrames == CallInit => Frames!Init
<1> SUFFICES ASSUME CallInit PROVE Frames!Init
  OBVIOUS
<1>1. lists = <<>> /\ Len(lists) = 0 /\ \A x \in Saved : machine.r[x] \in Scratch
  BY DEF CallInit
<1>2. [k \in 1 .. Len(lists) |-> Frame(k)] = <<>>
  BY <1>1
<1> QED BY <1>1, <1>2 DEF Frames!Init

LEMMA SoundIsBalanced == CallIInv => Balanced
<1> SUFFICES ASSUME CallIInv PROVE Balanced
  OBVIOUS
<1>1. mode \in P!Modes /\ machine.r[13] = Base(mode, InUse(lists)) /\ InUse(lists) \in 0 .. Room
  BY TakingIs, StackInRam DEF CallIInv, Sound, InUse, Calls
<1>2. P!Wrapped(Base(mode, InUse(lists))) = Base(mode, InUse(lists))
  <2>1. Base(mode, InUse(lists)) \in P!Words
    BY <1>1, BaseIs
  <2> QED BY <2>1, StackAssumes, P!Wraps DEF P!Wraps
<1> QED BY <1>1, <1>2, FrameIs, StackIs DEF Balanced, Base

\* Calls and returns, nested to any depth that the stack has room for, with
\* any words and in all four indexing modes, are pushes and pops of a stack of
\* frames, and r13 is always as far from the bottom as the frames take (handle_stm and
\* handle_ldm of src/cpu/memops.c).
THEOREM CallsKeepFrames == CallSpec => FramesKept
<1>1. CallSpec => []CallIInv
  BY CallInitSound, CallNextStep, PTL DEF CallSpec
<1>2. CallSpec => Frames!Spec
  BY <1>1, CallInitFrames, CallNextStep, PTL DEF CallSpec, Frames!Spec
<1>3. CallSpec => []Balanced
  BY <1>1, SoundIsBalanced, PTL
<1> QED BY <1>2, <1>3 DEF FramesKept
=============================================================================
