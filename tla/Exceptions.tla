------------------------------ MODULE Exceptions ------------------------------
(***************************************************************************)
(* What supervisor calls do to the program-status registers                *)
(* (src/cpu/system.c, and the exception return of src/cpu/logic.c): SVC,   *)
(* MRS, MSR to the CPSR, MOVS pc, lr, among calls and instructions that    *)
(* set the flags.  There is one LR and one SPSR for all modes.  MSR to the *)
(* SPSR, CPS and SETEND are in the source but never decoded (K12Decode).   *)
(*                                                                         *)
(* A PSR is its mode, masks, endianness, GE bits and flags; T and the IT   *)
(* bits are never set.  pc counts instructions; a program is any choice of *)
(* instruction at each step.  History: svc, the last supervisor call, and  *)
(* whether its handler kept LR and made no call of its own.                *)
(***************************************************************************)
EXTENDS Naturals

CONSTANTS MaxPc, Vector, Psrs, MaxSteps
ASSUME ExcAssumption == MaxPc \in Nat /\ Vector \in 0 .. MaxPc /\ MaxSteps \in Nat

VARIABLES cpsr, spsr, lr, pc, reg, svc, steps
excVars == <<cpsr, spsr, lr, pc, reg, svc, steps>>

\* vm_reset
ZeroPsr == [mode |-> "zero", masks |-> {}, e |-> 0, ge |-> 0, nzcv |-> 0]
NoCall == [open |-> FALSE, clean |-> FALSE, psr |-> ZeroPsr, next |-> 0]
ExcInit ==
  /\ cpsr = ZeroPsr /\ spsr = ZeroPsr /\ lr = 0 /\ pc = 0 /\ reg = ZeroPsr
  /\ svc = NoCall /\ steps = 0

Counted == steps < MaxSteps /\ steps' = steps + 1
Sequential == pc < MaxPc /\ pc' = pc + 1

-----------------------------------------------------------------------------
\* Mutant: what is saved is the PSR of the handler.
HandleSvcSavesNew ==
  LET new == [cpsr EXCEPT !.mode = "svc", !.masks = @ \union {"I"}]
  IN  /\ Counted /\ pc < MaxPc /\ pc' = Vector
      /\ cpsr' = new /\ spsr' = new /\ lr' = pc + 1
      /\ svc' = [open |-> TRUE, clean |-> TRUE, psr |-> cpsr, next |-> pc + 1]
      /\ UNCHANGED reg

HandleSvc ==
  /\ Counted /\ pc < MaxPc /\ pc' = Vector
  /\ spsr' = cpsr /\ lr' = pc + 1
  /\ cpsr' = [cpsr EXCEPT !.mode = "svc", !.masks = @ \union {"I"}]
  /\ svc' = [open |-> TRUE, clean |-> TRUE, psr |-> cpsr, next |-> pc + 1]
  /\ UNCHANGED reg

\* MOVS pc, lr: exception_return_ctx.
ExceptionReturn ==
  /\ Counted /\ cpsr' = spsr /\ pc' = lr
  /\ svc' = [svc EXCEPT !.open = FALSE]
  /\ UNCHANGED <<spsr, lr, reg>>

HandleMrs(saved) ==
  /\ Counted /\ Sequential /\ reg' = IF saved THEN spsr ELSE cpsr
  /\ UNCHANGED <<cpsr, spsr, lr, svc>>

\* psr_write: control, status and flags; the extension field is ignored.
PsrWrite(psr, value, fields) ==
  [mode |-> IF "c" \in fields THEN value.mode ELSE psr.mode,
   masks |-> IF "c" \in fields THEN value.masks ELSE psr.masks,
   e |-> IF "c" \in fields THEN value.e ELSE psr.e,
   ge |-> IF "s" \in fields THEN value.ge ELSE psr.ge,
   nzcv |-> IF "f" \in fields THEN value.nzcv ELSE psr.nzcv]
Fields == {"f", "s", "x", "c"}

\* handle_msr, from an immediate or from the register that MRS wrote.
HandleMsr(value, fields) ==
  /\ Counted /\ Sequential /\ cpsr' = PsrWrite(cpsr, value, fields)
  /\ UNCHANGED <<spsr, lr, reg, svc>>

\* BL, and an instruction that sets the flags.
Call(to) ==
  /\ Counted /\ pc < MaxPc /\ lr' = pc + 1 /\ pc' = to
  /\ svc' = [svc EXCEPT !.clean = FALSE]
  /\ UNCHANGED <<cpsr, spsr, reg>>
FlagsSet(nzcv) ==
  /\ Counted /\ Sequential /\ cpsr' = [cpsr EXCEPT !.nzcv = nzcv]
  /\ UNCHANGED <<spsr, lr, reg, svc>>

ExcNext ==
  \/ HandleSvc
  \/ ExceptionReturn
  \/ \E saved \in BOOLEAN : HandleMrs(saved)
  \/ \E value \in Psrs \union {reg}, fields \in SUBSET Fields : HandleMsr(value, fields)
  \/ \E to \in 0 .. MaxPc : Call(to)
  \/ \E nzcv \in 0 .. 1 : FlagsSet(nzcv)

ExcSpec == ExcInit /\ [][ExcNext]_excVars

-----------------------------------------------------------------------------
\* A supervisor call comes back to the instruction after it with every bit of
\* the status it was made in, whatever its handler did to flags, masks and mode
\* meanwhile, as long as the handler made no call of its own.
SvcComesBack ==
  [][ExceptionReturn /\ svc.open /\ svc.clean => cpsr' = svc.psr /\ pc' = svc.next]_excVars

=============================================================================
