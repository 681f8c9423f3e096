------------------------------ MODULE MCTransfers ------------------------------
(***************************************************************************)
(* What instructions shift and move, one kind at a time: `part` says which *)
(* of them a behaviour is about, and the others stay as they began.        *)
(*                                                                         *)
(* Shifts and transfers: words of four bits, so that a byte is one bit and *)
(* RAM is half of the address space; two registers and r15; two transfers, *)
(* the first of which stores what the second must not disturb; the bases   *)
(* are the last word of RAM and the end of the address space, and indexing *)
(* reaches the first bytes, what is off a word and what wraps around.      *)
(* Calls: words of four two-bit bytes; two registers to save and room for  *)
(* three words, with stores right next to the stack.                       *)
(***************************************************************************)
EXTENDS LoadStore, ShiftSteps, CallStack

VARIABLE part
Parts == {"shifts", "transfers", "calls"}

MCElsewhere == [at : {0, 20, 32}, val : {255}]
MCStarts == {[r \in Regs |-> IF r = 1 THEN 4 ELSE 14]}

\* The parts that do not move begin in one state; no transfer is to come.
NoTransfer ==
  /\ st = [r |-> [r \in Regs |-> 0], ram |-> [i \in 0 .. RamSize - 1 |-> 0], npc |-> 0]
  /\ wrote = Nothing /\ steps = MaxSteps
OneCall == mode.p /\ mode.u /\ \A r, q \in Saved : machine.r[r] = machine.r[q]

Init ==
  /\ part \in Parts
  /\ IF part = "transfers" THEN LsInit ELSE NoTransfer
  /\ IF part = "shifts" THEN StepsInit ELSE Begin("imm", "LSL", 0, 0, FALSE)
  /\ CallInit /\ (part = "calls" \/ OneCall)

Next ==
  \/ /\ part = "transfers" /\ LsNext
     /\ UNCHANGED <<part, stepVars, stackVars>>
  \/ /\ part = "shifts" /\ StepsNext
     /\ UNCHANGED <<part, lsVars, stackVars>>
  \/ /\ part = "calls" /\ CallNext
     /\ UNCHANGED <<part, lsVars, stepVars>>

Spec == Init /\ [][Next]_<<part, lsVars, stepVars, stackVars>>
=============================================================================
