----------------------------- MODULE MCInstructions -----------------------------
(***************************************************************************)
(* What instructions are and do, one kind at a time: `part` says which of  *)
(* them a behaviour is about, and the others stay as they began.           *)
(*                                                                         *)
(* Decoder: the program's table and all 4096 keys.                         *)
(* Data path: two registers of two bits, interchangeable; r15 would read   *)
(* as zero in words of two bits, which a register does too.                *)
(* Supervisor calls: a user and a system status that differ in every       *)
(* field, three instructions and the vector among them.                    *)
(***************************************************************************)
EXTENDS K12Decode, K12Table, DataPath, Exceptions

\* The registers are interchangeable.
Symmetry == Permutations(Regs)

MCTable == K12_TABLE
AllKeys == SUBSET (0 .. 11)

MCPsrs == {[mode |-> "usr", masks |-> {}, e |-> 0, ge |-> 1, nzcv |-> 0],
           [mode |-> "sys", masks |-> {"F", "I"}, e |-> 1, ge |-> 0, nzcv |-> 1]}

VARIABLE part
Parts == {"decoder", "data path", "supervisor"}

Init ==
  /\ part \in Parts
  /\ IF part = "decoder" THEN DecodeInit ELSE key = {} /\ DecodeInit
  /\ DpInit /\ ExcInit

Next ==
  \/ /\ part = "decoder" /\ DecodeNext
     /\ UNCHANGED <<part, dpVars, excVars>>
  \/ /\ part = "data path" /\ DpNext
     /\ UNCHANGED <<part, decodeVars, excVars>>
  \/ /\ part = "supervisor" /\ ExcNext
     /\ UNCHANGED <<part, decodeVars, dpVars>>

Spec == Init /\ [][Next]_<<part, decodeVars, dpVars, excVars>>
=============================================================================
