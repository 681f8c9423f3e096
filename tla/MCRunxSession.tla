---------------------------- MODULE MCRunxSession ----------------------------
(***************************************************************************)
(* Three slots, loaded in a fixed order, and two files: a slot can be      *)
(* empty, chosen, and chosen again; a load can fail before, at and after   *)
(* the slot the machine starts at.                                         *)
(***************************************************************************)
EXTENDS RunxSession

MCSlots == {"bios", "boot", "monitor"}
MCOrder == <<"bios", "boot", "monitor">>
=============================================================================
