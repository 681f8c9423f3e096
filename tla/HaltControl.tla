---------------------------- MODULE HaltControl ----------------------------
(***************************************************************************)
(* The stopping protocol of the emulator as a host sees it.  A machine is  *)
(* stopped by two latches, one of the VM and one of the CPU; the mode says *)
(* which are set:                                                          *)
(*   ready    neither: the next step executes an instruction               *)
(*   faulted  the VM's only: an instruction could not be fetched           *)
(*   broken   both: the guest executed a breakpoint                        *)
(*   latched  the CPU's only: a broken machine whose halt was "cleared";   *)
(*            it can do one more step, which breaks it again               *)
(* VmCore implements it.                                                   *)
(***************************************************************************)
VARIABLE mode

Modes == {"ready", "faulted", "broken", "latched"}

Init == mode = "ready"

Step ==
  \/ mode = "ready"   /\ mode' \in {"ready", "faulted", "broken"}
  \/ mode = "latched" /\ mode' = "broken"

ClearHalt ==
  \/ mode = "faulted" /\ mode' = "ready"
  \/ mode = "broken"  /\ mode' = "latched"

Reset == mode' = "ready"

Next == Step \/ ClearHalt \/ Reset

Spec == Init /\ [][Next]_mode
=============================================================================
