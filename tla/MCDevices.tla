------------------------------- MODULE MCDevices -------------------------------
(***************************************************************************)
(* The devices of the machine, one at a time: `part` says which of them a  *)
(* behaviour is about, and the others stay as they began.                  *)
(*                                                                         *)
(* Keyboard: a ring of three slots and two bytes besides 0, which a host   *)
(* may also inject: enough for every wrap of head and tail.                *)
(* Disk: images of two and one sectors and a file that cannot be attached, *)
(* against LBAs inside and past the end and commands with and without both *)
(* of READ and GO.                                                         *)
(* Clock: times of two binary digits and one more, so that every field     *)
(* wraps.                                                                  *)
(* Memory: a word of plain RAM, the windows over the next words of it, and *)
(* the clock's behind its end, as in the program's map.                    *)
(* Device table: two devices, every window of up to three addresses in a   *)
(* space of six; every second base has a device of no known kind.          *)
(***************************************************************************)
EXTENDS KeyboardFifo, DiskSystem, Rtc, MemRouting, HwBus

CONSTANTS s1, s2, s3, zero
MCSector   == {zero, s1, s2, s3}
MCFiles    == {<<>>, <<s1, s2>>, <<s3>>}
MCLba      == 0 .. 2
MCCount    == {0, 2}
MCCommands == {129, 1, 128}

MCBase  == [uart |-> 4, disk |-> 12, kbd |-> 16, rtc |-> 24]
MCSize  == [uart |-> 8, disk |-> 4, kbd |-> 4, rtc |-> 4]
MCWords == {9}

MCKinds   == {"disk"}
KindAt(b) == IF b % 2 = 0 THEN "disk" ELSE "other"
MCCatalog == {[base |-> b, size |-> s, kind |-> KindAt(b)] : b \in 0 .. 5, s \in 0 .. 3}
MCScales  == {-1, 0, 2}
MCCycles  == {0, 2}

VARIABLE part
Parts == {"keyboard", "disk", "clock", "memory", "table"}

\* The parts that do not move begin in one state.
Quiet ==
  /\ part # "clock" => now = 0
  /\ part # "table" => bpc = [k \in Kinds |-> 0]

Init ==
  /\ part \in Parts
  /\ KbdInit /\ DiskInit /\ RtcInit /\ MemInit /\ BusInit
  /\ Quiet

Next ==
  \/ /\ part = "keyboard" /\ KbdNext
     /\ UNCHANGED <<part, diskVars, rtcVars, memVars, busVars>>
  \/ /\ part = "disk" /\ DiskNext
     /\ UNCHANGED <<part, kbdVars, rtcVars, memVars, busVars>>
  \/ /\ part = "clock" /\ RtcNext
     /\ UNCHANGED <<part, kbdVars, diskVars, memVars, busVars>>
  \/ /\ part = "memory" /\ MemNext
     /\ UNCHANGED <<part, kbdVars, diskVars, rtcVars, busVars>>
  \/ /\ part = "table" /\ BusNext
     /\ UNCHANGED <<part, kbdVars, diskVars, rtcVars, memVars>>

Spec == Init /\ [][Next]_<<part, kbdVars, diskVars, rtcVars, memVars, busVars>>
=============================================================================
