------------------------------ MODULE MCVmCore ------------------------------
(***************************************************************************)
(* Three words of RAM (the vectors 0, 4 and 8) in an address space of      *)
(* four, so that a pc may leave RAM and wrap. Values holds an odd address  *)
(* whose masked forms are in RAM, and HostPc one between two words, where  *)
(* an instruction of any kind may be decoded. The longest program          *)
(* overflows RAM, and a short one loaded over a longer one leaves a loop.  *)
(* The last program is the one of a CPU that a breakpoint latched: with    *)
(* the halt cleared and PC set back to 0, it executes a direct write to    *)
(* r15 that no commit overwrites. vm_run is given no limit and limits of   *)
(* one and two.                                                            *)
(***************************************************************************)
EXTENDS VmCore

MCValues   == {0, 9}
MCHostPc   == {0, 6}
MCLoadAddr == {0}
MCBudgets  == {0, 1, 2}
MCImages   == { <<"svc", "bkpt", "movspc">>,
                <<"bl", "deadbeef", "bx", "b">>,
                <<"blx", "unknown", "ldpc">>,
                <<"b">>,
                <<"ldrbpc", "bkpt", "msrspsr">> }

\* A program for the claim about data-processing writes to PC.
PcImages   == { <<"alupc", "bkpt">>, <<"svc", "dp", "alupcs">> }
NoRun      == {}
=============================================================================
