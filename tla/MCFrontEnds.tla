------------------------------ MODULE MCFrontEnds ------------------------------
(***************************************************************************)
(* What a user sees, one part at a time: `part` says which of them a       *)
(* behaviour is about, and the others stay as they began.                  *)
(*                                                                         *)
(* Window: the instance of MCRunxSession.                                  *)
(* Command line: memory of four bytes of eight, a firmware of two; in one  *)
(* part scripts, of which one does a second one, fails and quits in the    *)
(* middle, and one runs itself; in another settings, with loads that meet  *)
(* the end of memory and of the address space.                             *)
(* Variables: an array that grows from one entry to two and to four.       *)
(* Monitor: two letters, of which one command's name is the begin of       *)
(* another's; a screen of four rows that wraps, a line of two characters   *)
(* in a row of eight.                                                      *)
(***************************************************************************)
EXTENDS MCRunxSession, ArmRunCli, SessionVars, Monitor

CliLine(cmd, file, a, b) == [cmd |-> cmd, file |-> file, a |-> a, b |-> b]
Do(f) == CliLine("do", f, 0, 0)
Plain(cmd) == CliLine(cmd, "-", 0, 0)

MCScript ==
  [boot |-> <<Plain("blank"), Do("inner"), CliLine("load", "app", 2, 0), Plain("bad e"), Plain("run")>>,
   inner |-> <<Plain("unknown"), CliLine("step", "-", 0, 0), Plain("quit"), Plain("clrhalt")>>,
   again |-> <<Plain("show"), Do("again"), Plain("bad")>>]
MCSize == [bios |-> 2, app |-> 3, empty |-> 0]
MCFlags == {"INSTR", "MMIO", "CLI"}
Item(add, flag) == [add |-> add, flag |-> flag]
MCExprs ==
  [NONE |-> <<Item(TRUE, "NONE")>>,
   mixed |-> <<Item(TRUE, "ALL"), Item(FALSE, "MMIO"), Item(TRUE, "foo")>>,
   turned |-> <<Item(FALSE, "NONE"), Item(FALSE, "ALL"), Item(TRUE, "CLI"), Item(FALSE, "CLI"), Item(TRUE, "INSTR")>>]

ScriptLines == {Do("boot"), Do("again"), Do("missing"), CliLine("step", "-", 0, 2), Plain("run"),
                Plain("clrhalt"), Plain("quit"), CliLine("e", "-", 4, 1), Plain("set reg")}
SettingLines == {CliLine("load", "app", a, 0) : a \in {0, 2, 6}} \union
  {CliLine("load", "none", 0, 0), CliLine("load", "empty", 0, 0), CliLine("set mem", "-", 3, 0),
   CliLine("set mem", "-", 0, 0), CliLine("set mem", "-", 7, 0), CliLine("set cpu debug", "mixed", 0, 0),
   CliLine("set cpu debug", "turned", 0, 0), CliLine("set trace", "-", 1, 0), CliLine("key", "-", 0, 0),
   CliLine("attach", "disk", 0, 0), CliLine("attach", "none", 0, 0), CliLine("logfile", "log", 0, 0),
   CliLine("set debug=", "mixed", 0, 0)}
MCTyped == ScriptLines \union SettingLines

-----------------------------------------------------------------------------
MCWord == [help |-> <<104>>, about |-> <<104, 104>>, clear |-> <<116>>, time |-> <<104, 116>>,
           halt |-> <<116, 116>>]
MCMessage == [banner |-> <<65, 82, 77>>, h1 |-> <<49>>, h2 |-> <<50>>, h3 |-> <<51>>,
              time |-> <<57, 57, 58, 57, 57, 58, 57, 57>>,
              halt |-> <<67, 80, 85>>, unknown |-> <<63>>]
MCHelp == <<"h1", "h2", "h3">>

-----------------------------------------------------------------------------
\* A name is set to values that no other is set to, one of them to two.
MCSettings == {<<"a", "x">>, <<"a", "w">>, <<"b", "y">>, <<"c", "z">>}

-----------------------------------------------------------------------------
VARIABLE part
Parts == {"window", "scripts", "settings", "variables", "monitor"}
allVars == <<part, vars, cliVars, tableVars, monVars>>

FrontEndsInit == part \in Parts /\ Init /\ CliInit /\ TableInit /\ MonInit

Kind == IF part = "scripts" THEN ScriptLines ELSE SettingLines
Typing == typedLines' = typedLines \/ Last(typedLines') \in Kind

Window == part = "window" /\ Next /\ UNCHANGED <<part, cliVars, tableVars, monVars>>
CliOnly == part \in {"scripts", "settings"} /\ UNCHANGED <<part, vars, tableVars, monVars>>
CommandLine == CliOnly /\ CliNext /\ Typing
Variables == part = "variables" /\ TableNext /\ UNCHANGED <<part, vars, cliVars, monVars>>
MonOnly == part = "monitor" /\ UNCHANGED <<part, vars, cliVars, tableVars>>

FrontEndsNext == Window \/ CommandLine \/ Variables \/ (MonOnly /\ MonNext)

\* The fairness of each part.
FrontEndsSpec ==
  /\ FrontEndsInit /\ [][FrontEndsNext]_allVars
  /\ WF_allVars(CliOnly /\ Work)
  /\ WF_allVars(MonOnly /\ Poll) /\ WF_allVars(MonOnly /\ Data)
=============================================================================
