------------------------------- MODULE ArmRunCli -------------------------------
(***************************************************************************)
(* The arm7-run command line (vm/arm7-run/src/cli.c, main.c): one reader   *)
(* per open script over the one at the terminal, the commands and what     *)
(* they do to the machine through the library.  A command that takes       *)
(* time - step, run, examine - is a loop of its own.                       *)
(*                                                                         *)
(* A line is what eval_line made of it: a command, the file or expression  *)
(* it names and up to two numbers; its spelling is left out.  The guest is *)
(* HaltControl, which VmCore implements; registers and the guest's stores  *)
(* are not kept.  A cell of memory is the file, and which byte of it, it   *)
(* came from.                                                              *)
(*                                                                         *)
(* History: typedLines and done, the lines read at the terminal and all    *)
(* run; placed, the loads since the memory was last set; applied, the      *)
(* debug expression that was applied last.                                 *)
(***************************************************************************)
EXTENDS Integers, SequencesExt

CONSTANTS Typed,     \* lines a user types
          Script,    \* the script files: the lines of each
          Size,      \* the binaries that can be read: bytes of each; "bios" is built in
          Exprs,     \* debug expressions: sequences of [add, flag]
          DiskImages, LogFiles,  \* disk images and log files that can be opened
          Flags,
          Space,     \* the values of 32 bits
          DefaultRam, MaxAlloc, Fifo,
          MaxOpen,   \* scripts that can be open at once
          MaxLines   \* bound: lines typed

\* The lines there are.  Addresses and counts are read into 32 bits, the size of
\* memory into more; any text is a debug expression, Exprs has those in use.
Written == Typed \union UNION {{Script[f][i] : i \in DOMAIN Script[f]} : f \in DOMAIN Script}
ASSUME CliAssumption ==
  /\ Space \in Nat \ {0} /\ DefaultRam \in 1 .. Space - 1 /\ DefaultRam <= MaxAlloc
  /\ MaxAlloc \in Nat /\ MaxOpen \in Nat /\ MaxLines \in Nat /\ Fifo \in Nat
  /\ \A f \in DOMAIN Size : Size[f] \in Nat
  /\ "bios" \in DOMAIN Size /\ Size["bios"] <= DefaultRam
  /\ \A f \in DOMAIN Script : Script[f] \in Seq(Written)
  /\ \A l \in Written :
       /\ l.a \in Nat /\ l.b \in Nat
       /\ l.cmd \in {"load", "step", "run", "e"} => l.a < Space /\ l.b < Space
       /\ l.cmd = "set cpu debug" => l.file \in DOMAIN Exprs
  /\ \A x \in DOMAIN Exprs : Exprs[x] \in Seq([add : BOOLEAN, flag : STRING])
  /\ "NONE" \in DOMAIN Exprs /\ Exprs["NONE"] = <<[add |-> TRUE, flag |-> "NONE"]>>

VARIABLES levels, mode, mem, debug, trace, keys, disk, logfile, busy, typedLines, done, placed, applied
cliVars == <<levels, mode, mem, debug, trace, keys, disk, logfile, busy, typedLines, done, placed, applied>>
cliMachine == <<mem, debug, trace, keys, disk, logfile, placed, applied>>

Guest == INSTANCE HaltControl

Terminal == [file |-> "terminal", next |-> 1]
Reading == [loop |-> "none", at |-> 0, upto |-> 0]
Zeros(n) == [a \in 0 .. n - 1 |-> [file |-> "zero", off |-> 0]]

\* Mutant: a byte that does not fit is left out and the next one is tried.
FitsAny(to, file, at) == {i \in 0 .. Size[file] - 1 : (at + i) % Space \in DOMAIN to}
\* vm_load_binary, arm7vm_load_buffer: byte after byte up to the first that
\* does not fit, from an address that wraps.
Fits(to, file, at) == {i \in 0 .. Size[file] - 1 : \A j \in 0 .. i : (at + j) % Space \in DOMAIN to}
Laid(to, file, at) ==
  [a \in DOMAIN to |->
     IF \E i \in Fits(to, file, at) : (at + i) % Space = a
     THEN [file |-> file, off |-> CHOOSE i \in Fits(to, file, at) : (at + i) % Space = a]
     ELSE to[a]]

\* main: a machine with the built-in firmware at 0.
CliInit ==
  /\ levels = <<Terminal>> /\ busy = Reading
  /\ mode = "ready" /\ mem = Laid(Zeros(DefaultRam), "bios", 0)
  /\ debug = {} /\ trace = FALSE /\ keys = 0 /\ disk = "none" /\ logfile = "none"
  /\ typedLines = <<>> /\ done = <<>>
  /\ placed = <<[file |-> "bios", at |-> 0]>>
  /\ applied = "NONE"

-----------------------------------------------------------------------------
\* parse_debug_expr: item by item from nothing; -NONE is everything.
Bits(flag) == IF flag = "ALL" THEN Flags ELSE {flag} \intersect Flags
ApplyItem(out, item) ==
  IF item.flag = "NONE" THEN IF item.add THEN {} ELSE Flags
  ELSE IF item.add THEN out \union Bits(item.flag) ELSE out \ Bits(item.flag)
ParseDebug(items) ==
  LET first[n \in 0 .. Len(items)] ==  \* the flags after the first n items
        IF n = 0 THEN {} ELSE ApplyItem(first[n - 1], items[n])
  IN  first[Len(items)]

-----------------------------------------------------------------------------
Quiet == UNCHANGED cliMachine /\ UNCHANGED <<mode, busy>>

\* What returns 1: quit, and an examine without or with an unreadable range.
Exits(l) == l.cmd \in {"quit", "bad e"}

\* Comments and blank lines, help, show, version, regs, set pc and set rN, and
\* everything refused: nothing changes that is kept here.
CmdQuiet(l) == l.cmd \in {"blank", "show", "set reg", "unknown", "bad", "quit", "bad e"} /\ Quiet

CmdClrhalt(l) ==
  /\ l.cmd = "clrhalt"
  /\ Guest!ClearHalt \/ (mode \in {"ready", "latched"} /\ UNCHANGED mode)
  /\ UNCHANGED <<cliMachine, busy>>

\* vm_add_ram: what was there is gone, whether or not there is room for more;
\* the size is kept in 32 bits.
AddRam(l) ==
  /\ l.cmd = "set mem" /\ l.a > 0
  /\ mem' = IF l.a <= MaxAlloc THEN Zeros(l.a % Space) ELSE Zeros(0)
  /\ placed' = <<>>
  /\ UNCHANGED <<mode, busy, debug, trace, keys, disk, logfile, applied>>
NoRam(l) == l.cmd = "set mem" /\ l.a = 0 /\ Quiet

CmdLoad(l) ==
  /\ l.cmd = "load"
  /\ IF l.file \in DOMAIN Size
     THEN /\ mem' = Laid(mem, l.file, l.a)
          /\ placed' = Append(placed, [file |-> l.file, at |-> l.a])
     ELSE UNCHANGED <<mem, placed>>
  /\ UNCHANGED <<mode, busy, debug, trace, keys, disk, logfile, applied>>

CmdSetDebug(l) ==
  /\ l.cmd = "set cpu debug"
  /\ debug' = ParseDebug(Exprs[l.file])
  /\ applied' = l.file
  /\ UNCHANGED <<mode, busy, mem, trace, keys, disk, logfile, placed>>

\* `set debug=...` in one word is no setting that cmd_set knows: it looks for
\* the word `debug` alone.
CmdSetDebugOneWord(l) == l.cmd = "set debug=" /\ Quiet

CmdSetTrace(l) ==
  /\ l.cmd = "set trace" /\ trace' = (l.a = 1)
  /\ UNCHANGED <<mode, busy, mem, debug, keys, disk, logfile, placed, applied>>

CmdKey(l) ==
  /\ l.cmd = "key" /\ keys' = IF keys < Fifo THEN keys + 1 ELSE keys
  /\ UNCHANGED <<mode, busy, mem, debug, trace, disk, logfile, placed, applied>>

CmdAttach(l) ==
  /\ l.cmd = "attach" /\ disk' = IF l.file \in DiskImages THEN l.file ELSE disk
  /\ UNCHANGED <<mode, busy, mem, debug, trace, keys, logfile, placed, applied>>

\* log_set_file keeps the old file when the new one cannot be opened; the
\* command does not ask.
CmdLogfile(l) ==
  /\ l.cmd = "logfile" /\ logfile' = IF l.file \in LogFiles THEN l.file ELSE logfile
  /\ UNCHANGED <<mode, busy, mem, debug, trace, keys, disk, placed, applied>>

\* step N (0 is 1), run, and e with its ends in order.
CmdLoop(l) ==
  /\ l.cmd \in {"step", "run", "e"}
  /\ busy' = [loop |-> l.cmd,
              at   |-> IF l.cmd = "e" /\ l.b < l.a THEN l.b ELSE l.a,
              upto |-> IF l.cmd = "e" /\ l.b < l.a THEN l.a
                       ELSE IF l.cmd = "step" /\ l.b = 0 THEN 1 ELSE l.b]
  /\ UNCHANGED <<cliMachine, mode>>

CliCommand(l) ==
  \/ CmdQuiet(l) \/ CmdClrhalt(l) \/ AddRam(l) \/ NoRam(l) \/ CmdLoad(l)
  \/ CmdSetDebug(l) \/ CmdSetDebugOneWord(l) \/ CmdSetTrace(l) \/ CmdKey(l) \/ CmdAttach(l) \/ CmdLogfile(l) \/ CmdLoop(l)

-----------------------------------------------------------------------------
AtPrompt == Len(levels) = 1 /\ busy.loop = "none"
Running == Len(levels) > 0

\* cmd_do: a reader of its own over this one; its lines come next.  One script
\* too many cannot be opened.
Opens(l) == l.cmd = "do" /\ l.file \in DOMAIN Script /\ Len(levels) <= MaxOpen

\* Mutant: quit in a script ends the scripts around it as well.
AfterLineQuitsAll(l, here) ==
  IF Exits(l) THEN <<>>
  ELSE IF Opens(l) THEN Append(here, [file |-> l.file, next |-> 1]) ELSE here
\* cli_run: a line that returned 1 ends the reader it was read by, and no other.
AfterLine(l, here) ==
  IF Exits(l) THEN Front(here)
  ELSE IF Opens(l) THEN Append(here, [file |-> l.file, next |-> 1]) ELSE here

Evaluate(l, here) ==
  /\ done' = Append(done, l)
  /\ levels' = AfterLine(l, here)
  /\ IF l.cmd = "do" THEN Quiet ELSE CliCommand(l)

ReadTerminal(l) ==
  /\ AtPrompt /\ Len(typedLines) < MaxLines
  /\ typedLines' = Append(typedLines, l)
  /\ Evaluate(l, levels)

Lines == Script[Last(levels).file]
InScript == Len(levels) > 1 /\ busy.loop = "none"
ReadScript ==
  /\ InScript /\ Last(levels).next <= Len(Lines)
  /\ Evaluate(Lines[Last(levels).next], [levels EXCEPT ![Len(levels)].next = @ + 1])
  /\ UNCHANGED typedLines
ScriptEnds ==
  /\ InScript /\ Last(levels).next > Len(Lines)
  /\ levels' = Front(levels)
  /\ UNCHANGED <<cliMachine, mode, busy, typedLines, done>>

\* A step of the guest: it may take keys.
GuestStep == Guest!Step /\ keys' \in 0 .. keys
Still == UNCHANGED <<levels, mem, debug, trace, disk, logfile, placed, applied, typedLines, done>>

\* Mutant: only steps that succeed are counted.
StepLoopCountsSuccess ==
  /\ busy.loop = "step"
  /\ IF busy.upto = 0 THEN busy' = Reading /\ UNCHANGED <<mode, keys>>
     ELSE IF mode \in {"faulted", "broken"} THEN UNCHANGED <<mode, keys, busy>>
     ELSE GuestStep /\ busy' = [busy EXCEPT !.upto = @ - 1]
  /\ Still
\* cmd_step: up to upto steps, fewer if one fails; a step that halts fails.
StepLoop ==
  /\ busy.loop = "step"
  /\ IF mode \in {"faulted", "broken"} \/ busy.upto = 0
     THEN busy' = Reading /\ UNCHANGED <<mode, keys>>
     ELSE GuestStep /\ busy' = [busy EXCEPT !.upto = @ - 1]
  /\ Still
\* vm_run without a limit.
RunLoop ==
  /\ busy.loop = "run"
  /\ IF mode \in {"faulted", "broken"} THEN busy' = Reading /\ UNCHANGED <<mode, keys>>
     ELSE GuestStep /\ UNCHANGED busy
  /\ Still

\* cmd_examine: a byte a turn, up to and with the end; the counter has 32 bits.
ExamineLoop ==
  /\ busy.loop = "e"
  /\ busy' = IF busy.at <= busy.upto THEN [busy EXCEPT !.at = (@ + 1) % Space] ELSE Reading
  /\ UNCHANGED <<mode, keys>> /\ Still

\* No more input at the terminal.
EndOfInput ==
  /\ AtPrompt /\ levels' = <<>>
  /\ UNCHANGED <<cliMachine, mode, busy, typedLines, done>>

Work == ReadScript \/ ScriptEnds \/ StepLoop \/ ExamineLoop
CliNext == (\E l \in Typed : ReadTerminal(l)) \/ EndOfInput \/ Work \/ RunLoop

\* The program computes as long as it has something to do; the user need not
\* type, and the guest of a `run` need not halt.
CliSpec == CliInit /\ [][CliNext]_cliVars /\ WF_cliVars(Work)

-----------------------------------------------------------------------------
\* Never more memory than was allocated, nor more scripts than can be open.
CliTypeOK ==
  /\ Len(levels) <= MaxOpen + 1 /\ mode \in Guest!Modes
  /\ \E n \in 0 .. MaxAlloc : DOMAIN mem = 0 .. n - 1
  /\ keys \in 0 .. Fifo /\ debug \subseteq Flags /\ trace \in BOOLEAN
  /\ busy.loop \in {"none", "step", "run", "e"} /\ busy.at \in 0 .. Space - 1

\* What lines amount to when a script they run amounts to `inner` of it: a `do`
\* is the line itself and then the script's, and a line that ends a reader is the
\* last.  LastOnes: the last n of the lines.
Deeper(l, inner) == IF l.cmd = "do" /\ l.file \in DOMAIN Script THEN inner[l.file] ELSE <<>>
LastOnes(lines, inner) ==
  LET last[n \in 0 .. Len(lines)] ==
        IF n = 0 THEN <<>>
        ELSE LET l == lines[Len(lines) - n + 1]
             IN  IF Exits(l) THEN <<l>> ELSE <<l>> \o Deeper(l, inner) \o last[n - 1]
  IN  last
Amount(lines, inner) == LastOnes(lines, inner)[Len(lines)]

\* What each script amounts to when `room` more can be open, itself included.
Whole[room \in 0 .. MaxOpen] ==
  [f \in DOMAIN Script |-> IF room = 0 THEN <<>> ELSE Amount(Script[f], Whole[room - 1])]
Expand(lines) == Amount(lines, Whole[MaxOpen])

\* Running scripts is typing their lines: when the prompt is back, or never will, exactly
\* the lines the user's own lines stand for have been run, in order, however
\* deep the scripts were, whatever failed in them, and whichever of them quit.
DoIsTyping == Len(levels) <= 1 /\ busy.loop = "none" => done = Expand(typedLines)

\* Every byte of memory is of the last file laid over it, or of no file: a load
\* that met the end of memory leaves the part that fits and nothing else, and
\* the firmware is there until something is laid over it or memory is set.
LastLoaded ==
  \A a \in DOMAIN mem :
    LET over == {k \in DOMAIN placed :
                   a \in placed[k].at .. placed[k].at + Size[placed[k].file] - 1}
        k == CHOOSE x \in over : \A y \in over : y <= x
    IN  mem[a] = IF over = {} THEN [file |-> "zero", off |-> 0]
                 ELSE [file |-> placed[k].file, off |-> a - placed[k].at]

\* Of a debug expression the last item that speaks of a flag decides it.
LastItemDecides ==
  LET items == Exprs[applied]
      speaks(f) == {i \in DOMAIN items : f \in Bits(items[i].flag) \/ items[i].flag = "NONE"}
  IN  \A f \in Flags :
        f \in debug <=>
          \E i \in speaks(f) : /\ \A j \in speaks(f) : j <= i
                               /\ items[i].add <=> items[i].flag # "NONE"

\* What the command line keeps at every moment.
CliInv == CliTypeOK /\ LastLoaded /\ LastItemDecides

\* Every command comes back, and every script to its end, unless the guest runs
\* on: always again there is a prompt, or the session is over, or a `run` is.
PromptComesBack == []<>(AtPrompt \/ ~Running \/ busy.loop = "run")
=============================================================================
