-------------------------------- MODULE Monitor --------------------------------
(***************************************************************************)
(* The monitor firmware (src/firmware/monitor/monitor.s) with the host     *)
(* typing at any moment: into the window (WM_CHAR of vm/arm7-runx) the     *)
(* text characters, Enter, Backspace and Tab.  The keyboard is BoundedFifo *)
(* (KeyboardFifo implements it).  The guest reads STATUS in one step and   *)
(* DATA in the next; what it does with the character is its own memory     *)
(* only and belongs to the second.                                         *)
(*                                                                         *)
(* A cell of the screen is its character.  The registers: row is r7,       *)
(* cursor r6 (a row and a column), len r10, buf what r9 points to.  The    *)
(* digits of `time` are Rtc's.  History: typed, what the keyboard accepted; taken,   *)
(* what the guest read; ran, the last command.                             *)
(***************************************************************************)
EXTENDS Naturals, SequencesExt

CONSTANTS Text, Other,      \* characters 32..126; Tab
          Rows, Cols, InputMax, Capacity,
          Word,             \* [command -> its name]
          Message,          \* [message -> its text]
          HelpLines,        \* the messages of help
          MaxTyped          \* bound
ASSUME MonitorAssumption ==
  /\ Text \subseteq 32 .. 126 /\ Other \subseteq 0 .. 31 \ {8, 13}
  /\ Rows \in Nat /\ Rows > 3 /\ Cols \in Nat /\ Cols > 2 /\ InputMax \in Nat /\ Capacity \in Nat
  /\ Word \in [{"help", "about", "clear", "time", "halt"} -> Seq(32 .. 126)]
  /\ \A c \in DOMAIN Word : Len(Word[c]) <= InputMax
  /\ {"banner", "time", "halt", "unknown"} \subseteq DOMAIN Message
  /\ \A m \in DOMAIN Message : Message[m] \in Seq(Nat) /\ Len(Message[m]) <= Cols
  /\ HelpLines \in Seq(DOMAIN Message)

VARIABLES queue, reply, at, buf, len, row, cursor, screen, typed, taken, ran
monVars == <<queue, reply, at, buf, len, row, cursor, screen, typed, taken, ran>>

\* Characters by their codes.
CR == 13
BS == 8
Nul == 0
Blank == 32
Printable == 32 .. 126
Keys == Text \union Other \union {CR, BS}
Key == INSTANCE BoundedFifo WITH Byte <- Keys

-----------------------------------------------------------------------------
\* print_string_at
PrintAt(sc, r, text) ==
  [sc EXCEPT ![r] = [c \in 0 .. Cols - 1 |-> IF c < Len(text) THEN text[c + 1] ELSE @[c]]]

NormalizeRow(r) == IF r >= Rows THEN 0 ELSE r

\* print_prompt: two cells at the begin of the row, the others stay.
PromptText == <<62, Blank>>
Prompt(sc, r) ==
  /\ screen' = PrintAt(sc, r, PromptText)
  /\ row' = r /\ cursor' = <<r, 2>> /\ len' = 0 /\ at' = "poll"

\* _start: the banner on row 2, under those of the BIOS and of BOOT.
Dark == [r \in 0 .. Rows - 1 |-> [c \in 0 .. Cols - 1 |-> Blank]]
MonInit ==
  /\ queue = <<>> /\ reply = 0
  /\ screen = PrintAt(PrintAt(Dark, 2, Message.banner), 3, PromptText)
  /\ row = 3 /\ cursor = <<3, 2>> /\ len = 0 /\ at = "poll"
  /\ buf = [i \in 0 .. InputMax |-> Nul]
  /\ typed = <<>> /\ taken = <<>> /\ ran = "none"

-----------------------------------------------------------------------------
\* inject_keyboard_byte for a WM_CHAR: what is refused is lost.
WmChar(ch) ==
  /\ Len(typed) < MaxTyped /\ Key!Push(ch)
  /\ typed' = IF Len(queue) < Capacity THEN Append(typed, ch) ELSE typed
  /\ UNCHANGED <<at, buf, len, row, cursor, screen, taken, ran>>

\* Mutant: a full line does not read on.
PollWhileRoom ==
  /\ at = "poll" /\ len < InputMax /\ Key!Ready
  /\ at' = IF queue # <<>> THEN "data" ELSE "poll"
  /\ UNCHANGED <<buf, len, row, cursor, screen, typed, taken, ran>>
\* keyboard_poll: STATUS until it says READY.
Poll ==
  /\ at = "poll" /\ Key!Ready
  /\ at' = IF queue # <<>> THEN "data" ELSE "poll"
  /\ UNCHANGED <<buf, len, row, cursor, screen, typed, taken, ran>>

\* Mutant: the line is shorter, the cursor where it was.
BackspaceKeepsCell ==
  /\ IF len = 0 THEN UNCHANGED <<len, cursor>>
     ELSE len' = len - 1 /\ cursor' = cursor
  /\ at' = "poll" /\ UNCHANGED <<buf, row, screen, ran>>

HandleBackspace ==
  /\ IF len = 0 THEN UNCHANGED <<len, cursor, screen>>
     ELSE /\ len' = len - 1
          /\ cursor' = <<cursor[1], cursor[2] - 1>>
          /\ screen' = [screen EXCEPT ![cursor[1]][cursor[2] - 1] = Blank]
  /\ at' = "poll" /\ UNCHANGED <<buf, row, ran>>

\* A character that has no room in the line, or in the row, is dropped.
Room == len < InputMax /\ cursor[2] < Cols
HandleText(ch) ==
  /\ IF Room
     THEN /\ buf' = [buf EXCEPT ![len] = ch]
          /\ len' = len + 1
          /\ screen' = [screen EXCEPT ![cursor[1]][cursor[2]] = ch]
          /\ cursor' = <<cursor[1], cursor[2] + 1>>
     ELSE UNCHANGED <<buf, len, screen, cursor>>
  /\ at' = "poll" /\ UNCHANGED <<row, ran>>

\* streq, up to the terminator.
Streq(b, word) ==
  \A i \in 0 .. Len(word) : b[i] = IF i < Len(word) THEN word[i + 1] ELSE Nul

\* What a command prints from row r on: the screen and the row after it.
PutLine(p, m) == [sc |-> PrintAt(p.sc, p.row, Message[m]), row |-> NormalizeRow(p.row + 1)]
Printed(sc, r, messages) ==
  LET After[n \in 0 .. Len(messages)] ==
        IF n = 0 THEN [sc |-> sc, row |-> r] ELSE PutLine(After[n - 1], messages[n])
  IN  After[Len(messages)]
Answer(cmd, r) ==
  CASE cmd = "help"    -> Printed(screen, r, HelpLines)
    [] cmd = "about"   -> Printed(screen, r, <<"banner">>)
    [] cmd = "clear"   -> [sc |-> PrintAt(Dark, 0, Message.banner), row |-> 1]
    [] cmd = "time"    -> Printed(screen, r, <<"time">>)
    [] cmd = "unknown" -> Printed(screen, r, <<"unknown">>)

\* dispatch_command, in the order of the comparisons.
Order == <<"help", "about", "clear", "time", "halt">>
Dispatch(b) ==
  LET hits == {i \in DOMAIN Order : Streq(b, Word[Order[i]])}
  IN  IF hits = {} THEN "unknown" ELSE Order[CHOOSE i \in hits : \A j \in hits : i <= j]

\* The line ends, and the rows after it.
EndLine(b) ==
  LET r == NormalizeRow(row + 1)
      cmd == Dispatch(b)
  IN  /\ buf' = b
      /\ IF len = 0 THEN Prompt(screen, r) /\ UNCHANGED ran
         ELSE /\ ran' = cmd
              /\ IF cmd = "halt"
                 THEN /\ screen' = PrintAt(screen, r, Message.halt) /\ row' = r
                      /\ at' = "halted" /\ UNCHANGED <<cursor, len>>
                 ELSE Prompt(Answer(cmd, r).sc, Answer(cmd, r).row)
\* Mutant: the line is not terminated.
HandleEnterOpen == EndLine(buf)
HandleEnter == EndLine([buf EXCEPT ![len] = Nul])

Handle(ch) ==
  /\ taken' = Append(taken, ch)
  /\ CASE ch = CR -> HandleEnter
       [] ch = BS -> HandleBackspace
       [] ch \in Printable -> HandleText(ch)
       [] OTHER -> at' = "poll" /\ UNCHANGED <<buf, len, row, cursor, screen, ran>>
  /\ UNCHANGED typed
\* DATA, and the character.
Data == at = "data" /\ queue # <<>> /\ Key!Pop /\ Handle(Head(queue))

MonNext == (\E ch \in Keys : WmChar(ch)) \/ Poll \/ Data

\* The guest runs as long as it has not halted.
MonSpec == MonInit /\ [][MonNext]_monVars /\ WF_monVars(Poll) /\ WF_monVars(Data)

-----------------------------------------------------------------------------
\* The editor stays in the CRT, in its row and in its buffer.
MonTypeOK ==
  /\ at \in {"poll", "data", "halted"} /\ len \in 0 .. InputMax
  /\ row \in 0 .. Rows - 1 /\ cursor \in (0 .. Rows - 1) \X (2 .. Cols)
  /\ DOMAIN screen = 0 .. Rows - 1 /\ \A r \in 0 .. Rows - 1 : DOMAIN screen[r] = 0 .. Cols - 1

\* What a line editor with room for InputMax characters makes of the characters
\* typed since the last Enter, after each of them.
Edit(line, ch) ==
  CASE ch = CR -> <<>>
    [] ch = BS -> IF line = <<>> THEN line ELSE Front(line)
    [] ch \in Printable -> IF Len(line) < InputMax /\ Len(line) + 2 < Cols THEN Append(line, ch) ELSE line
    [] OTHER -> line
LinesOf(chars) ==
  LET After[n \in 0 .. Len(chars)] == IF n = 0 THEN <<>> ELSE Edit(After[n - 1], chars[n])
  IN  After
Line(chars) == LinesOf(chars)[Len(chars)]

\* Whenever keys come, in whichever batches, the line in the buffer and the
\* line on the screen are what those keys make of it.
EditsAsTyped ==
  at # "halted" =>
    LET line == Line(taken)
    IN  /\ len = Len(line) /\ cursor = <<row, 2 + len>>
        /\ \A i \in 1 .. len : buf[i - 1] = line[i] /\ screen[row][i + 1] = line[i]

\* Between STATUS and DATA, with a full queue or an empty one, no key that was
\* accepted is lost, doubled or overtaken.
KeysInOrder == typed = taken \o queue

\* What the line editor keeps at every moment.
EditorInv == MonTypeOK /\ EditsAsTyped /\ KeysInOrder

\* The command that runs is the one whose name the last line was, whatever
\* longer line was in the buffer before it.
Ends == {i \in DOMAIN taken : taken[i] = CR /\ LinesOf(taken)[i - 1] # <<>>}
RunsTheLine ==
  Ends # {} =>
    LET i == CHOOSE x \in Ends : \A y \in Ends : y <= x
        line == LinesOf(taken)[i - 1]
        named == {c \in DOMAIN Word : Word[c] = line}
    IN  IF named = {} THEN ran = "unknown" ELSE ran \in named

\* Everything typed is read in the end, unless the guest halts first.
AllIsRead == <>[](at = "halted" \/ queue = <<>>)
=============================================================================
