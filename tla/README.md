# Specifications of the ARM7 emulator

TLA+ models of the emulator in this repository, the TLC runs that check them on
small instances and the theorems TLAPS proves about them. `PROJECT.json` lists
the runs, maps every definition to the lines it models, and names the hazards
each property is there for. Paths below are relative to the repository.

## The system

A host program (`vm/arm7-run`, a command line; `vm/arm7-runx`, a window) owns
one machine through `libarm7vm`, runs guest instructions on it, and between
instructions resets it, loads programs, types characters and attaches disks.
There is one thread: host calls never meet a running `vm_run`, but the window
runs the guest in timer slices, so that every host call can fall between any two
guest instructions. Device state is process-wide (`static`), not per machine.

| Component | State | Operations | What is hard | What makes it correct |
|---|---|---|---|---|
| Execution control `vm.c`, `execute.c`, `cpu.c` | registers, npc, PSRs; halt latches `vm->halted` and `cpu.halted`; RAM | step, run, reset, clear halt, set register, load, add RAM | two latches, breakpoints that stop on themselves, faults, budgets | one stopping protocol; a stop is exact; a run is exact |
| Instruction decoder `execute.c` | sorted candidate lists for 4096 keys | build, decode | a row that shadows another or is pushed out of a list of 16; conditions looked at row by row | the best matching row runs |
| Data path `alu.c`, `logic.c`, `operand.c` | registers, NZCV | arithmetic, logic, compares, multiplies, Operand2 | flags are a message to a later instruction; shifts by 0, the width and more | comparisons tell every condition; carries reach the next word |
| Loads and stores `memops.c`, `ctx_helpers.h` | registers, RAM | single, halfword, double, multiple, swap; all addressing modes | start, order and final base; the end of RAM; r15 as base | a load sees the store; LDM undoes STM |
| Exceptions and branches `branch.c`, `system.c` | PSRs, LR | B, BL, BX, SVC, MRS, MSR, returns | one SPSR and one LR for all modes | returns return; PC stays even |
| Keyboard `dev_keyboard.c` | ring of 64 bytes, cursors, count | push, count, STATUS, DATA, reset, lazy init | host and guest interleave; full, empty, wrap | a bounded FIFO |
| disk0 `dev_disk.c`, `disk_manager.c`, `mem.c` | LBA, COUNT, STATUS, buffer, image | register accesses, attach | image swapped under a command; window answers only when present | status and buffer belong to the last command |
| Memory bus, UART `mem.c`, `dev_uart.c` | RAM, which devices are there | byte, half and word accesses | windows over RAM that only word accesses see | RAM below a window is kept; views of RAM agree |
| Clock `dev_rtc.c` | freeze, write enable, snapshot | read, set, freeze, clear | split set, latched reads, time that passes between accesses | reads of one freeze are one time; time does not go back |
| Device table `hw_bus.c` | windows, scales | attach, find, read, write, tick | ends that wrap | one device answers |
| Boot chain `firmware/bios`, `firmware/boot` | registers, RAM | find and load BOOT.BIN, then MONITOR.BIN | directory boundaries, stale device, swap in mid-boot | ends as the image calls for; whole file in place |
| Monitor `firmware/monitor` | line buffer, cursor, screen | poll, echo, dispatch, commands | keystrokes against the loop; row and screen wrap | the line, the screen and the command are what was typed |
| Window `vm/arm7-runx` | running, prepared, selections, timer | commands, dialogs, timer slices | slices against stop, reset and dialogs; a preparation that fails half-way | the machine run is the one prepared |
| Command line `vm/arm7-run` | readers of scripts, settings, session variables | commands, scripts, variables | scripts in scripts, failures in them, allocation failures | a script is its lines typed; the table is a map |

## Modules

A component has one module; an `MC` module gives several components of one layer
their constants and runs them in one model. In those, the variable `part` is chosen
once and says which component a behaviour is about; the others keep their first
state. The parts do not interact: they share a run because each is small.

    HaltControl    <- VmCore            <- MCVmCore
    DiskController <- SimpleFlatLoader  <- MCSimpleFlatLoader

    BoundedFifo    <- KeyboardFifo      \
    DiskController <- DiskSystem         \
                      Rtc                 >  MCDevices
                      HwBus              /
                      MemRouting        /

        K12Table, K12Decode             \
    AluFlags, Shifter <- DataPath        >  MCInstructions
                      Exceptions        /

    Shifter        <- LoadStore, ShiftSteps  \  MCTransfers
    LoadStore, FrameStack <- CallStack       /

                      RunxSession  <- MCRunxSession  \
    HaltControl    <- ArmRunCli                       >  MCFrontEnds
    VarMap         <- SessionVars                    /
    BoundedFifo    <- Monitor                       /

Proofs are in modules of their own, one per layer:

| Module | Proves about |
|---|---|
| `ExecutionProofs` | `VmCore`; `CallStack`, with the block transfers of `TransfersProofs` |
| `SimpleFlatLoaderProofs` | `SimpleFlatLoader` |
| `DevicesProofs` | `KeyboardFifo`, `DiskSystem`, `Rtc`, `HwBus`, `MemRouting` |
| `InstructionsProofs` | `K12Decode`, `AluFlags`, `DataPath`, `Exceptions` |
| `ShifterProofs` | `Shifter`, `ShiftSteps` |
| `TransfersProofs` | `LoadStore` |
| `FrontEndsProofs` | `RunxSession`, `SessionVars`, `Monitor`, `ArmRunCli` |
| `ArithmeticLemmas` | remainders, powers of two, induction and recursion over an interval: what the others cite |

The abstract specifications are `HaltControl` (how a machine stops), `BoundedFifo`
(the keyboard), `FrameStack` (calls and returns), `VarMap` (variables). The
detailed modules implement them by refinement mappings: `RefinesHaltControl`,
`RefinesFifo`, `FramesKept`, `ImplementsMap`. `ArmRunCli` and `Monitor` are then
built on the abstract machine and the abstract keyboard, not the detailed ones.

**VmCore.** `cpu` is the part of `CPU` that decides where execution goes; `code`
is RAM, one *kind* of instruction per word. A kind is an instruction by what it
does to PC, LR, the PSRs and the latches; a value it takes from a register or from
memory is any member of `Values`, and since flags are not kept a conditional
instruction may or may not be taken. `CpuExecute` is `cpu_execute`: npc is seeded,
the handler runs, the commit follows unless the CPU is latched. Some handlers write
`r[15]` itself instead of npc (`WritesR15`): byte and halfword loads, SWP, MUL, RBIT
and USAT with Rd = PC (memops.c:51, 278, 373, 618; alu.c:447; logic.c:423), LDRD when
one of its registers is PC (memops.c:373; with Rd = PC the second word lands past the
array, on the CPSR), and the write-back of a base that is PC (memops.c:35, 112, 238),
alone or with a load of PC or LR. The commit overwrites such a value; a latched CPU
keeps it, which `PcIsEven` and `LatchedCpuStays` allow for. `VmStep` is one call; `vm_run` is `VmRun`, then `RunIteration`s, then `RunReturns`. Host calls are
disabled while it runs, as one thread makes them. An instruction without a handler
commits PC even when the CPU is latched.

**K12Table, K12Decode.** `K12Table` is the rule table row by row, with the pattern of a
row as the set of its one bits. The table is a parameter of `K12Decode`, where `Build`
puts one row after the other into the list of one key by the insertion of
`k12_build_table`, and `Decode` decodes an instruction word with that key. Words are
chosen so that each combination of rows that a key's exact masks can tell apart
occurs (`Samples`).

**AluFlags, Shifter, DataPath.** `AluFlags` is one operator per arithmetic handler,
from operands to result and flags; `Shifter` is Operand2 and the shifted offset.
`DataPath` composes them: any sequence of the reachable instructions over registers
and flags, and the conditional ones after them. `told` is history: which sum or
difference C still speaks of. `ShiftSteps` takes the answer of the code for a shift
and then makes the same shift one bit at a time.

**LoadStore, CallStack.** Each handler is an operator from state to state, over bytes
of RAM with the bounds checks of `mem.c`; `wrote` is history, a store that nothing
overlapped. The loops of the block transfers are recursive functions from the number
of registers looked at to the state then. `CallStack` uses the block transfers for
nested calls in the four indexing modes, with a body that computes and stores outside
of the stack's bytes (`Elsewhere`); the frames exist only as bytes of RAM.

**Exceptions** keeps all fields of the PSRs: SVC, return, MRS, MSR, calls and flag
setting in any order. `svc` is history: the last supervisor call.

**KeyboardFifo.** One variable per field of `g_kbd` (`base` is a constant of the
build) and `reply`, what the last call returned. One action per function;
`dev_keyboard_read32` is one action per register. A device used before any machine
was created initialises itself, and the byte that did it is the first in the ring.

**DiskController** has the registers, the image slot behind them and the routing
of `mem.c` in front; `DiskSystem` puts it between a guest and a host that do
anything. `asked` is a history variable: the image and LBA of the last READ|GO.
A sector is a model value; an image is a sequence of them. `mem.c` gives the
window to the device only while an image is present; `shadow` is the RAM the
stores reach before. Both front ends give the machine more RAM than the address of
the window, which is `Shadowed = TRUE` in the runs.

**Rtc** has host time passing between any two accesses, the two sides of freezing,
and the three loads of the monitor's `time` as steps of their own. **MemRouting**
takes every access of `mem.c`, word by word and byte by byte, with the windows over
RAM; a device is there the register an access reached. **HwBus** is the table of
`hw_bus.c` with addresses that wrap; nothing in the program attaches a device to it
yet, so `Catalog` says what may be.

**SimpleFlatLoader** is `bios.s` and `boot.s`, the same program with two sets of
constants (`stage`). `g` holds the registers, with `pc` naming a label; every
store to the device is a step of its own, so a host attach falls between any two.
A sector is what the loaders would read in it as a header and as a directory. RAM
is counted in sectors, lengths in bytes modulo `Modulus`. A copy of a sector is one
step: the buffer only changes through stores of the guest that is copying it.
`clean` is history: the image has not changed since this boot began. A copy is
stored in RAM or nowhere: a file of more than 140 MB, whose copy would reach the
windows of the UART and of the disk (0x09000000 and 0x0B000000; mem.c:176, 183) and
write the devices, is left out.

**Monitor** reads STATUS in one step and DATA in the next, with the host typing in
between; the rest of the loop touches only the guest's memory and belongs to the
second step. Registers r6, r7, r9, r10 are `cursor`, `row`, `buf`, `len`. `typed`
and `taken` are history: keys the keyboard accepted, keys the guest read.

**ArmRunCli** has one level per open script (`levels`) over the reader at the
terminal. A line is what `eval_line` made of it. A command that takes time is a loop
of its own (`busy`). `placed` and `applied` are history: the loads since memory was
last set, the last debug expression. **SessionVars** is the array of pointers of
`session.c` over a heap whose every allocation may fail.

**RunxSession** is the window of `vm/arm7-runx`. A handler is one step, but a file
dialog pumps messages, so the timer goes on between `OpenDialog` and `ChooseImage`
or `Cancel`; and a posted WM_TIMER outlives KillTimer (`posted` against `timer`).
These two are how Windows behaves and are marked external. `prepare_machine` is
three operators, as it ends: `PrepareSucceeds`, `PrepareFailsAt` (reset, some slots
loaded, the failing one untouched or torn, `g_prepared` as it was) and
`PrepareRefused`. `ram` is what the front end last stored for a slot; images that
overlap the next slot are left out.

## Runs

| Run | Part | Shows | Bounds |
|---|---|---|---|
| `vm_core` | | latches refine `HaltControl`; breakpoint and fault stops are exact; a latched CPU commits nothing: only an unknown word, or one that writes r15 past npc, moves its PC; budgets are exact and bounded runs return; the PC of a CPU that is not latched stays even | 3 words of RAM in a 4-word space: the vectors, a PC outside RAM, wrap-around; five programs, overlapping each other and the end of RAM, one for a latched CPU that writes r15; a PC between two words, where any kind may be decoded; budgets 0, 1, 2: none, one and several iterations |
| `boot_loader` | | both loaders end as the image calls for, with the whole file in place, over their own code never | 15 images: directories of one and two sectors ended by count or by the disk, files empty, short, past the disk, over the buffers, with a length that wraps; 3 host calls anywhere (attach, swap, restart) |
| `devices` | keyboard | the ring refines `BoundedFifo` | 3 slots, bytes 0, 65, 66: 0 is also what an empty ring answers, and two others tell order |
| | disk | what DRQ and ERR mean; buffer, image and window are never lost | images of two and one sectors, an unreadable one; LBA in range, at the end, past it; commands with READ, GO, both |
| | clock | one freeze is one time; time never goes back | times 0 to 2 in two digits, so that a field wraps |
| | memory | views of RAM agree, RAM below the disk window is kept | 22 bytes of RAM, four windows over and behind it, accesses at every address, 2 stores |
| | table | one device answers | two devices, every window of size up to 3 in a space of 6 |
| `instructions` | decoder | the best row is kept and runs, whatever the key; conditions gate | all 4096 keys |
| | data path | comparisons tell every condition, carries reach the next word, in any sequence of instructions | two registers of two bits, every value |
| | supervisor | a call comes back with its status | two statuses that differ in every field, 5 steps |
| `transfers` | transfers | each load sees the last store; a block transfer is its single transfers | 4-bit words, 8 bytes of RAM of 16 addresses, bases in RAM and at the end of the address space, indexing to what is off a word and wraps, 2 transfers |
| | shifts | a shift by n is n shifts by one | 4-bit words, every value and amount |
| | calls | nested calls bring registers back in all four modes | two saved registers, room for 3 words, stores next to it on either side |
| `front_ends` | window | a running machine is prepared, a prepared one configured; stale timer messages start nothing | 3 slots, 2 files: a load fails before, at, after the start slot |
| | scripts, settings | a script is its lines typed; memory is the last files loaded; the prompt comes back | 3 lines typed of 9 and 13, scripts in scripts, one that runs itself, one that quits; loads at the end of RAM and of the address space |
| | variables | the array is a map, every block is owned once | 3 names, 4 settings, growth 1 to 2 to 4 |
| | monitor | line, screen and command are what was typed; all keys are read | 5 keys of 5, queue of 2, line of 2, rows of 8, screen of 4 |
| `clear_halt`, `dp_writes_pc`, `no_disk`, `step_configured`, `set_clock`, `torn_time` | | the six findings, below | as above |

The bounds hide little that the properties tell apart: all safety properties are proved
for every value of the constants. In the loaders, three host calls
are enough for attach, swap and restart in any order, and with 2 entries and 2
bytes to a sector every rounding case occurs. In the data path, two bits have both
signs, both extremes and every combination of flags; that a word of any size does the
same is proved. In the decoder the table is the real one with every key; that the
words not tried do the same is proved.

`CHECK_DEADLOCK FALSE` is given where the model stops: after a loader's error or
with its host calls used up, after the counted steps of supervisor calls and
transfers, after a shift's last bit.

**Fairness.** `vm_run` is a loop of one thread: `WF` of its iteration and its
return. The guest of the loaders: `WF` of its step, as the front end goes on giving
it slices; likewise `Poll` and `Data` of the monitor. `Work` of the command line
(the next line of a script, the next iteration of a command) is code of one thread;
what the user types is not fair, nor is any host call.

## Findings

* `clear_halt`: `vm_clear_halt` (vm.c:182-185) resets one of the two latches, so
  after a breakpoint a cleared machine executes the breakpoint again; "clear CPU
  halt" (cli.c:126) does not.
* `dp_writes_pc`: arithmetic with Rd = PC neither branches nor returns
  (alu.c:14-25, execute.c:406-407, cpu.c:75-79). Logic instructions do, by another
  helper (logic.c:59-72).
* `no_disk`: without an image the device is not on the bus (mem.c:140, 183); the
  command is lost in RAM, STATUS reads 0, and the BIOS polls for ever instead of
  showing its error. `StartsClean` is the other half: nothing is half remembered.
* `step_configured`: a Start that fails in the middle leaves `g_prepared` from an
  earlier success (main.c:434-444, 452), so Step (main.c:592) executes a reset,
  half-loaded machine, although "`Step One` prepares the configured machine first
  when necessary" (README.md of arm7-runx). `PreparedIsCurrent` holds otherwise.
* `set_clock`: a time that was set is in the snapshot only and is forgotten when the
  clock is let go (dev_rtc.c:91).
* `torn_time`: the monitor's `time` reads three fields without freezing
  (monitor.s:270) and can show a time that never was.

### Other divergences

The models keep these as the code has them, and the properties above are stated
around them; no run is spent on them.

| Where | The code | Said otherwise by |
|---|---|---|
| alu.c:119, 170-172, 221-223 | V of ADC, SBC, RSC is computed from the wrapped second operand plus carry; `AdcOverflowExact`, `SbcOverflowExact` prove when it is wrong | tests/01-core-iset/001_test_adc/test_adc.s:43 |
| logic.c:88 | ORR reads r15 as first operand without the +8 | operand.c:27 |
| ctx_helpers.h:50 | ASR #0 in a register offset leaves the register as it is | operand.c:82, for the same encoding |
| execute.c:55 | plain MUL falls to the row of AND: the key of this row has S = 1, so only MULS matches it | "S-agnostic", execute.c:54 |
| execute.c:109, 143 | LDRSB and LDRD have one priority and words in common; the order of the table decides | "order not critical", execute.c:52 |
| execute.c:139 | the row of MSR SPSR matches no word | execute.c:137 |
| execute.c:87, vm.c:28-53 | CPS never runs: condition 1111 never holds | tests/01-core-iset/145_test_cps/test_cps.s:12 |
| memops.c:51, 238; execute.c:401 | LDRB and others with Rd = PC, and write-back to PC, change r15 past npc: lost by the commit, kept, perhaps odd, by a latched CPU | "instead of touching r15 directly", memops.c:3 |
| memops.c:578 | STR with a register offset ignores U and never writes back | tests/03-misc/misc/x_test_str_regoffset/test_str_regoffset.s:16 |
| mem.c:75 | a byte stored to the UART goes to RAM or nowhere | tests/03-misc/misc/34_test_uart_write/test_uart_write.s:28 |
| hw_bus.c:24 | a window that ends at 2^32 is attached over others | "returns false on overlap", include/hw.h:26 |
| arm7-run/src/cli.c:278 | examine up to 0xFFFFFFFF does not end | usage, cli.c:236 |
| cli.c:237, 251, 256 | examine with a bad range ends the session or script | "quit", cli.c:133 |
| vm.c:83 | a size of 4G is stored as 0 | "clamped", vm.c:77 |
| cli.c:454 | a log file that does not open is reported as in use | "Logging to", cli.c:455 |
| cli.c:579 | `set debug=` is an unknown setting | usage, cli.c:531 |
| system.c:65 | SVC overwrites the caller's r14 | "LR_<svc>", system.c:63 |
| system.c:18-44 | user mode writes mode and masks by MSR | "masks fields per privilege", system.c:121 |

## What is proved

Every theorem is for all values of the constants that satisfy the named
assumptions. Most of these only give the constants their types. Those that say more:

* `SimpleFlatLoader`: what a sector holds as header or entry is a register
  (`FieldsAssumption`), the two programs are loaded one after the other in RAM, and
  an image has fewer bytes than a register counts, since its size came through
  `ftell` (`ImageAssumption`).
* `MemRouting`: the windows begin at whole words (`WindowAssumption`), as those of the
  program's map do.
* `LoadStore`: a word is four bytes, and the slots of all registers fit in the address
  space (4 * 16 of 2^32 in the program).
* `CallStack`: a word is four bytes, calls save registers out of r0 to r12, the slots
  of the saved registers fit in the address space, the bytes the stack may take are in
  RAM, and the body stores wherever it wants outside of those (`CallStackAssumption`).
* `K12Decode`: no key has more than 16 candidates in the table, and its rows without a
  condition check have the handlers of the unconditional space (`TableAssumption`). TLC
  evaluates this over the program's table and all 4096 keys on each run of `instructions`;
  the most candidates there are 12.
* `DataPath`: the word of `AluFlags` is that of `Shifter`.
* `Monitor`: the names of commands are printable and fit the buffer, the messages fit
  a row, and the two control keys are no text.
* `RunxSession`: `LoadOrder` names every slot.
* `ArmRunCli`: the addresses and counts of a line have the width the code reads them
  into, the firmware fits the memory at the start, and that is smaller than the
  address space; a debug expression is one of `Exprs` (`CliAssumption`).

`VmPcIsEven` has a hypothesis besides, that the host sets even addresses (a user of
the command line may not).

The arguments, by module:

* `ExecutionProofs`. *VM*: `TypeOK` is enough as invariant: each execution is classified once
  (`ExecuteOutcome`: it latches only by a breakpoint, a latched CPU keeps PC unless
  the word is unknown or writes r15 past npc), and the refinement and each action property follow from the
  classification. `VmRunsItsBudget` adds "the count never passes the budget";
  `VmPcIsEven`, that a CPU that is not latched has no reason to stop and so commits
  (`Committing`), that the space has an even size, so wrapping keeps parity, and that
  what each handler leaves in npc is masked, or even plus even. *Calls*: the invariant is that
  r13 is as far from the bottom as the frames take and that the words of every frame
  lie where its call put them, each register at the place its rank in the list gives
  it, so that words of different calls are apart; a call writes above or below all of
  them, and a return reads the last frame back. How high the stack is, is the number of
  pairs of a call and a register it saved, so that no sum over the calls is needed.
* `SimpleFlatLoaderProofs`. `TypeOK`, `OutcomeIsExpected` and `LoadedInPlace` are one
  invariant, `Anyway /\ Undisturbed`. `Anyway` holds whatever the host does: the
  registers in range, each program where it runs, nothing loaded over the loader.
  `Undisturbed` is under `clean` and has one part per phase: what the controller shows
  is what was asked (`Controller`), the entries passed so far are not the file
  (`Searching`), the sectors copied so far are in place (`Loading`), and a stop or a
  jump is the expected one (`Ending`).
* `DevicesProofs`. *Keyboard*: consistency of the cursors alone is inductive, but the
  refinement needs `TypeOK` and an absent device being empty too: a push writes slot
  `tail`, which must be the one after the last of the queue, and lazy initialisation
  must map to a queue that was empty. *disk0*: `TypeOK` with the statements about
  STATUS, which speak of the image at the time of the command and are not disturbed by
  an attach, and `StartsClean`, for the attach that initialises. *Clock*: reads since
  a freeze are fields of the snapshot and, while no time was set, snapshots are past
  times and no read is ahead of what is shown. *Device table*: `AllApart`; what the
  overlap test compared are the windows themselves as long as neither end wraps, and
  each pair is compared once, when its later member comes. *Memory*: types and
  `KeptUnderDisk`; that the three widths are one memory is then a fact about
  remainders.
* `InstructionsProofs`. *Decoder*: the list is sorted and holds the rows considered so
  far, each once (`ListOf`); its length is how many they are, so that there is room for
  one more and nothing is pushed out. Insertion puts a later row behind those of its
  priority, so the first that fits a word is the best of the whole table, for any word
  (`DecodesEveryWord`), of which the run tries samples. *Flags*: after SUB or CMP every condition is the relation its
  name says; ADD then ADC, and SUB then SBC, are the arithmetic of two words; and
  exactly when the V of ADC and of SBC is signed overflow. *Data path*: `FlagsTold`
  needs more than it says: that the result recorded for a low word is that of ADD or
  SUB (`LowWordTold`), from which the ADC or SBC after it makes an exact pair
  (`PairTold`), and what every flag says of it meanwhile (`OrderTold`, `CarryTold`). *Exceptions*:
  the one SPSR and LR are still the open call's while its handler kept them.
* `ShifterProofs`. The invariant of `ShiftSteps` is the closed form of value and
  carry after any number of one-bit steps (`ValAfter`, `CarryAfter`); the code's answer,
  with its cases for 0, the width and more, and the low byte of a register amount, is
  that form at the end. RRX is one step of another kind.
* `TransfersProofs`. `LoadStoreInv` needs only its type and that the remembered store
  lies in RAM as it was stored (`Lies`): each handler is shown to store a block of bytes or to store none
  (`Stores`), and a block that overlaps no other keeps it. For `MultipleIsSequence`
  the loop of LDM and STM gets a closed form; the registers' slots are apart because
  they fit in the address space; and the RAM after the stores is the only one that
  holds what was stored and otherwise what was there (`Written`), so that the order
  of single transfers does not matter. As push and pop: STM writes its words next to
  r13 and nothing else (`Pushes`), LDM in the mirrored mode reads words from the same
  places and moves r13 back (`Pops`, `MirrorReturns`).
* `FrontEndsProofs`. *Window*: the four properties are inductive together: a
  preparation loads every slot of `LoadOrder`, which names all slots, so it ends
  `Current`; selections clear `prepared`; everything else leaves configuration, RAM
  and PC alone. *Variables*: the invariant says of the heap that its blocks are
  exactly those the table points to, each once (`Apart`), and of the table that it
  names each name once; the map is then what `get` finds, and each call is a call of
  `VarMap` or a failure. *Monitor*: buffer, cursor and screen are functions of the
  keys taken so far (`EditsAsTyped`), and one more key extends the lines they make in
  one way (`OneCharMore`); `RunsTheLine` is inductive with it, since the comparison of
  names stops at the terminator that the last key wrote. *Command line, settings*:
  memory is smaller than the address space, so a load that wraps has already met the
  end of memory, and each load is one more layer (`Cell`, `LoadLays`); a debug
  expression is read by induction over its items (`ParseDebugIs`). *Scripts*: what was
  run, followed by what the open readers still have to come, is at every moment what
  the typed lines amount to (`ReadersIInv`, `Awaited`). `Expand` goes down a tree that
  has a loop when scripts run each other, so it is a recursion over how many more
  scripts can be open and, in each, over its lines from the last one.
* `ArithmeticLemmas`. Remainders are reduced to one addition or subtraction of the
  word's size; powers of two; and induction and recursion over an interval, stated
  for sets and functions (`RecursionIn`), since the library states them with
  operators as parameters, which the provers do not instantiate. With it the loops
  that are recursive functions have proofs for every number of turns.

Only model-checked:

* liveness (`BoundedRunReturns`, `BootEnds`, `PromptComesBack`, `AllIsRead`) and the
  violated claims: the prover has no ENABLED, so nothing can be proved of fairness. That
  a table has at most 16 candidates per key is evaluated, not proved.

## Not modelled

* NVRAM (`dev_nvram.c`): no build routes an access to it and nothing calls its
  initialisation.
* Coprocessor instructions, which only log; the bit-field instructions, byte
  reversals and SETEND, single-instruction functions nothing else depends on; handlers
  that no row of the table names (`handle_pop` and others).
* The disassembler, logs, register dumps and file-system probes: text for the user.
* `src/main.c`, an earlier copy of the window's `main.c` that no Makefile builds;
  painting and menus of the window.
* `disk_detach` and `disk_write_sectors`, which have no caller; the output streams of
  `session.c`, likewise.
* Guest code that changes itself: code changes only by a load.
* The spelling of numbers, options and lines on the command line.
