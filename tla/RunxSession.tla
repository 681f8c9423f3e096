----------------------------- MODULE RunxSession -----------------------------
(***************************************************************************)
(* The window of arm7-runx (vm/arm7-runx/src/main.c): what the user's      *)
(* commands, the modal file dialogs and the timer that runs the guest make *)
(* of the machine.  Commands are messages of one queue and one thread, so  *)
(* a handler is one step; but a dialog pumps messages itself, so the timer *)
(* goes on while one is open, and a WM_TIMER already posted outlives       *)
(* KillTimer.                                                              *)
(*                                                                         *)
(* ram is what the front end last stored at the address of a slot; images  *)
(* so long that they overlap the next slot and what the guest stores there *)
(* itself are left out.  The guest's steps are reduced to whether they     *)
(* halt it.                                                                *)
(***************************************************************************)
EXTENDS Naturals, Sequences

CONSTANTS Slots,     \* the preload slots, which are the start targets too
          Bios,      \* the slot with a built-in image
          LoadOrder, \* the order prepare_machine loads them in
          Images,    \* what the user may choose
          BuiltIn,   \* default_bios
          Torn,      \* a load that failed half-way
          None       \* nothing

ASSUME SlotAssumption ==
  /\ Bios \in Slots /\ None \notin Slots
  /\ LoadOrder \in Seq(Slots) /\ \A s \in Slots : \E i \in DOMAIN LoadOrder : LoadOrder[i] = s
ASSUME ImageAssumption == None \notin Images

VARIABLES running, prepared, target, embedded, path,  \* g_running, g_prepared, ...
          timer, posted,   \* the timer is set; a WM_TIMER waits
          dialog,          \* the slot whose file dialog is open
          ram,             \* what each slot's address holds
          entered,         \* the target whose entry point is in PC since the last reset
          halted           \* vm_step reports no further execution

config  == <<target, embedded, path>>
machine == <<ram, entered, halted>>
vars == <<running, prepared, config, timer, posted, dialog, machine>>

Init ==
  /\ running = FALSE /\ prepared = FALSE
  /\ timer = FALSE /\ posted = FALSE
  /\ target = Bios /\ embedded = TRUE
  /\ path = [s \in Slots |-> None]
  /\ dialog = None
  /\ ram = [s \in Slots |-> None]
  /\ entered = None /\ halted = FALSE

-----------------------------------------------------------------------------
\* What a slot is loaded from; None leaves its address alone.
Source(s) == IF s = Bios /\ embedded THEN BuiltIn ELSE path[s]

Configured(s) == Source(s) # None

Stored(s) == IF Configured(s) THEN Source(s) ELSE ram[s]

\* RAM after the first n slots of LoadOrder.
LoadedSlots(n) == {LoadOrder[i] : i \in 1 .. n}
RamAfter(n) == [s \in Slots |-> IF s \in LoadedSlots(n) THEN Stored(s) ELSE ram[s]]

\* prepare_machine: arm7vm_reset and then the loads; PC last.
PrepareSucceeds ==
  /\ Configured(target)
  /\ ram' = RamAfter(Len(LoadOrder))
  /\ entered' = target
  /\ prepared' = TRUE

\* A file cannot be opened, or does not fit.  g_prepared is not touched.
PrepareFailsAt(i) ==
  /\ Configured(target)
  /\ Source(LoadOrder[i]) \notin {None, BuiltIn}
  /\ \/ ram' = RamAfter(i - 1)
     \/ ram' = [RamAfter(i - 1) EXCEPT ![LoadOrder[i]] = Torn]
  /\ entered' = None /\ halted' = FALSE
  /\ UNCHANGED prepared

\* The user is told, and nothing was done.
PrepareRefused == ~Configured(target) /\ UNCHANGED <<machine, prepared>>

PrepareFails == PrepareRefused \/ \E i \in DOMAIN LoadOrder : PrepareFailsAt(i)

\* Commands reach the window while no dialog owns the input.
Command == dialog = None

\* The guest executes; it may halt.
Executes == halted' \in {halted, TRUE} /\ UNCHANGED <<ram, entered>>

-----------------------------------------------------------------------------
\* command_start.  The timer may be refused, after all was prepared.
Start ==
  /\ Command /\ ~running
  /\ \/ PrepareFails /\ UNCHANGED <<running, timer>>
     \/ PrepareSucceeds /\ halted' = FALSE /\ UNCHANGED <<running, timer>>
     \/ PrepareSucceeds /\ halted' = FALSE /\ timer' = TRUE /\ running' = TRUE
  /\ UNCHANGED <<config, posted, dialog>>

\* command_stop
Stop ==
  /\ Command /\ running
  /\ running' = FALSE /\ timer' = FALSE
  /\ UNCHANGED <<prepared, config, posted, dialog, machine>>

\* command_step: a prepared machine goes on where it is, another is prepared.
StepPrepared ==
  /\ Command /\ ~running /\ prepared
  /\ Executes
  /\ UNCHANGED <<running, prepared, config, timer, posted, dialog>>

StepUnprepared ==
  /\ Command /\ ~running /\ ~prepared
  /\ \/ PrepareFails
     \/ PrepareSucceeds /\ halted' \in BOOLEAN
  /\ UNCHANGED <<running, config, timer, posted, dialog>>

\* command_run_bounded runs whatever is there.
RunBounded ==
  /\ Command /\ ~running
  /\ Executes
  /\ UNCHANGED <<running, prepared, config, timer, posted, dialog>>

\* Mutants of IDM_MACHINE_RESET: the machine runs on; only the timer is killed.
ResetRunning ==
  /\ Command
  /\ entered' = None /\ halted' = FALSE /\ prepared' = FALSE
  /\ UNCHANGED <<running, timer, config, posted, dialog, ram>>

ResetTimerOnly ==
  /\ Command
  /\ timer' = FALSE
  /\ entered' = None /\ halted' = FALSE /\ prepared' = FALSE
  /\ UNCHANGED <<running, config, posted, dialog, ram>>

Reset ==
  /\ Command
  /\ running' = FALSE /\ timer' = FALSE
  /\ entered' = None /\ halted' = FALSE /\ prepared' = FALSE
  /\ UNCHANGED <<config, posted, dialog, ram>>

SelectTargetPrepared(s) ==       \* mutant: the machine stays prepared
  /\ Command
  /\ target' = s
  /\ UNCHANGED <<running, prepared, embedded, path, timer, posted, dialog, machine>>

\* select_start_target, command_use_embedded_bios: also while running.
SelectTarget(s) ==
  /\ Command
  /\ target' = s /\ prepared' = FALSE
  /\ UNCHANGED <<running, embedded, path, timer, posted, dialog, machine>>

UseEmbedded ==
  /\ Command
  /\ embedded' = TRUE /\ prepared' = FALSE
  /\ UNCHANGED <<running, target, path, timer, posted, dialog, machine>>

\* select_image: the dialog opens; later it is left with a file or without.
OpenDialog(s) ==
  /\ Command
  /\ dialog' = s
  /\ UNCHANGED <<running, prepared, config, timer, posted, machine>>

ChooseImage(img) ==
  /\ dialog # None
  /\ dialog' = None
  /\ path' = [path EXCEPT ![dialog] = img]
  /\ embedded' = (embedded /\ dialog # Bios)
  /\ prepared' = FALSE
  /\ UNCHANGED <<running, target, timer, posted, machine>>

Cancel ==
  /\ dialog # None
  /\ dialog' = None
  /\ UNCHANGED <<running, prepared, config, timer, posted, machine>>

\* The system posts WM_TIMER; KillTimer does not take it back.
TimerElapses ==
  /\ timer /\ ~posted
  /\ posted' = TRUE
  /\ UNCHANGED <<running, prepared, config, timer, dialog, machine>>

UncheckedSlice ==                \* mutant: the slice does not look at g_running
  /\ UNCHANGED <<ram, entered>>
  /\ \/ ~halted /\ running' = TRUE /\ timer' = TRUE /\ UNCHANGED halted
     \/ halted' = TRUE /\ running' = FALSE /\ timer' = FALSE

\* run_timer_slice: RUN_SLICE steps, or until one reports a halt.
RunSlice ==
  /\ running
  /\ UNCHANGED <<ram, entered>>
  /\ \/ ~halted /\ UNCHANGED <<halted, running, timer>>
     \/ halted' = TRUE /\ running' = FALSE /\ timer' = FALSE

Tick ==
  /\ posted /\ posted' = FALSE
  /\ \/ RunSlice
     \/ ~running /\ UNCHANGED <<machine, running, timer>>
  /\ UNCHANGED <<prepared, config, dialog>>

Next ==
  \/ Start \/ Stop \/ StepPrepared \/ StepUnprepared \/ RunBounded \/ Reset
  \/ UseEmbedded \/ Cancel
  \/ \E s \in Slots : SelectTarget(s) \/ OpenDialog(s)
  \/ \E img \in Images : ChooseImage(img)
  \/ TimerElapses \/ Tick

Spec == Init /\ [][Next]_vars

-----------------------------------------------------------------------------
\* The front end's variables hold what their types and the loads allow.
TypeOK ==
  /\ running \in BOOLEAN /\ prepared \in BOOLEAN
  /\ timer \in BOOLEAN /\ posted \in BOOLEAN /\ halted \in BOOLEAN
  /\ target \in Slots /\ embedded \in BOOLEAN
  /\ path \in [Slots -> Images \cup {None}]
  /\ dialog \in Slots \cup {None}
  /\ ram \in [Slots -> Images \cup {BuiltIn, Torn, None}]
  /\ entered \in Slots \cup {None}
  /\ embedded \/ path[Bios] # None

\* The timer is set exactly while the machine runs, whichever of a stop, a
\* reset, a halt in a slice or a refused timer ended it: never a running machine
\* without a timer (it would stand still), never a timer that nobody kills.
TimerFollowsRunning == running <=> timer

\* A machine that runs was loaded whole and entered at its start since the last
\* reset, whatever was selected, stepped, failed or left in the queue meanwhile.
RunningWasPrepared == running => entered # None

\* RAM and PC are those of the present configuration.
Current == entered = target /\ \A s \in Slots : Configured(s) => ram[s] = Source(s)

\* A prepared machine is the configured one, unless its last preparation
\* failed: no order of selections, dialogs and slices makes an old one pass.
PreparedIsCurrent == prepared /\ entered # None => Current

\* A machine that stopped is not started again by a timer message that was
\* already under way: only Start makes it run.
OnlyStartRuns == [][~running /\ running' => Start /\ Current']_vars

\* README.md of arm7-runx: "Step One prepares the configured machine first when
\* necessary": what Step executes is the configured machine.
StepIsConfigured == [][StepPrepared => Current]_vars
=============================================================================
