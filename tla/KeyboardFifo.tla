---------------------------- MODULE KeyboardFifo ----------------------------
(***************************************************************************)
(* The keyboard device, src/hw/dev_keyboard.c: a ring of KBD_FIFO_CAPACITY *)
(* bytes shared by the host, which injects characters (arm7vm_keyboard_    *)
(* push, WM_CHAR, the "key" command), and the guest, which polls STATUS    *)
(* and reads DATA through the memory bus.  One process-wide instance       *)
(* (g_kbd) serves every machine.  `present` is false until a machine is    *)
(* created or the first access initialises the device lazily.              *)
(***************************************************************************)
EXTENDS Naturals, Sequences

CONSTANTS Capacity,   \* KBD_FIFO_CAPACITY
          Byte        \* the bytes the host injects

ASSUME CapacityAssumption == Capacity \in Nat \ {0}
ASSUME ByteAssumption     == Byte \subseteq Nat

VARIABLES fifo,       \* g_kbd.fifo: the slots
          head,       \* g_kbd.head: slot of the oldest byte
          tail,       \* g_kbd.tail: slot the next byte goes to
          kbdCount,   \* g_kbd.count: bytes waiting
          present,    \* g_kbd.present
          reply       \* what the last call returned

kbdVars == <<fifo, head, tail, kbdCount, present, reply>>

Slots == 0 .. Capacity - 1
Zeros == [i \in Slots |-> 0]

\* Static storage before the first call.
KbdInit ==
  /\ fifo = Zeros
  /\ head = 0 /\ tail = 0 /\ kbdCount = 0
  /\ present = FALSE
  /\ reply = 0

-----------------------------------------------------------------------------
\* memset of the whole device.
Wiped ==
  /\ fifo' = Zeros
  /\ head' = 0 /\ tail' = 0 /\ kbdCount' = 0

\* dev_keyboard_init, from vm_devices_init of every machine created.
DevInit == Wiped /\ present' = TRUE /\ UNCHANGED reply


\* dev_keyboard_reset, from vm_reset: base and presence survive.
DevReset == Wiped /\ UNCHANGED <<present, reply>>

\* dev_keyboard_push: an absent device is initialised first, so it is empty.
Accept(ch, slots, t, n) ==
  /\ fifo' = [slots EXCEPT ![t] = ch]
  /\ tail' = (t + 1) % Capacity
  /\ kbdCount' = n + 1
  /\ reply' = 1

\* Mutant: a full ring that drops its oldest byte.

PushDroppingOldest(ch) ==
  \/ present /\ kbdCount < Capacity /\ Accept(ch, fifo, tail, kbdCount) /\ UNCHANGED <<head, present>>
  \/ /\ present /\ kbdCount >= Capacity
     /\ Accept(ch, fifo, tail, kbdCount - 1)
     /\ head' = (head + 1) % Capacity
     /\ UNCHANGED present
  \/ ~present /\ Accept(ch, Zeros, 0, 0) /\ head' = 0 /\ present' = TRUE

Push(ch) ==
  \/ /\ present
     /\ kbdCount < Capacity
     /\ Accept(ch, fifo, tail, kbdCount)
     /\ UNCHANGED <<head, present>>
  \/ /\ present
     /\ kbdCount >= Capacity
     /\ reply' = 0
     /\ UNCHANGED <<fifo, head, tail, kbdCount, present>>
  \/ /\ ~present
     /\ Accept(ch, Zeros, 0, 0)
     /\ head' = 0
     /\ present' = TRUE

\* dev_keyboard_count
Count == reply' = kbdCount /\ UNCHANGED <<fifo, head, tail, kbdCount, present>>

\* dev_keyboard_read32 initialises an absent device, which is then empty:
\* every register answers 0.
ReadAbsent == ~present /\ Wiped /\ present' = TRUE /\ reply' = 0

ReadStatus ==
  /\ present
  /\ reply' = IF kbdCount = 0 THEN 0 ELSE 1
  /\ UNCHANGED <<fifo, head, tail, kbdCount, present>>

\* Reading DATA pops.
ReadData ==
  /\ present
  /\ \/ /\ kbdCount = 0
        /\ reply' = 0
        /\ UNCHANGED <<fifo, head, tail, kbdCount>>
     \/ /\ kbdCount # 0
        /\ reply' = fifo[head]
        /\ head' = (head + 1) % Capacity
        /\ kbdCount' = kbdCount - 1
        /\ UNCHANGED <<fifo, tail>>
  /\ UNCHANGED present

\* The other offsets of the window.
ReadOther == present /\ reply' = 0 /\ UNCHANGED <<fifo, head, tail, kbdCount, present>>

KbdNext ==
  \/ DevInit \/ DevReset
  \/ \E ch \in Byte : Push(ch)
  \/ Count
  \/ ReadAbsent \/ ReadStatus \/ ReadData \/ ReadOther

KbdSpec == KbdInit /\ [][KbdNext]_kbdVars

-----------------------------------------------------------------------------
\* Every field stays in the range its C type and the ring give it.
KbdTypeOK ==
  /\ fifo \in [Slots -> Byte \cup {0}]
  /\ head \in Slots /\ tail \in Slots
  /\ kbdCount \in 0 .. Capacity
  /\ present \in BOOLEAN
  /\ reply \in Nat

\* The three redundant cursors of the ring agree: tail is where count bytes
\* after head end.  Were they to drift (a wrap forgotten on one side, a count
\* not restored by a reset) a byte would be delivered twice or overwritten.
RingConsistent == tail = (head + kbdCount) % Capacity

\* A device nobody initialised holds nothing.
AbsentIsEmpty == ~present => kbdCount = 0 /\ head = 0 /\ tail = 0 /\ fifo = Zeros

-----------------------------------------------------------------------------
\* The bytes waiting, oldest first: the abstract queue.
Queue == [i \in 1 .. kbdCount |-> fifo[(head + i - 1) % Capacity]]

Fifo == INSTANCE BoundedFifo WITH queue <- Queue

\* The ring buffer implements the bounded FIFO: bytes reach the guest in the
\* order the host pushed them, none twice, none lost except by an explicit
\* refusal or a reset, whatever the interleaving of host and guest calls.
RefinesFifo == Fifo!Spec
=============================================================================
