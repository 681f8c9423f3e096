------------------------------ MODULE MemRouting ------------------------------
(***************************************************************************)
(* Where a load or a store of the guest goes (src/hw/mem.c): only 32-bit   *)
(* accesses are offered to the device windows, which lie over RAM; bytes   *)
(* and halfwords are always RAM.  The disk's window is RAM while no disk   *)
(* is present.  The devices have modules of their own: here a device is    *)
(* the register an access reached, except for the UART                     *)
(* (src/hw/dev_uart.c), whose output is kept.                              *)
(*                                                                         *)
(* A byte has ByteValues values, a window is a base and a size of whole    *)
(* words.                                                                  *)
(* History: before and touched, the RAM when the disk was attached and the *)
(* bytes stored past its window since.                                     *)
(***************************************************************************)
EXTENDS Integers, Sequences

CONSTANTS ByteValues, RamSize, AddrSize, Base, Size, Words, UartDr, UartFr, Rxfe, MaxStores

Devices == {"rtc", "kbd", "uart", "disk"}
HalfValues == ByteValues * ByteValues
WordValues == HalfValues * HalfValues

ASSUME MemAssumption ==
  /\ ByteValues \in Nat \ {0} /\ RamSize \in Nat /\ AddrSize \in Nat /\ RamSize <= AddrSize
  /\ Words \subseteq 0 .. WordValues - 1 /\ Rxfe \in 0 .. WordValues - 1

\* The windows of the program's map begin at whole words.
ASSUME WindowAssumption ==
  \A d \in Devices : Base[d] \in Nat /\ Base[d] % 4 = 0 /\ Size[d] \in 0 .. WordValues

VARIABLES ram, live, answered, printed, before, touched, stores
memVars == <<ram, live, answered, printed, before, touched, stores>>

MemAddrs == 0 .. AddrSize - 1
Window(d) == Base[d] .. Base[d] + Size[d] - 1
Bytes(a, n) == a .. a + n - 1

InRange(a, n) == a + n <= RamSize

Half(a) == ram[a] + ByteValues * ram[a + 1]
Little(a, n) ==
  CASE n = 1 -> ram[a]
    [] n = 2 -> Half(a)
    [] n = 4 -> Half(a) + HalfValues * Half(a + 2)
ReadRam(a, n) == IF InRange(a, n) THEN Little(a, n) ELSE 0
\* Of a word v: its byte i, the lowest first.
ByteOf(v, i) == (v \div <<1, ByteValues, HalfValues, ByteValues * HalfValues>>[i + 1]) % ByteValues
RamWith(a, n, v) ==
  IF ~InRange(a, n) THEN ram
  ELSE [x \in DOMAIN ram |->
          IF x \in Bytes(a, n) THEN ByteOf(v, x - a) ELSE ram[x]]
\* The devices a word access at a is for: the RTC and the keyboard always, the
\* UART and the disk when present.
Claims(a) == {d \in live : a \in Window(d)}

Register(d, a) == a - (a % 4) - Base[d]

MemInit ==
  /\ ram = [x \in 0 .. RamSize - 1 |-> 0]
  /\ live = {"rtc", "kbd", "uart"}
  /\ answered = [from |-> "none", value |-> 0]
  /\ printed = <<>>
  /\ before = ram /\ touched = {} /\ stores = 0

-----------------------------------------------------------------------------
Same == UNCHANGED <<live, before>>
FromRam(v) == answered' = [from |-> "ram", value |-> v]

\* mem_read8, mem_read16
ReadNarrow(a, n) ==
  /\ FromRam(ReadRam(a, n))
  /\ Same /\ UNCHANGED <<ram, printed, touched, stores>>

\* dev_uart_read_reg: the receiver is always empty, the transmitter never full.
UartRead(reg) == IF reg = UartFr THEN Rxfe ELSE 0

\* mem_read32
Read32(a) ==
  /\ IF Claims(a) = {} THEN FromRam(ReadRam(a, 4))
     ELSE \E d \in Claims(a) :
            answered' = [from |-> d, value |-> IF d = "uart" THEN UartRead(Register(d, a))
                                             ELSE Register(d, a)]
  /\ Same /\ UNCHANGED <<ram, printed, touched, stores>>

Counted == stores < MaxStores /\ stores' = stores + 1
Under(a, n) ==
  touched' = IF "disk" \in live THEN touched \union (Bytes(a, n) \intersect Window("disk"))
             ELSE touched

\* mem_write8, mem_write16
WriteNarrow(a, n, v) ==
  /\ Counted /\ Under(a, n)
  /\ ram' = RamWith(a, n, v)
  /\ UNCHANGED <<live, answered, printed, before>>

\* dev_uart_write_reg
UartWrite(reg, v) == printed' = IF reg = UartDr THEN Append(printed, v % ByteValues) ELSE printed

\* Mutant: a store to a device is stored as well.
Write32Through(a, v) ==
  /\ Counted
  /\ ram' = RamWith(a, 4, v)
  /\ IF Claims(a) = {} THEN Under(a, 4) /\ UNCHANGED printed
     ELSE /\ \E d \in Claims(a) :
               IF d = "uart" THEN UartWrite(Register(d, a), v) ELSE UNCHANGED printed
          /\ UNCHANGED touched
  /\ UNCHANGED <<live, answered, before>>

\* mem_write32
Write32(a, v) ==
  /\ Counted
  /\ IF Claims(a) = {}
     THEN ram' = RamWith(a, 4, v) /\ Under(a, 4) /\ UNCHANGED printed
     ELSE /\ \E d \in Claims(a) :
               IF d = "uart" THEN UartWrite(Register(d, a), v) ELSE UNCHANGED printed
          /\ UNCHANGED <<ram, touched>>
  /\ UNCHANGED <<live, answered, before>>

\* The host gives the machine a disk, or takes it away, between instructions.
AttachDisk ==
  /\ "disk" \notin live /\ live' = live \union {"disk"}
  /\ before' = ram /\ touched' = {}
  /\ UNCHANGED <<ram, answered, printed, stores>>
DetachDisk ==
  /\ "disk" \in live /\ live' = live \ {"disk"}
  /\ UNCHANGED <<ram, answered, printed, before, touched, stores>>

MemNext ==
  \/ \E a \in MemAddrs, n \in {1, 2} : ReadNarrow(a, n)
  \/ \E a \in MemAddrs : Read32(a)
  \/ \E a \in MemAddrs, n \in {1, 2}, v \in Words : WriteNarrow(a, n, v)
  \/ \E a \in MemAddrs, v \in Words : Write32(a, v)
  \/ AttachDisk
  \/ DetachDisk

MemSpec == MemInit /\ [][MemNext]_memVars

-----------------------------------------------------------------------------
\* The state has its types; a word answered is a word, and a device answers
\* with one of its own registers, however the access is aligned.
MemTypeOK ==
  /\ ram \in [0 .. RamSize - 1 -> 0 .. ByteValues - 1] /\ live \subseteq Devices
  /\ answered.value \in 0 .. WordValues - 1
  /\ answered.from \in Devices \ {"uart"} =>
       /\ answered.value \in {r \in 0 .. Size[answered.from] - 1 : r % 4 = 0}

\* Where no window is in the way the three widths show one memory: a word is
\* the halfwords and the bytes it covers, lowest address first; past the end of
\* RAM a word is 0 although its first bytes may be there.
ViewsAgree ==
  \A a \in {x \in MemAddrs : Claims(x) = {}} :
    LET word == ReadRam(a, 4)
    IN  /\ word = IF a + 4 <= RamSize
                  THEN ReadRam(a, 2) + HalfValues * ReadRam(a + 2, 2) ELSE 0
        /\ a + 2 <= RamSize => ReadRam(a, 2) = ReadRam(a, 1) + ByteValues * ReadRam(a + 1, 1)

\* Using the disk does not disturb the memory below its window: when it is
\* taken away the guest finds there what it stored before it came, and what it
\* stored in bytes and halfwords (or words that begin below the window) since.
KeptUnderDisk ==
  "disk" \in live => \A x \in (Window("disk") \intersect DOMAIN ram) \ touched : ram[x] = before[x]

\* What the memory promises at every moment, with the types of its state.
MemInv == MemTypeOK /\ ViewsAgree /\ KeptUnderDisk
=============================================================================
