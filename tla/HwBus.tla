--------------------------------- MODULE HwBus ---------------------------------
(***************************************************************************)
(* The table of memory-mapped devices (src/hw/hw_bus.c): attaching checks  *)
(* the new window against every window there, an access goes to the first  *)
(* device whose window holds the address, and a tick gives every device    *)
(* the work that its kind does in that time.  Nothing in the program       *)
(* attaches a device yet (mem.c routes by hand), so what may be attached   *)
(* is the constant Catalog.  Addresses have Space values, 2^32 in the      *)
(* program, and the arithmetic on them wraps.                              *)
(***************************************************************************)
EXTENDS Integers, Sequences

CONSTANTS Space, MaxDevs, Catalog, Kinds, Scales, Cycles
ASSUME BusAssumption ==
  /\ Space \in Nat \ {0} /\ MaxDevs \in Nat
  /\ Catalog \subseteq [base : 0 .. Space - 1, size : 0 .. Space - 1, kind : Kinds \union {"other"}]
  /\ Scales \subseteq Int /\ Cycles \subseteq Int

VARIABLES devs, bpc, answer, work
busVars == <<devs, bpc, answer, work>>

BusAddrs == 0 .. Space - 1
NoOne == [by |-> 0, off |-> 0]

\* The static initialisers; hw_bus_init empties the table only.
BusInit ==
  /\ devs = <<>>
  /\ bpc \in [Kinds -> {n \in Scales : n >= 0}]
  /\ answer = NoOne /\ work = <<>>
HwBusInit == devs' = <<>> /\ UNCHANGED <<bpc, answer, work>>

\* A negative scale leaves that one as it is.
SetScale(to) ==
  /\ bpc' = [k \in Kinds |-> IF to[k] >= 0 THEN to[k] ELSE bpc[k]]
  /\ UNCHANGED <<devs, answer, work>>

-----------------------------------------------------------------------------
End(d) == (d.base + d.size) % Space

\* Mutant: only the new window's begin is looked for in the old one.
OverlapsBegin(a, b) == a.base <= b.base /\ b.base < End(a)
Overlaps(a, b) == ~(End(b) <= a.base \/ End(a) <= b.base)

BusAttach(d) ==
  /\ Len(devs) < MaxDevs
  /\ \A i \in DOMAIN devs : ~Overlaps(devs[i], d)
  /\ devs' = Append(devs, d)
  /\ UNCHANGED <<bpc, answer, work>>

\* The unsigned difference of the address and the base is below the size.
Holds(d, addr) == (addr - d.base) % Space < d.size
Found(addr) == {i \in DOMAIN devs : Holds(devs[i], addr)}

\* find with hw_bus_read32 or hw_bus_write32: the device told and the register.
Access(addr) ==
  /\ answer' = IF Found(addr) = {} THEN NoOne
               ELSE LET i == CHOOSE x \in Found(addr) : \A y \in Found(addr) : x <= y
                        off == (addr - devs[i].base) % Space
                    IN  [by |-> i, off |-> off - (off % 4)]
  /\ UNCHANGED <<devs, bpc, work>>

Budget(d, n) == IF d.kind \in Kinds THEN bpc[d.kind] * n ELSE 0

\* hw_bus_tick: what each device is told to do; one without work is not told.
HwBusTick(cycles) ==
  LET n == IF cycles <= 0 THEN 1 ELSE cycles
  IN  /\ work' = [i \in DOMAIN devs |-> Budget(devs[i], n)]
      /\ UNCHANGED <<devs, bpc, answer>>

BusNext ==
  \/ HwBusInit
  \/ \E to \in [Kinds -> Scales] : SetScale(to)
  \/ \E d \in Catalog : BusAttach(d)
  \/ \E addr \in BusAddrs : Access(addr)
  \/ \E cycles \in Cycles : HwBusTick(cycles)

BusSpec == BusInit /\ [][BusNext]_busVars

-----------------------------------------------------------------------------

Wraps(d) == d.base + d.size >= Space

\* Of the devices whose window ends below the top of the address space no two
\* hold the same address, in whatever order they came: an access has one
\* possible answer.
OneAnswers ==
  \A addr \in BusAddrs : \A i, j \in Found(addr) : Wraps(devs[i]) \/ Wraps(devs[j]) \/ i = j
=============================================================================
