------------------------------- MODULE CallStack -------------------------------
(***************************************************************************)
(* Nested subroutine calls on the block transfers of LoadStore: a call     *)
(* stores registers with STM and write-back in one of the four indexing    *)
(* modes, the return loads them with LDM in the mirrored mode (PUSH and    *)
(* POP are STMDB and LDMIA of r13).  In between the body computes and      *)
(* stores in the part of RAM that the stack does not use.                  *)
(*                                                                         *)
(* The frames exist only as bytes of RAM below or above r13; lists is the  *)
(* history of the register lists, which a program has in its code.         *)
(***************************************************************************)
EXTENDS Integers, FiniteSets, Sequences, SequencesExt

CONSTANTS StackWidth, StackByteBits,  \* bits of a word and of a byte
          StackRam,  \* bytes of RAM
          Saved,     \* registers that a call may save
          Bottom,    \* r13 at the start
          Room,      \* words the stack may take
          Scratch,   \* values the body computes
          Elsewhere  \* what the body stores and where, unless the stack is there

ASSUME CallStackAssumption ==
  /\ StackByteBits \in Nat \ {0} /\ StackWidth = 4 * StackByteBits /\ StackRam \in 1 .. 2^StackWidth
  /\ Saved \subseteq 0 .. 12 /\ 4 * (Cardinality(Saved) + 2) <= 2^StackWidth
  /\ Room \in Nat /\ Bottom \in 4 * Room .. StackRam - 4 * Room - 4  \* the stack is in RAM
  /\ Scratch \subseteq 0 .. 2^StackWidth - 1
  /\ Elsewhere \subseteq [at : 0 .. 2^StackWidth - 1, val : 0 .. 2^StackWidth - 1]

VARIABLES machine,  \* registers, RAM and next PC
          mode,     \* how this program's calls store
          lists
stackVars == <<machine, mode, lists>>

Stack == INSTANCE LoadStore WITH
  Width <- StackWidth, ByteBits <- StackByteBits, RamSize <- StackRam, Regs <- Saved \union {13},
  Pc <- 0, Offsets <- {}, Starts <- {}, MaxSteps <- 0, st <- machine, wrote <- 0, steps <- 0

\* How many words the first k calls saved, each register once for each of them.
Height(k) == Cardinality({x \in (1 .. k) \X Saved : x[2] \in lists[x[1]]})
Depth == Height(Len(lists))

\* The mode that undoes a mode: the other direction, before instead of after.
Mirrored == [p |-> ~mode.p, u |-> ~mode.u, w |-> TRUE]

\* The bytes that a stack of Room words may take.
Area == IF mode.u THEN Bottom .. Bottom + 4 * Room + 3 ELSE Bottom - 4 * Room .. Bottom + 3

CallInit ==
  /\ machine \in [r : {f \in [Saved \union {13} -> Scratch \union {Bottom}] :
                          f[13] = Bottom /\ \A x \in Saved : f[x] \in Scratch},
                  ram : {[i \in 0 .. StackRam - 1 |-> 0]}, npc : {4}]
  /\ mode \in {m \in Stack!Modes : m.w}
  /\ lists = <<>>

Call(list) ==
  /\ Depth + Cardinality(list) <= Room
  /\ machine' = Stack!Stm(Stack!Now, 13, list, mode)
  /\ lists' = Append(lists, list)

Return ==
  /\ lists # <<>>
  /\ machine' = Stack!Ldm(Stack!Now, 13, Last(lists), Mirrored)
  /\ lists' = Front(lists)

\* An instruction of the body that computes, and one that stores
\* where the stack is not.
Compute(r, v) == machine' = Stack!SetReg(Stack!Now, r, v) /\ UNCHANGED lists
StoreElsewhere(w) ==
  /\ Area \cap w.at .. w.at + 3 = {}
  /\ machine' = Stack!Put(Stack!Now, w.at, 4, w.val)
  /\ UNCHANGED lists

CallNext ==
  /\ UNCHANGED mode
  /\ \/ \E list \in (SUBSET Saved) \ {{}} : Call(list)
     \/ Return
     \/ \E r \in Saved, v \in Scratch : Compute(r, v)
     \/ \E w \in Elsewhere : StoreElsewhere(w)

CallSpec == CallInit /\ [][CallNext]_stackVars

-----------------------------------------------------------------------------
\* The frames as a debugger would read them: from r13 on, with the lists.
Popped(k) == Stack!Moved(machine.r[13], 4 * (Depth - Height(k)), Mirrored)
Frame(k) ==
  LET read == Stack!Ldm(Stack!SetReg(machine, 13, Popped(k)), 13, lists[k], Mirrored)
  IN  [r \in lists[k] |-> read.r[r]]

\* Registers, frames and the stack pointer: RAM and r13 implement the stack of frames.
Frames == INSTANCE FrameStack WITH
  Values <- Scratch,
  regs <- [r \in Saved |-> machine.r[r]],
  frames <- [k \in 1 .. Len(lists) |-> Frame(k)]

\* r13 is as far from the bottom as the frames take; after the last return it
\* is back where it was.
Balanced ==
  machine.r[13] = Stack!Wrapped(IF mode.u THEN Bottom + 4 * Depth ELSE Bottom - 4 * Depth)

\* Calls and returns in any nesting bring back what was saved, in all four
\* indexing modes: LDM in the mirrored mode finds each register where STM put
\* it, and frames do not overlap.
FramesKept == Frames!Spec /\ []Balanced
=============================================================================
