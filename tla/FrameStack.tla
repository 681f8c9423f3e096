------------------------------ MODULE FrameStack ------------------------------
(***************************************************************************)
(* What block transfers with write-back promise to a program that uses     *)
(* them for calls: a stack of register frames.  Pushing a frame keeps the  *)
(* values of the listed registers, popping brings the last frame back, and *)
(* nothing that happens in between changes what is on the stack.           *)
(***************************************************************************)
EXTENDS Naturals, Sequences, SequencesExt, Functions

CONSTANTS Saved,   \* registers that a frame can hold
          Values   \* what registers hold

VARIABLES regs, frames
vars == <<regs, frames>>

Init == regs \in [Saved -> Values] /\ frames = <<>>

Push(list) ==
  /\ UNCHANGED regs
  /\ frames' = Append(frames, [r \in list |-> regs[r]])

Pop ==
  LET top == Last(frames)
  IN  /\ frames # <<>>
      /\ regs' = [r \in Saved |-> IF r \in DOMAIN top THEN top[r] ELSE regs[r]]
      /\ frames' = Front(frames)

Work(r, v) == regs' = [regs EXCEPT ![r] = v] /\ UNCHANGED frames

Next ==
  \/ \E list \in (SUBSET Saved) \ {{}} : Push(list)
  \/ Pop
  \/ \E r \in Saved, v \in Values : Work(r, v)

Spec == Init /\ [][Next]_vars
=============================================================================
