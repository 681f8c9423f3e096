---------------------------- MODULE BoundedFifo ----------------------------
(***************************************************************************)
(* What the keyboard device promises its two clients: a first-in first-out *)
(* queue of at most Capacity bytes.  The host pushes, the guest pops; a    *)
(* push onto a full queue is refused and changes nothing, a pop of an      *)
(* empty queue answers 0 and changes nothing.  KeyboardFifo implements it  *)
(* with a ring buffer.                                                     *)
(***************************************************************************)
EXTENDS Naturals, Sequences

CONSTANTS Capacity,  \* bytes the queue may hold
          Byte       \* the bytes the host may push

VARIABLES queue,     \* bytes accepted and not yet delivered, oldest first
          reply      \* answer of the last call

vars == <<queue, reply>>

Init == queue = <<>> /\ reply = 0

\* The host offers a byte: accepted (answer 1) unless the queue is full (0).
Push(ch) ==
  \/ /\ Len(queue) < Capacity
     /\ queue' = Append(queue, ch)
     /\ reply' = 1
  \/ /\ Len(queue) >= Capacity
     /\ reply' = 0
     /\ UNCHANGED queue

\* The guest takes the oldest byte; 0 when there is none.
Pop ==
  \/ /\ queue # <<>>
     /\ reply' = Head(queue)
     /\ queue' = Tail(queue)
  \/ /\ queue = <<>>
     /\ reply' = 0
     /\ UNCHANGED queue

\* Either client asks whether, or how many, bytes are waiting.
Ready   == reply' = (IF queue = <<>> THEN 0 ELSE 1) /\ UNCHANGED queue
Pending == reply' = Len(queue) /\ UNCHANGED queue

\* Reset or (re)initialisation of the machine drops what was not delivered.
Clear == queue' = <<>> /\ UNCHANGED reply

\* A register that is neither STATUS nor DATA answers 0.
ReadNothing == reply' = 0 /\ UNCHANGED queue

Next ==
  \/ \E ch \in Byte : Push(ch)
  \/ Pop \/ Ready \/ Pending \/ Clear \/ ReadNothing

Spec == Init /\ [][Next]_vars
=============================================================================
