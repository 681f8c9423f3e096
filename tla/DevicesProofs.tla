----------------------------- MODULE DevicesProofs -----------------------------
(***************************************************************************)
(* The keyboard for every capacity; disk0 for every set of images and      *)
(* every value the guest stores; the clock for every radix and every bound *)
(* on the host's time; memory for every size of a byte, of RAM and of its  *)
(* windows; the device table for every size of the address space and every *)
(* catalog.  Each has an inductive invariant of its own.                   *)
(***************************************************************************)
EXTENDS KeyboardFifo, DiskSystem, Rtc, MemRouting, HwBus, SequenceTheorems, TLAPS

(***************************************************************************)
(* The keyboard, for every capacity and every set of bytes: the ring stays *)
(* consistent and implements the bounded FIFO.                             *)
(***************************************************************************)
\* The only modular arithmetic the ring needs: an index below twice the
\* capacity is reduced by at most one turn.
Wrap(x) == IF x < Capacity THEN x ELSE x - Capacity

LEMMA OneTurn ==
  \A x \in Nat : x < Capacity + Capacity =>
     x % Capacity = Wrap(x) /\ Wrap(x) \in Slots
  <1> SUFFICES ASSUME NEW x \in Nat, x < Capacity + Capacity
               PROVE  x % Capacity = Wrap(x) /\ Wrap(x) \in Slots
    OBVIOUS
  <1>1. CASE x < Capacity
    BY <1>1, CapacityAssumption DEF Wrap, Slots
  <1>2. CASE ~(x < Capacity)
    BY <1>2, CapacityAssumption DEF Wrap, Slots
  <1>3. QED BY <1>1, <1>2

LEMMA NextSlot ==
  \A s \in Slots : (s + 1) % Capacity = Wrap(s + 1) /\ Wrap(s + 1) \in Slots
  <1> SUFFICES ASSUME NEW s \in Slots
               PROVE  (s + 1) % Capacity = Wrap(s + 1) /\ Wrap(s + 1) \in Slots
    OBVIOUS
  <1>1. s + 1 \in Nat /\ s + 1 < Capacity + Capacity
    BY CapacityAssumption DEF Slots
  <1>2. QED BY <1>1, OneTurn

\* The slot n places after s, for n up to a whole turn.
LEMMA SlotAfter ==
  ASSUME NEW s \in Slots, NEW n \in 0 .. Capacity
  PROVE  (s + n) % Capacity = Wrap(s + n) /\ Wrap(s + n) \in Slots
  <1>1. s + n \in Nat /\ s + n < Capacity + Capacity
    BY CapacityAssumption DEF Slots
  <1>2. QED BY <1>1, OneTurn

-----------------------------------------------------------------------------
\* The inductive invariant, with the ring condition free of the modulus.
RingInv == KbdTypeOK /\ tail = Wrap(head + kbdCount) /\ AbsentIsEmpty

LEMMA RingInvConsistent == RingInv => RingConsistent
  <1> SUFFICES ASSUME RingInv PROVE RingConsistent OBVIOUS
  <1>1. head \in Slots /\ kbdCount \in 0 .. Capacity BY DEF RingInv, KbdTypeOK
  <1>2. QED BY <1>1, SlotAfter DEF RingInv, RingConsistent

LEMMA RingBegins == KbdInit => RingInv
  <1> SUFFICES ASSUME KbdInit PROVE RingInv OBVIOUS
  <1> USE CapacityAssumption DEF KbdInit
  <1>1. 0 \in Slots /\ Wrap(0 + 0) = 0 BY DEF Slots, Wrap
  <1>2. Zeros \in [Slots -> Byte \cup {0}] BY DEF Zeros
  <1>3. 0 \in 0 .. Capacity /\ FALSE \in BOOLEAN OBVIOUS
  <1>5. KbdTypeOK
    <2> HIDE CapacityAssumption
    <2>1. fifo = Zeros /\ head = 0 /\ tail = 0 /\ kbdCount = 0 /\ present = FALSE /\ reply = 0
      OBVIOUS
    <2> HIDE DEF KbdInit
    <2>2. QED BY <1>1, <1>2, <1>3, <2>1 DEF KbdTypeOK
  <1>4. QED BY <1>1, <1>5 DEF RingInv, AbsentIsEmpty

\* What Accept stores: an empty slot is filled, the cursors move together.
LEMMA AcceptKeepsRing ==
  ASSUME NEW slots \in [Slots -> Byte \cup {0}], NEW h \in Slots,
         NEW n \in 0 .. Capacity - 1, NEW ch \in Byte,
         Accept(ch, slots, Wrap(h + n), n), head' = h
  PROVE  /\ fifo' \in [Slots -> Byte \cup {0}]
         /\ tail' \in Slots /\ kbdCount' \in 0 .. Capacity /\ reply' \in Nat
         /\ tail' = Wrap(head' + kbdCount')
  <1> DEFINE t == Wrap(h + n)
  <1>1. t \in Slots
    <2>1. n \in 0 .. Capacity BY CapacityAssumption
    <2>2. QED BY <2>1, SlotAfter
  <1>2. tail' = Wrap(t + 1) /\ tail' \in Slots BY <1>1, NextSlot DEF Accept
  <1>3. fifo' \in [Slots -> Byte \cup {0}] /\ reply' \in Nat BY <1>1 DEF Accept
  <1>4. kbdCount' = n + 1 /\ kbdCount' \in 0 .. Capacity
    BY CapacityAssumption DEF Accept
  <1>5. Wrap(Wrap(h + n) + 1) = Wrap(h + (n + 1))
    BY CapacityAssumption DEF Wrap, Slots
  <1>6. QED BY <1>2, <1>3, <1>4, <1>5

LEMMA RingStep == RingInv /\ [KbdNext]_kbdVars => RingInv'
  <1> SUFFICES ASSUME RingInv, [KbdNext]_kbdVars PROVE RingInv' OBVIOUS
  <1> USE CapacityAssumption, ByteAssumption DEF RingInv, KbdTypeOK, AbsentIsEmpty
  <1>0. 0 \in Slots /\ Wrap(0) = 0 /\ Wrap(0 + 0) = 0 /\ Zeros \in [Slots -> Byte \cup {0}]
    BY DEF Slots, Zeros, Wrap
  <1>w. ASSUME Wiped, present' \in BOOLEAN, reply' \in Nat PROVE RingInv'
    BY <1>0, <1>w DEF Wiped
  <1>1. CASE DevInit BY <1>1, <1>w DEF DevInit
  <1>2. CASE DevReset BY <1>2, <1>w DEF DevReset
  <1>3. ASSUME NEW ch \in Byte, Push(ch) PROVE RingInv'
    <2>1. CASE present /\ kbdCount < Capacity /\ Accept(ch, fifo, tail, kbdCount) /\ UNCHANGED <<head, present>>
      <3>1. head' = head /\ kbdCount \in 0 .. Capacity - 1 BY <2>1
      <3>2. QED BY <2>1, <3>1, AcceptKeepsRing
    <2>2. CASE present /\ kbdCount >= Capacity /\ reply' = 0 /\ UNCHANGED <<fifo, head, tail, kbdCount, present>>
      BY <2>2
    <2>3. CASE ~present /\ Accept(ch, Zeros, 0, 0) /\ head' = 0 /\ present' = TRUE
      <3>1. 0 \in 0 .. Capacity - 1 OBVIOUS
      <3>2. QED BY <2>3, <3>1, <1>0, AcceptKeepsRing
    <2>4. QED BY <1>3, <2>1, <2>2, <2>3 DEF Push
  <1>4. CASE Count BY <1>4 DEF Count
  <1>5. CASE ReadAbsent BY <1>5, <1>w DEF ReadAbsent
  <1>6. CASE ReadStatus BY <1>6 DEF ReadStatus
  <1>7. CASE ReadData
    <2>1. CASE kbdCount = 0 BY <1>7, <2>1 DEF ReadData
    <2>2. CASE kbdCount # 0
      <3>1. /\ reply' = fifo[head] /\ head' = (head + 1) % Capacity /\ kbdCount' = kbdCount - 1
            /\ UNCHANGED <<fifo, tail, present>> /\ present
        BY <1>7, <2>2 DEF ReadData
      <3>2. head' = Wrap(head + 1) /\ head' \in Slots
        BY <3>1, NextSlot
      <3>3. Wrap(Wrap(head + 1) + (kbdCount - 1)) = Wrap(head + kbdCount)
        BY <2>2 DEF Slots, Wrap
      <3>4. kbdCount' \in 0 .. Capacity /\ reply' \in Nat BY <3>1, <2>2
      <3>5. QED BY <3>1, <3>2, <3>3, <3>4
    <2>3. QED BY <2>1, <2>2
  <1>8. CASE ReadOther BY <1>8 DEF ReadOther
  <1>9. CASE UNCHANGED kbdVars BY <1>9 DEF kbdVars
  <1>10. QED BY <1>1, <1>2, <1>3, <1>4, <1>5, <1>6, <1>7, <1>8, <1>9 DEF KbdNext

\* The fields keep their types, whatever the host and the guest call.
THEOREM KeyboardTypeCorrect == KbdSpec => []KbdTypeOK
  <1>1. RingInv => KbdTypeOK BY DEF RingInv
  <1>2. QED BY RingBegins, RingStep, <1>1, PTL DEF KbdSpec

\* The cursors of the ring never drift apart.
THEOREM KeyboardRingConsistent == KbdSpec => []RingConsistent
  <1>1. QED BY RingBegins, RingStep, RingInvConsistent, PTL DEF KbdSpec

-----------------------------------------------------------------------------
\* The abstract queue, read off the ring.
QueueShape ==
  /\ Queue \in Seq(Nat) /\ Len(Queue) = kbdCount
  /\ \A i \in 1 .. kbdCount : Queue[i] = fifo[Wrap(head + (i - 1))]
  /\ Queue = <<>> <=> kbdCount = 0

LEMMA QueueFacts == RingInv => QueueShape
  <1> SUFFICES ASSUME RingInv PROVE QueueShape OBVIOUS
  <1>0. /\ fifo \in [Slots -> Byte \cup {0}] /\ head \in Slots
        /\ kbdCount \in 0 .. Capacity /\ kbdCount \in Nat
    BY CapacityAssumption DEF RingInv, KbdTypeOK
  <1>1. ASSUME NEW i \in 1 .. kbdCount
        PROVE  /\ (head + i - 1) % Capacity = Wrap(head + (i - 1))
               /\ Wrap(head + (i - 1)) \in Slots
    <2>1. i - 1 \in 0 .. Capacity BY <1>0, CapacityAssumption
    <2>2. head + i - 1 = head + (i - 1) BY <1>0 DEF Slots
    <2>3. QED BY <1>0, <2>1, <2>2, SlotAfter
  <1>2. ASSUME NEW s \in Slots PROVE fifo[s] \in Nat
    <2>1. fifo[s] \in Byte \/ fifo[s] = 0 BY <1>0
    <2>2. CASE fifo[s] = 0 BY <2>2
    <2>3. CASE fifo[s] \in Byte BY <2>3, ByteAssumption, Zenon
    <2>4. QED BY <2>1, <2>2, <2>3
  <1>3. \A i \in 1 .. kbdCount : /\ fifo[(head + i - 1) % Capacity] \in Nat
                              /\ fifo[(head + i - 1) % Capacity] = fifo[Wrap(head + (i - 1))]
    BY <1>1, <1>2
  <1>4. Queue \in [1 .. kbdCount -> Nat] BY <1>3 DEF Queue
  <1>5. Queue \in Seq(Nat) /\ Len(Queue) = kbdCount
    <2>1. Queue \in Seq(Nat) BY <1>0, <1>4, SeqDef
    <2>2. DOMAIN Queue = 1 .. kbdCount BY <1>4
    <2>3. QED BY <1>0, <2>1, <2>2, LenProperties
  <1>6. \A i \in 1 .. kbdCount : Queue[i] = fifo[Wrap(head + (i - 1))]
    BY <1>3 DEF Queue
  <1>7. Queue = <<>> <=> kbdCount = 0 BY <1>5, EmptySeq
  <1>8. QED BY <1>5, <1>6, <1>7 DEF QueueShape

LEMMA QueueUnchanged ==
  ASSUME UNCHANGED <<fifo, head, kbdCount>> PROVE UNCHANGED Queue
  BY DEF Queue

\* An accepted byte appears at the end of the queue.
LEMMA AcceptAppends ==
  ASSUME RingInv, QueueShape, QueueShape', NEW ch \in Byte, kbdCount < Capacity,
         Accept(ch, fifo, tail, kbdCount), head' = head
  PROVE  Queue' = Append(Queue, ch)
  <1>0. /\ head \in Slots /\ kbdCount \in 0 .. Capacity /\ tail = Wrap(head + kbdCount)
        /\ fifo \in [Slots -> Byte \cup {0}] /\ tail \in Slots
    BY DEF RingInv, KbdTypeOK
  <1>1. kbdCount' = kbdCount + 1 /\ fifo' = [fifo EXCEPT ![tail] = ch] BY DEF Accept
  <1>2. ch \in Nat BY ByteAssumption
  <1>3. /\ Append(Queue, ch) \in Seq(Nat) /\ Len(Append(Queue, ch)) = kbdCount + 1
        /\ \A i \in 1 .. kbdCount : Append(Queue, ch)[i] = Queue[i]
        /\ Append(Queue, ch)[kbdCount + 1] = ch
    BY <1>2, AppendProperties DEF QueueShape
  <1>4. ASSUME NEW i \in 1 .. kbdCount + 1 PROVE Queue'[i] = Append(Queue, ch)[i]
    <2>1. Queue'[i] = fifo'[Wrap(head + (i - 1))] BY <1>1 DEF QueueShape
    <2>2. CASE i = kbdCount + 1
      <3>1. Wrap(head + (i - 1)) = tail BY <1>0, <2>2
      <3>2. QED BY <1>0, <1>1, <1>3, <2>1, <2>2, <3>1
    <2>3. CASE i # kbdCount + 1
      <3>1. i \in 1 .. kbdCount BY <1>0, <2>3
      <3>2. Wrap(head + (i - 1)) # tail
        BY <1>0, <3>1, CapacityAssumption DEF Wrap, Slots
      <3>3. Queue'[i] = fifo[Wrap(head + (i - 1))] BY <1>0, <1>1, <2>1, <3>2
      <3>4. QED BY <1>3, <3>1, <3>3 DEF QueueShape
    <2>4. QED BY <2>2, <2>3
  <1>5. Queue' \in Seq(Nat) /\ Len(Queue') = kbdCount + 1 BY <1>1 DEF QueueShape
  <1>6. QED BY <1>3, <1>4, <1>5, SeqEqual

\* Reading DATA takes the head of the queue.
LEMMA ReadTakesHead ==
  ASSUME RingInv, QueueShape, QueueShape', kbdCount # 0, ReadData
  PROVE  Queue # <<>> /\ reply' = Head(Queue) /\ Queue' = Tail(Queue)
  <1>0. head \in Slots /\ kbdCount \in 1 .. Capacity BY CapacityAssumption DEF RingInv, KbdTypeOK
  <1>1. reply' = fifo[head] /\ kbdCount' = kbdCount - 1 /\ fifo' = fifo
    BY DEF ReadData
  <1>2. head' = Wrap(head + 1) BY <1>0, NextSlot DEF ReadData
  <1>3. Queue # <<>> BY DEF QueueShape
  <1>4. /\ Head(Queue) = Queue[1] /\ Tail(Queue) \in Seq(Nat)
        /\ Len(Tail(Queue)) = kbdCount - 1
        /\ \A i \in 1 .. kbdCount - 1 : Tail(Queue)[i] = Queue[i + 1]
    BY <1>3, HeadTailProperties DEF QueueShape
  <1>5. Queue[1] = fifo[head]
    <2>1. head + (1 - 1) = head /\ head < Capacity BY <1>0, CapacityAssumption DEF Slots
    <2>2. Wrap(head + (1 - 1)) = head BY <2>1 DEF Wrap
    <2>3. QED BY <1>0, <2>2 DEF QueueShape
  <1>6. ASSUME NEW i \in 1 .. kbdCount - 1 PROVE Queue'[i] = Tail(Queue)[i]
    <2>1. i + 1 \in 1 .. kbdCount /\ i \in 1 .. kbdCount' BY <1>0, <1>1
    <2>2. Queue'[i] = fifo[Wrap(Wrap(head + 1) + (i - 1))] BY <1>1, <1>2, <2>1 DEF QueueShape
    <2>3. Wrap(Wrap(head + 1) + (i - 1)) = Wrap(head + ((i + 1) - 1))
      BY <1>0, CapacityAssumption DEF Wrap, Slots
    <2>4. Queue[i + 1] = fifo[Wrap(head + ((i + 1) - 1))] BY <2>1 DEF QueueShape
    <2>5. QED BY <1>4, <2>2, <2>3, <2>4
  <1>7. Queue' \in Seq(Nat) /\ Len(Queue') = kbdCount - 1 BY <1>1 DEF QueueShape
  <1>8. Queue' = Tail(Queue) BY <1>4, <1>6, <1>7, SeqEqual
  <1>9. QED BY <1>1, <1>3, <1>4, <1>5, <1>8

-----------------------------------------------------------------------------
LEMMA KeyboardBegins == KbdInit => Fifo!Init
  <1>1. KbdInit => kbdCount = 0 /\ reply = 0 BY DEF KbdInit
  <1>2. QED BY <1>1, RingBegins, QueueFacts DEF QueueShape, Fifo!Init

LEMMA KeyboardStep == RingInv /\ RingInv' /\ [KbdNext]_kbdVars => [Fifo!Next]_(Fifo!vars)
  <1> SUFFICES ASSUME RingInv, RingInv', [KbdNext]_kbdVars PROVE [Fifo!Next]_(Fifo!vars) OBVIOUS
  <1>a. QueueShape BY QueueFacts
  <1>b. QueueShape' BY QueueFacts, PTL
  <1>c. kbdCount \in 0 .. Capacity /\ Len(Queue) = kbdCount BY <1>a DEF RingInv, KbdTypeOK, QueueShape
  <1>d. ASSUME Wiped PROVE Queue' = <<>> BY <1>b, <1>d DEF Wiped, QueueShape
  <1>1. CASE DevInit
    BY <1>1, <1>d DEF DevInit, Fifo!Next, Fifo!Clear
  <1>2. CASE DevReset
    BY <1>2, <1>d DEF DevReset, Fifo!Next, Fifo!Clear
  <1>3. ASSUME NEW ch \in Byte, Push(ch) PROVE Fifo!Next
    <2>1. CASE present /\ kbdCount < Capacity /\ Accept(ch, fifo, tail, kbdCount) /\ UNCHANGED <<head, present>>
      <3>1. Queue' = Append(Queue, ch) BY <1>a, <1>b, <2>1, AcceptAppends
      <3>2. reply' = 1 /\ Len(Queue) < Capacity BY <1>c, <2>1 DEF Accept
      <3>3. QED BY <3>1, <3>2 DEF Fifo!Next, Fifo!Push
    <2>2. CASE present /\ kbdCount >= Capacity /\ reply' = 0 /\ UNCHANGED <<fifo, head, tail, kbdCount, present>>
      <3>1. Len(Queue) >= Capacity /\ reply' = 0 /\ UNCHANGED Queue
        BY <1>c, <2>2, QueueUnchanged
      <3>2. QED BY <3>1 DEF Fifo!Next, Fifo!Push
    <2>3. CASE ~present /\ Accept(ch, Zeros, 0, 0) /\ head' = 0 /\ present' = TRUE
      <3>1. fifo = Zeros /\ tail = 0 /\ kbdCount = 0 /\ head = 0
        BY <2>3 DEF RingInv, AbsentIsEmpty
      <3>2. kbdCount < Capacity /\ Accept(ch, fifo, tail, kbdCount) /\ head' = head
        BY <2>3, <3>1, CapacityAssumption
      <3>3. Queue' = Append(Queue, ch) BY <1>a, <1>b, <3>2, AcceptAppends
      <3>4. reply' = 1 /\ Len(Queue) < Capacity BY <1>c, <3>2 DEF Accept
      <3>5. QED BY <3>3, <3>4 DEF Fifo!Next, Fifo!Push
    <2>4. QED BY <1>3, <2>1, <2>2, <2>3 DEF Push
  <1>4. CASE Count
    <2>1. reply' = Len(Queue) /\ UNCHANGED Queue BY <1>4, <1>c, QueueUnchanged DEF Count
    <2>2. QED BY <2>1 DEF Fifo!Next, Fifo!Pending
  <1>5. CASE ReadAbsent
    <2>1. Queue = <<>> /\ Queue' = <<>> /\ reply' = 0
      BY <1>5, <1>a, <1>d DEF ReadAbsent, RingInv, AbsentIsEmpty, QueueShape
    <2>2. QED BY <2>1 DEF Fifo!Next, Fifo!ReadNothing
  <1>6. CASE ReadStatus
    <2>1. reply' = (IF Queue = <<>> THEN 0 ELSE 1) /\ UNCHANGED Queue
      BY <1>6, <1>a, QueueUnchanged DEF ReadStatus, QueueShape
    <2>2. QED BY <2>1 DEF Fifo!Next, Fifo!Ready
  <1>7. CASE ReadData
    <2>1. CASE kbdCount = 0
      <3>1. Queue = <<>> /\ reply' = 0 /\ UNCHANGED Queue
        BY <1>7, <1>a, <2>1, QueueUnchanged DEF ReadData, QueueShape
      <3>2. QED BY <3>1 DEF Fifo!Next, Fifo!Pop
    <2>2. CASE kbdCount # 0
      BY <1>7, <1>a, <1>b, <2>2, ReadTakesHead DEF Fifo!Next, Fifo!Pop
    <2>3. QED BY <2>1, <2>2
  <1>8. CASE ReadOther
    <2>1. reply' = 0 /\ UNCHANGED Queue BY <1>8, QueueUnchanged DEF ReadOther
    <2>2. QED BY <2>1 DEF Fifo!Next, Fifo!ReadNothing
  <1>9. CASE UNCHANGED kbdVars
    BY <1>9, QueueUnchanged DEF kbdVars, Fifo!vars
  <1>10. QED BY <1>1, <1>2, <1>3, <1>4, <1>5, <1>6, <1>7, <1>8, <1>9 DEF KbdNext

\* The ring buffer implements the bounded FIFO, for every capacity: no byte is
\* lost, duplicated or reordered between the host and the guest.
THEOREM KeyboardRefinesFifo == KbdSpec => RefinesFifo
  <1>1. QED
    BY RingBegins, RingStep, KeyboardBegins, KeyboardStep, PTL
    DEF KbdSpec, RefinesFifo, Fifo!Spec

(***************************************************************************)
(* The disk.  The invariant is the type invariant and what STATUS means:   *)
(* it speaks of the image that was attached when the command was given     *)
(* (asked), so an attach has nothing to disturb; StartsClean is there for  *)
(* the first attach, which is the only one to touch the registers.         *)
(***************************************************************************)
DiskInv == DiskTypeOK /\ DrqShowsCommandedSector /\ ErrMeansUnreadable /\ StartsClean

\* A readable sector of an attached image is a sector.
LEMMA SectorRead ==
  ASSUME NEW img \in (Files \ {<<>>}) \cup {NoImage}, NEW l \in Nat, Readable(img, l)
  PROVE  img[l + 1] \in Sector
<1>1. img \in Seq(Sector)
  BY FilesAssumption DEF Readable
<1>2. l + 1 \in 1 .. Len(img)
  BY <1>1 DEF Readable
<1> QED BY <1>1, <1>2

LEMMA DiskBegins == DiskInit => DiskInv
<1> SUFFICES ASSUME DiskInit PROVE DiskInv
  OBVIOUS
<1> USE DEF DiskInit, NothingAsked
<1>1. shadow \in [Reg -> Nat]
  OBVIOUS
<1>2. asked \in [image : (Files \ {<<>>}) \cup {NoImage}, lba : Nat]
  OBVIOUS
<1>3. DiskTypeOK
  BY <1>1, <1>2, SectorAssumption DEF DiskTypeOK, Present, Idle
<1>4. DrqShowsCommandedSector /\ ErrMeansUnreadable
  BY DEF DrqShowsCommandedSector, ErrMeansUnreadable, Idle, DRQ
<1>5. StartsClean
  BY DEF StartsClean, Idle
<1> QED BY <1>3, <1>4, <1>5 DEF DiskInv

\* READ|GO serves the sector it names or reports an error.
LEMMA CommandKeeps ==
  ASSUME DiskInv, Present, Command, UNCHANGED <<mapped, image, shadow>>
  PROVE  DiskInv'
<1> USE DEF DiskInv, Command
<1>1. image \in (Files \ {<<>>}) \cup {NoImage} /\ lba \in Nat
  BY DEF DiskTypeOK
<1>2. DiskTypeOK'
  <2>1. data' \in Sector
    BY <1>1, SectorRead DEF DiskTypeOK
  <2>2. status' \in {Idle, DRQ, ERR}
    OBVIOUS
  <2>3. asked' \in [image : (Files \ {<<>>}) \cup {NoImage}, lba : Nat]
    BY <1>1
  <2> QED BY <2>1, <2>2, <2>3 DEF DiskTypeOK, Present
<1>3. DrqShowsCommandedSector'
  BY DEF DrqShowsCommandedSector, Readable, DRQ, ERR
<1>4. ErrMeansUnreadable'
  BY DEF ErrMeansUnreadable, Readable, DRQ, ERR
<1>5. StartsClean'
  BY DEF StartsClean, Present
<1> QED BY <1>2, <1>3, <1>4, <1>5

LEMMA DeviceWriteKeeps ==
  ASSUME DiskInv, Present, NEW r \in Reg, NEW v \in Nat, DeviceWrite(r, v),
         UNCHANGED <<mapped, image, shadow>>
  PROVE  DiskInv'
<1>1. CASE r = "CMD" /\ IsReadGo(v) /\ Command
  BY <1>1, CommandKeeps
<1>2. CASE /\ ~(r = "CMD" /\ IsReadGo(v) /\ Command)
           /\ UNCHANGED <<status, data, asked>>
           /\ lba' \in Nat /\ count' \in Nat
           /\ count' = count \/ count' # 0
  BY <1>2 DEF DiskInv, DiskTypeOK, DrqShowsCommandedSector, ErrMeansUnreadable, StartsClean, Present
<1> QED BY <1>1, <1>2 DEF DeviceWrite, DiskInv, DiskTypeOK

LEMMA GuestStoreKeeps ==
  ASSUME DiskInv, NEW r \in Reg, NEW v \in Nat, GuestStore(r, v)
  PROVE  DiskInv'
<1>1. CASE Present
  BY <1>1, DeviceWriteKeeps DEF GuestStore
<1>2. CASE ~Present
  <2>1. UNCHANGED <<lba, count, status, data, asked, mapped, image>>
    BY <1>2 DEF GuestStore
  <2>2. shadow' \in [Reg -> Nat]
    BY <1>2 DEF GuestStore, DiskInv, DiskTypeOK
  <2> QED BY <2>1, <2>2 DEF DiskInv, DiskTypeOK, DrqShowsCommandedSector, ErrMeansUnreadable,
                            StartsClean, Present
<1> QED BY <1>1, <1>2

\* The host's attach: registers are untouched or initialised together.
LEMMA AttachKeeps ==
  ASSUME DiskInv, NEW file \in Files, Attach(file)
  PROVE  DiskInv'
<1>1. image' \in (Files \ {<<>>}) \cup {NoImage} /\ mapped' /\ shadow' \in [Reg -> Nat]
  BY DEF Attach, DiskInv, DiskTypeOK
<1>p. Present => Present'
  BY FilesAssumption DEF Attach, Present
<1>2. CASE mapped /\ UNCHANGED <<lba, count, status, data, asked>>
  BY <1>1, <1>p, <1>2
  DEF DiskInv, DiskTypeOK, DrqShowsCommandedSector, ErrMeansUnreadable, StartsClean, Present, Attach
<1>3. CASE /\ lba' = 0 /\ count' = 1 /\ status' = Idle
           /\ data' = ZeroSector /\ asked' = NothingAsked
  BY <1>1, <1>3, SectorAssumption
  DEF DiskInv, DiskTypeOK, DrqShowsCommandedSector, ErrMeansUnreadable, StartsClean, Idle, DRQ,
      ERR, NothingAsked, Attach
<1> QED BY <1>2, <1>3 DEF Attach

LEMMA DiskStutters == DiskInv /\ UNCHANGED diskVars => DiskInv'
BY DEF DiskInv, DiskTypeOK, DrqShowsCommandedSector, ErrMeansUnreadable, StartsClean, Present, diskVars

LEMMA DiskStep == DiskInv /\ [DiskNext]_diskVars => DiskInv'
<1> SUFFICES ASSUME DiskInv, DiskNext PROVE DiskInv'
  BY DiskStutters
<1>1. CASE \E file \in Files : Attach(file)
  BY <1>1, AttachKeeps
<1>2. CASE \E v \in LbaValues : GuestStore("LBA", v)
  BY <1>2, GuestStoreKeeps, ValuesAssumption DEF Reg
<1>3. CASE \E v \in CountValues : GuestStore("COUNT", v) \/ GuestStore("STATUS", v)
  BY <1>3, GuestStoreKeeps, ValuesAssumption DEF Reg
<1>4. CASE \E v \in Commands : GuestStore("CMD", v)
  BY <1>4, GuestStoreKeeps, ValuesAssumption DEF Reg
<1> QED BY <1>1, <1>2, <1>3, <1>4 DEF DiskNext

LEMMA DiskInvHolds == DiskSpec => []DiskInv
BY DiskBegins, DiskStep, PTL DEF DiskSpec

\* The registers of disk0 (dev_disk.c) hold only what DiskTypeOK allows.
THEOREM DiskTypeCorrect == DiskSpec => []DiskTypeOK
BY DiskInvHolds, PTL DEF DiskInv

\* A DRQ shows the sector the last READ|GO named (dev_disk.c:107-124), whatever
\* the host attached and the guest stored since.
THEOREM DiskDrqShowsCommandedSector == DiskSpec => []DrqShowsCommandedSector
BY DiskInvHolds, PTL DEF DiskInv

\* ERR is reported exactly for a sector that does not exist.
THEOREM DiskErrMeansUnreadable == DiskSpec => []ErrMeansUnreadable
BY DiskInvHolds, PTL DEF DiskInv

\* What the guest does before the first image leaves no trace in the controller.
THEOREM DiskStartsClean == DiskSpec => []StartsClean
BY DiskInvHolds, PTL DEF DiskInv

\* Once an image is attached the window belongs to the device for good
\* (mem.c:140-144 and 182-187, disk_manager.c:50-75).
THEOREM DiskHidesRam == DiskSpec => DeviceHidesRam
<1>1. ASSUME DiskInv, DiskNext, Present
      PROVE  image' # NoImage /\ UNCHANGED shadow
  <2>1. CASE \E file \in Files : Attach(file)
    BY <1>1, <2>1, FilesAssumption DEF Attach, Present
  <2>2. CASE \E r \in Reg, v \in Nat : GuestStore(r, v)
    BY <1>1, <2>2 DEF GuestStore, Present
  <2> QED BY <1>1, <2>1, <2>2, ValuesAssumption DEF DiskNext, Reg
<1>2. DiskInv /\ [DiskNext]_diskVars => [Present => image' # NoImage /\ UNCHANGED shadow]_diskVars
  BY <1>1 DEF diskVars
<1> QED BY <1>2, DiskInvHolds, PTL DEF DiskSpec, DeviceHidesRam

\* The buffer changes only with a fresh DRQ or by initialisation.
THEOREM DiskDataChangesOnlyWithDrq == DiskSpec => DataChangesOnlyWithDrq
<1>1. ASSUME DiskNext, data' # data
      PROVE  status' = DRQ \/ (~mapped /\ mapped')
  <2>1. CASE \E file \in Files : Attach(file)
    BY <1>1, <2>1 DEF Attach
  <2>2. CASE \E r \in Reg, v \in Nat : GuestStore(r, v)
    BY <1>1, <2>2 DEF GuestStore, DeviceWrite, Command
  <2> QED BY <1>1, <2>1, <2>2, ValuesAssumption DEF DiskNext, Reg
<1>2. [DiskNext]_diskVars =>
        [data' # data => status' = DRQ \/ (~mapped /\ mapped')]_diskVars
  BY <1>1 DEF diskVars
<1> QED BY <1>2, PTL DEF DiskSpec, DataChangesOnlyWithDrq

(***************************************************************************)
(* The clock.  The strengthening says which time a frozen clock shows: the *)
(* latched one, which is not ahead of the host as long as no time was set. *)
(***************************************************************************)
\* What was read since the freeze belongs to the snapshot.
SeenIsLatched == frozen => \A f \in DOMAIN seen : seen[f] = Field(f, latched)

\* Without a set time, snapshots are past times and no read is ahead of what is shown.
NotAhead == ~set.done => latched <= now /\ best <= Shown

ClockInv == RtcTypeOK /\ SeenIsLatched /\ NotAhead

LEMMA NoReadsEmpty == DOMAIN NoReads = {}
BY DEF NoReads

LEMMA ClockBegins == RtcInit => ClockInv
<1> SUFFICES ASSUME RtcInit PROVE ClockInv
  OBVIOUS
<1>1. RtcTypeOK
  <2>1. 0 \in Times
    BY RtcAssumption DEF Times
  <2>2. NotSet \in [to : Times, at : Times, done : BOOLEAN]
    BY <2>1 DEF NotSet
  <2>3. now \in Times /\ latched \in Times /\ best \in Times /\ askedAt \in Times /\ nread \in 0 .. 3
    BY <2>1 DEF RtcInit
  <2>4. frozen \in BOOLEAN /\ wena \in BOOLEAN /\ seen = NoReads /\ set = NotSet
    BY DEF RtcInit
  <2> QED BY <2>2, <2>3, <2>4, NoReadsEmpty DEF RtcTypeOK
<1>2. SeenIsLatched
  BY DEF RtcInit, SeenIsLatched
<1>3. NotAhead
  BY DEF RtcInit, NotAhead, Shown, Times
<1> QED BY <1>1, <1>2, <1>3 DEF ClockInv

\* A read adds one field of what is shown and changes nothing of the clock.
LEMMA ReadKeeps ==
  ASSUME ClockInv, NEW f \in Fields, Read(f), askedAt' \in Times, nread' \in 0 .. 3
  PROVE  ClockInv'
<1>1. Shown \in Times /\ Shown' = Shown
  BY DEF ClockInv, RtcTypeOK, Shown, Read
<1>2. RtcTypeOK'
  BY <1>1 DEF ClockInv, RtcTypeOK, Read, Extend
<1>3. SeenIsLatched'
  BY DEF ClockInv, SeenIsLatched, Read, Extend, Shown
<1>4. NotAhead'
  BY <1>1 DEF ClockInv, RtcTypeOK, NotAhead, Read, Times
<1> QED BY <1>2, <1>3, <1>4 DEF ClockInv

LEMMA TickKeeps == ASSUME ClockInv, HostTick PROVE ClockInv'
BY RtcAssumption DEF ClockInv, RtcTypeOK, SeenIsLatched, NotAhead, HostTick, Shown, Times

LEMMA WriteCtrlKeeps ==
  ASSUME ClockInv, NEW freeze \in BOOLEAN, NEW enable \in BOOLEAN, WriteCtrl(freeze, enable)
  PROVE  ClockInv'
<1>1. RtcTypeOK'
  BY NoReadsEmpty DEF ClockInv, RtcTypeOK, WriteCtrl, Forget
<1>2. SeenIsLatched'
  BY NoReadsEmpty DEF ClockInv, RtcTypeOK, SeenIsLatched, WriteCtrl, Forget
<1>3. NotAhead'
  BY DEF ClockInv, RtcTypeOK, NotAhead, WriteCtrl, Shown, Times
<1> QED BY <1>1, <1>2, <1>3 DEF ClockInv

LEMMA WriteSetSecsKeeps == ASSUME ClockInv, NEW secs \in Times, WriteSetSecs(secs) PROVE ClockInv'
<1>1. CASE wena
  <2>1. set' = [to |-> secs, at |-> now, done |-> TRUE] /\ seen' = NoReads
    BY <1>1 DEF WriteSetSecs
  <2>2. set' \in [to : Times, at : Times, done : BOOLEAN] /\ set'.done
    BY <2>1 DEF ClockInv, RtcTypeOK
  <2>3. RtcTypeOK'
    BY <1>1, <2>1, <2>2, NoReadsEmpty DEF ClockInv, RtcTypeOK, WriteSetSecs
  <2> QED BY <2>1, <2>2, <2>3, NoReadsEmpty DEF ClockInv, SeenIsLatched, NotAhead
<1>2. CASE ~wena
  BY <1>2 DEF ClockInv, RtcTypeOK, SeenIsLatched, NotAhead, WriteSetSecs, Shown
<1> QED BY <1>1, <1>2

LEMMA WriteClearKeeps == ASSUME ClockInv, WriteClear PROVE ClockInv'
<1>1. RtcTypeOK'
  BY NoReadsEmpty DEF ClockInv, RtcTypeOK, WriteClear, Forget
<1>2. SeenIsLatched'
  BY DEF SeenIsLatched, WriteClear
<1>3. NotAhead'
  BY DEF ClockInv, RtcTypeOK, NotAhead, WriteClear, Shown, Times
<1> QED BY <1>1, <1>2, <1>3 DEF ClockInv

LEMMA DoTimeKeeps == ASSUME ClockInv, DoTime PROVE ClockInv'
<1>1. /\ askedAt' \in Times /\ nread' \in 1 .. 3
      /\ Read(TimeFields[nread'])
  BY DEF DoTime, ClockInv, RtcTypeOK
<1>2. TimeFields[nread'] \in Fields
  BY <1>1 DEF TimeFields, Fields
<1> QED BY <1>1, <1>2, ReadKeeps

LEMMA ClockStep == ClockInv /\ [RtcNext]_rtcVars => ClockInv'
<1> SUFFICES ASSUME ClockInv, [RtcNext]_rtcVars PROVE ClockInv'
  OBVIOUS
<1>1. CASE HostTick
  BY <1>1, TickKeeps
<1>2. ASSUME NEW f \in Fields, Read(f), UNCHANGED display PROVE ClockInv'
  BY <1>2, ReadKeeps DEF display, ClockInv, RtcTypeOK
<1>3. ASSUME NEW freeze \in BOOLEAN, NEW enable \in BOOLEAN, WriteCtrl(freeze, enable) PROVE ClockInv'
  BY <1>3, WriteCtrlKeeps
<1>4. ASSUME NEW secs \in Times, WriteSetSecs(secs) PROVE ClockInv'
  BY <1>4, WriteSetSecsKeeps
<1>5. CASE WriteClear
  BY <1>5, WriteClearKeeps
<1>6. CASE DoTime
  BY <1>6, DoTimeKeeps
<1>7. CASE UNCHANGED rtcVars
  BY <1>7 DEF rtcVars, ClockInv, RtcTypeOK, SeenIsLatched, NotAhead, Shown
<1> QED BY <1>1, <1>2, <1>3, <1>4, <1>5, <1>6, <1>7 DEF RtcNext

LEMMA ClockInvHolds == RtcSpec => []ClockInv
BY ClockBegins, ClockStep, PTL DEF RtcSpec

\* Every time the clock keeps is a time, for every bound (dev_rtc_write32 and
\* dev_rtc_read32 neither add nor lose seconds).
THEOREM ClockTyped == RtcSpec => []RtcTypeOK
BY ClockInvHolds, PTL DEF ClockInv

\* However FREEZE, WENA, SET_SECS and CLEAR are used, what is read from a frozen
\* clock is one time.
THEOREM FrozenReadsOfOneTime == RtcSpec => []FrozenReadsAgree
<1>1. ClockInv => FrozenReadsAgree
  BY DEF ClockInv, RtcTypeOK, SeenIsLatched, FrozenReadsAgree
<1> QED BY <1>1, ClockInvHolds, PTL

\* Reads of SECONDS never go back while no time was set.
THEOREM ReadsNeverGoBack == RtcSpec => []TimeNeverGoesBack
<1>1. ClockInv => TimeNeverGoesBack
  BY DEF ClockInv, NotAhead, TimeNeverGoesBack
<1> QED BY <1>1, ClockInvHolds, PTL

(***************************************************************************)
(* Memory and its windows.                                                 *)
(***************************************************************************)
\* How many values bytes, halfwords and words have.
LEMMA Sizes ==
  /\ ByteValues \in Nat \ {0} /\ HalfValues \in Nat \ {0} /\ WordValues \in Nat \ {0}
  /\ HalfValues = ByteValues * ByteValues /\ WordValues = HalfValues * HalfValues
  /\ ByteValues <= HalfValues /\ HalfValues <= WordValues
<1>1. \A m \in Nat \ {0} : m * m \in Nat \ {0} /\ m <= m * m
  OBVIOUS
<1> QED BY <1>1, MemAssumption DEF HalfValues, WordValues

\* Two digits make a number of two digits.
LEMMA TwoDigits ==
  ASSUME NEW m \in Nat \ {0}, NEW lo \in 0 .. m - 1, NEW hi \in 0 .. m - 1
  PROVE  lo + m * hi \in 0 .. m * m - 1
<1>1. m * hi \in Nat /\ m * hi <= m * (m - 1)
  OBVIOUS
<1>2. m * (m - 1) = m * m - m
  OBVIOUS
<1> QED BY <1>1, <1>2

LEMMA ByteTyped ==
  ASSUME NEW v \in 0 .. WordValues - 1, NEW i \in 0 .. 3
  PROVE  ByteOf(v, i) \in 0 .. ByteValues - 1
<1>1. \A p, m \in Nat \ {0} : (v \div p) % m \in 0 .. m - 1
  <2>1. v \in Nat
    BY Sizes
  <2> QED BY <2>1
<1>2. ByteValues * HalfValues \in Nat \ {0}
  BY Sizes
<1>3. CASE i = 0
  BY <1>1, <1>3, Sizes DEF ByteOf
<1>4. CASE i = 1
  BY <1>1, <1>4, Sizes DEF ByteOf
<1>5. CASE i = 2
  BY <1>1, <1>5, Sizes DEF ByteOf
<1>6. CASE i = 3
  BY <1>1, <1>2, <1>6, Sizes DEF ByteOf
<1> QED BY <1>3, <1>4, <1>5, <1>6

LEMMA HalfTyped ==
  ASSUME MemTypeOK, NEW a \in Nat, InRange(a, 2)
  PROVE  Half(a) \in 0 .. HalfValues - 1
<1>1. a \in 0 .. RamSize - 1 /\ a + 1 \in 0 .. RamSize - 1
  BY MemAssumption DEF InRange
<1>2. ram[a] \in 0 .. ByteValues - 1 /\ ram[a + 1] \in 0 .. ByteValues - 1
  BY <1>1 DEF MemTypeOK
<1> QED BY <1>2, TwoDigits, Sizes DEF Half

\* What RAM answers is a word, of whatever width it was read.
LEMMA ReadRamTyped ==
  ASSUME MemTypeOK, NEW a \in MemAddrs, NEW n \in {1, 2, 4}
  PROVE  ReadRam(a, n) \in 0 .. WordValues - 1
<1>1. a \in Nat
  BY MemAssumption DEF MemAddrs
<1>2. CASE ~InRange(a, n)
  BY <1>2, Sizes DEF ReadRam
<1>3. CASE InRange(a, n) /\ n = 1
  <2>1. a \in 0 .. RamSize - 1
    BY <1>1, <1>3, MemAssumption DEF InRange
  <2>2. ram[a] \in 0 .. ByteValues - 1
    BY <2>1 DEF MemTypeOK
  <2> QED BY <1>3, <2>2, Sizes DEF ReadRam, Little
<1>4. CASE InRange(a, n) /\ n = 2
  <2>1. Half(a) \in 0 .. HalfValues - 1
    BY <1>1, <1>4, HalfTyped
  <2> QED BY <1>4, <2>1, Sizes DEF ReadRam, Little
<1>5. CASE InRange(a, n) /\ n = 4
  <2>1. InRange(a, 2) /\ InRange(a + 2, 2) /\ a + 2 \in Nat
    BY <1>1, <1>5, MemAssumption DEF InRange
  <2>2. Half(a) \in 0 .. HalfValues - 1 /\ Half(a + 2) \in 0 .. HalfValues - 1
    BY <1>1, <2>1, HalfTyped
  <2>3. Half(a) + HalfValues * Half(a + 2) \in 0 .. HalfValues * HalfValues - 1
    BY <2>2, TwoDigits, Sizes
  <2> QED BY <1>5, <2>3, Sizes DEF ReadRam, Little
<1> QED BY <1>2, <1>3, <1>4, <1>5

\* A store changes the bytes it names and no others.
LEMMA StoreTyped ==
  ASSUME MemTypeOK, NEW a \in MemAddrs, NEW n \in {1, 2, 4}, NEW v \in Words, ram' = RamWith(a, n, v)
  PROVE  /\ ram' \in [0 .. RamSize - 1 -> 0 .. ByteValues - 1]
         /\ \A x \in DOMAIN ram : x \notin Bytes(a, n) => ram'[x] = ram[x]
<1>1. ram \in [0 .. RamSize - 1 -> 0 .. ByteValues - 1] /\ a \in Nat /\ v \in 0 .. WordValues - 1
  BY MemAssumption DEF MemTypeOK, MemAddrs
<1>2. ASSUME NEW x \in 0 .. RamSize - 1, x \in Bytes(a, n)
      PROVE  ByteOf(v, x - a) \in 0 .. ByteValues - 1
  <2>1. x - a \in 0 .. 3
    BY <1>1, <1>2 DEF Bytes
  <2> QED BY <1>1, <2>1, ByteTyped
<1> QED BY <1>1, <1>2 DEF RamWith

\* A device answers with a register of its window, however the access is aligned.
LEMMA RegisterInWindow ==
  ASSUME NEW d \in Devices, NEW a \in MemAddrs, a \in Window(d)
  PROVE  /\ Register(d, a) \in {r \in 0 .. Size[d] - 1 : r % 4 = 0}
         /\ Register(d, a) \in 0 .. WordValues - 1
<1>1. Base[d] \in Nat /\ Base[d] % 4 = 0 /\ Size[d] \in Nat /\ Size[d] <= WordValues /\ WordValues \in Nat
  BY WindowAssumption, Sizes
<1>2. a \in Nat /\ Base[d] <= a /\ a <= Base[d] + Size[d] - 1
  BY <1>1, MemAssumption DEF MemAddrs, Window
<1>3. ASSUME NEW b \in Nat, NEW x \in Nat, NEW s \in Nat, b % 4 = 0, b <= x, x <= b + s - 1
      PROVE  LET r == x - (x % 4) - b IN r \in 0 .. s - 1 /\ r % 4 = 0
  BY <1>3
<1>4. Register(d, a) \in 0 .. Size[d] - 1 /\ Register(d, a) % 4 = 0
  BY <1>1, <1>2, <1>3 DEF Register
<1> QED BY <1>1, <1>4

\* The inductive invariant: MemInv without ViewsAgree, which follows.
MemKept == MemTypeOK /\ KeptUnderDisk

LEMMA ReadNarrowKeeps ==
  ASSUME MemKept, NEW a \in MemAddrs, NEW n \in {1, 2}, ReadNarrow(a, n) PROVE MemKept'
<1>1. ReadRam(a, n) \in 0 .. WordValues - 1
  BY ReadRamTyped DEF MemKept
<1>2. answered'.value \in 0 .. WordValues - 1 /\ answered'.from \notin Devices
  BY <1>1 DEF ReadNarrow, FromRam, Devices
<1> QED BY <1>2 DEF MemKept, MemTypeOK, KeptUnderDisk, ReadNarrow, Same, Window

LEMMA Read32Keeps ==
  ASSUME MemKept, NEW a \in MemAddrs, Read32(a) PROVE MemKept'
<1>1. UNCHANGED <<live, before, ram, printed, touched, stores>> /\ live \subseteq Devices
  BY DEF Read32, Same, MemKept, MemTypeOK
<1>2. CASE FromRam(ReadRam(a, 4))
  <2>1. ReadRam(a, 4) \in 0 .. WordValues - 1
    BY ReadRamTyped DEF MemKept
  <2>2. answered'.value \in 0 .. WordValues - 1 /\ answered'.from \notin Devices
    BY <1>2, <2>1 DEF FromRam, Devices
  <2> QED BY <1>1, <2>2 DEF MemKept, MemTypeOK, KeptUnderDisk, Window
<1>3. ASSUME NEW d \in Claims(a),
             answered' = [from |-> d, value |-> IF d = "uart" THEN UartRead(Register(d, a))
                                                ELSE Register(d, a)]
      PROVE  MemKept'
  <2>1. d \in Devices /\ a \in Window(d)
    BY <1>1 DEF Claims
  <2>2. UartRead(Register(d, a)) \in 0 .. WordValues - 1
    BY Sizes, MemAssumption DEF UartRead
  <2>3. /\ answered'.value \in 0 .. WordValues - 1 /\ answered'.from = d
        /\ d # "uart" => answered'.value \in {r \in 0 .. Size[d] - 1 : r % 4 = 0}
    BY <1>3, <2>1, <2>2, RegisterInWindow
  <2> QED BY <1>1, <2>3 DEF MemKept, MemTypeOK, KeptUnderDisk, Window
<1> QED BY <1>2, <1>3 DEF Read32

\* What a store to RAM changes under the disk's window it remembers.
LEMMA StoreKeeps ==
  ASSUME MemKept, NEW a \in MemAddrs, NEW n \in {1, 2, 4}, NEW v \in Words,
         ram' = RamWith(a, n, v), Under(a, n), UNCHANGED <<live, answered, before>>
  PROVE  MemKept'
<1>1. /\ ram' \in [0 .. RamSize - 1 -> 0 .. ByteValues - 1]
      /\ \A x \in DOMAIN ram : x \notin Bytes(a, n) => ram'[x] = ram[x]
      /\ ram \in [0 .. RamSize - 1 -> 0 .. ByteValues - 1]
  BY StoreTyped DEF MemKept, MemTypeOK
<1>2. MemTypeOK'
  BY <1>1 DEF MemKept, MemTypeOK
<1>3. KeptUnderDisk'
  BY <1>1 DEF MemKept, KeptUnderDisk, Under, Window
<1> QED BY <1>2, <1>3 DEF MemKept

LEMMA MemStep == MemKept /\ [MemNext]_memVars => MemKept'
<1> SUFFICES ASSUME MemKept, [MemNext]_memVars PROVE MemKept'
  OBVIOUS
<1>1. ASSUME NEW a \in MemAddrs, NEW n \in {1, 2}, ReadNarrow(a, n) PROVE MemKept'
  BY <1>1, ReadNarrowKeeps
<1>2. ASSUME NEW a \in MemAddrs, Read32(a) PROVE MemKept'
  BY <1>2, Read32Keeps
<1>3. ASSUME NEW a \in MemAddrs, NEW n \in {1, 2}, NEW v \in Words, WriteNarrow(a, n, v) PROVE MemKept'
  BY <1>3, StoreKeeps DEF WriteNarrow
<1>4. ASSUME NEW a \in MemAddrs, NEW v \in Words, Write32(a, v) PROVE MemKept'
  <2>1. CASE Claims(a) = {}
    BY <1>4, <2>1, StoreKeeps DEF Write32
  <2>2. CASE Claims(a) # {}
    BY <1>4, <2>2 DEF Write32, MemKept, MemTypeOK, KeptUnderDisk, Window
  <2> QED BY <2>1, <2>2
<1>5. CASE AttachDisk
  BY <1>5 DEF AttachDisk, MemKept, MemTypeOK, KeptUnderDisk, Window, Devices
<1>6. CASE DetachDisk
  BY <1>6 DEF DetachDisk, MemKept, MemTypeOK, KeptUnderDisk, Window
<1>7. CASE UNCHANGED memVars
  BY <1>7 DEF memVars, MemKept, MemTypeOK, KeptUnderDisk, Window
<1> QED BY <1>1, <1>2, <1>3, <1>4, <1>5, <1>6, <1>7 DEF MemNext

LEMMA MemBegins == MemInit => MemKept
BY Sizes, MemAssumption DEF MemInit, MemKept, MemTypeOK, KeptUnderDisk, Devices

\* The three widths show one memory.
LEMMA ViewsAreOne == MemKept => ViewsAgree
<1> SUFFICES ASSUME MemKept, NEW a \in MemAddrs
             PROVE  /\ ReadRam(a, 4) = IF a + 4 <= RamSize
                                       THEN ReadRam(a, 2) + HalfValues * ReadRam(a + 2, 2) ELSE 0
                    /\ a + 2 <= RamSize => ReadRam(a, 2) = ReadRam(a, 1) + ByteValues * ReadRam(a + 1, 1)
  BY DEF ViewsAgree
<1>1. a \in Nat /\ RamSize \in Nat
  BY MemAssumption DEF MemAddrs
<1>2. a + 4 <= RamSize => a + 2 <= RamSize /\ (a + 2) + 2 <= RamSize
  BY <1>1
<1>3. a + 2 <= RamSize => a + 1 <= RamSize /\ (a + 1) + 1 <= RamSize
  BY <1>1
<1> QED BY <1>1, <1>2, <1>3 DEF ReadRam, InRange, Little, Half

\* For every size of RAM, every map of whole-word windows and every sequence of
\* accesses: what is answered is a word, a device answers with its own registers,
\* the widths agree where no window is in the way, and a disk that comes and goes
\* leaves the RAM below its window as the guest left it (mem_read*, mem_write*).
THEOREM MemoryKeeps == MemSpec => []MemInv
<1>1. MemKept => MemInv
  BY ViewsAreOne DEF MemKept, MemInv
<1> QED BY <1>1, MemBegins, MemStep, PTL DEF MemSpec

(***************************************************************************)
(* The device table: devices whose windows end below the top never share   *)
(* an address.                                                             *)
(***************************************************************************)
USE DEF BusAddrs

\* The windows of two devices one after the other.
Apart(a, b) == a.base + a.size <= b.base \/ b.base + b.size <= a.base

\* The inductive invariant: what BusAttach compared is the windows themselves as
\* long as neither end wraps; a pair is compared once, when its later one comes.
AllApart ==
  \A i, j \in DOMAIN devs :
    i # j => Wraps(devs[i]) \/ Wraps(devs[j]) \/ Apart(devs[i], devs[j])

TableApart == devs \in Seq(Catalog) /\ AllApart

-----------------------------------------------------------------------------
\* A remainder by the size of the space, once reduced.
LEMMA ModOnce ==
  ASSUME NEW x \in Int
  PROVE  /\ x \in 0 .. Space - 1 => x % Space = x
         /\ x \in -Space .. -1 => x % Space = x + Space
BY BusAssumption, Z3

\* The device of a catalog is in the space.
LEMMA CatalogTyped ==
  ASSUME NEW d \in Catalog
  PROVE  d.base \in 0 .. Space - 1 /\ d.size \in 0 .. Space - 1
BY BusAssumption

\* What the unsigned difference tests is the window, when that does not wrap.
LEMMA HoldsIsWindow ==
  ASSUME NEW d \in Catalog, ~Wraps(d), NEW addr \in BusAddrs, Holds(d, addr)
  PROVE  d.base <= addr /\ addr < d.base + d.size
<1> DEFINE x == addr - d.base
<1>1. d.base \in 0 .. Space - 1 /\ d.size \in 0 .. Space - 1 /\ Space \in Nat
  BY CatalogTyped, BusAssumption
<1>2. x \in Int /\ x \in -Space .. Space - 1
  BY <1>1
<1>3. x % Space < d.size
  BY DEF Holds
<1>4. CASE x >= 0
  <2>1. x % Space = x
    BY ModOnce, <1>2, <1>4, <1>1
  <2> QED
    BY <2>1, <1>1, <1>3, <1>4
<1>5. CASE x < 0
  <2>1. x % Space = x + Space
    BY ModOnce, <1>2, <1>5, <1>1
  <2> QED
    BY <2>1, <1>1, <1>2, <1>3, <1>5 DEF Wraps
<1> QED
  BY <1>2, <1>4, <1>5

\* Windows that do not wrap and pass the test are one after the other.
LEMMA PassedIsApart ==
  ASSUME NEW a \in Catalog, NEW b \in Catalog, ~Wraps(a), ~Wraps(b), ~Overlaps(a, b)
  PROVE  Apart(a, b)
<1>1. /\ a.base \in 0 .. Space - 1 /\ a.size \in 0 .. Space - 1
      /\ b.base \in 0 .. Space - 1 /\ b.size \in 0 .. Space - 1 /\ Space \in Nat
  BY CatalogTyped, BusAssumption
<1>2. End(a) = a.base + a.size
  BY ModOnce, <1>1 DEF End, Wraps
<1>3. End(b) = b.base + b.size
  BY ModOnce, <1>1 DEF End, Wraps
<1> QED
  BY <1>1, <1>2, <1>3 DEF Overlaps, Apart

\* A table of such windows answers every address at most once.
LEMMA ApartIsOne == TableApart => OneAnswers
<1> SUFFICES ASSUME TableApart, NEW addr \in BusAddrs, NEW i \in Found(addr), NEW j \in Found(addr),
                    ~Wraps(devs[i]), ~Wraps(devs[j]), i # j
             PROVE  FALSE
  BY DEF OneAnswers
<1>1. i \in DOMAIN devs /\ j \in DOMAIN devs /\ Holds(devs[i], addr) /\ Holds(devs[j], addr)
  BY DEF Found
<1>2. devs[i] \in Catalog /\ devs[j] \in Catalog
  BY <1>1 DEF TableApart
<1>3. /\ devs[i].base <= addr /\ addr < devs[i].base + devs[i].size
      /\ devs[j].base <= addr /\ addr < devs[j].base + devs[j].size
  BY <1>1, <1>2, HoldsIsWindow
<1>4. Apart(devs[i], devs[j])
  BY <1>1 DEF TableApart, AllApart
<1>5. /\ devs[i].base \in Int /\ devs[i].size \in Int /\ devs[j].base \in Int
      /\ devs[j].size \in Int /\ addr \in Int
  BY <1>2, CatalogTyped, BusAssumption
<1> QED
  BY <1>3, <1>4, <1>5 DEF Apart

-----------------------------------------------------------------------------
LEMMA BusAttachKeeps == ASSUME TableApart, NEW d \in Catalog, BusAttach(d) PROVE TableApart'
<1>1. devs \in Seq(Catalog) /\ devs' = Append(devs, d) /\ AllApart
  BY DEF BusAttach, TableApart
<1>2. devs' \in Seq(Catalog)
  BY <1>1
<1>3. /\ DOMAIN devs' = DOMAIN devs \union {Len(devs) + 1}
      /\ \A i \in DOMAIN devs : devs'[i] = devs[i]
      /\ devs'[Len(devs) + 1] = d
  BY <1>1
<1>4. \A i \in DOMAIN devs :
        devs[i] \in Catalog /\ (Wraps(devs[i]) \/ Wraps(d) \/ Apart(devs[i], d))
  <2> SUFFICES ASSUME NEW i \in DOMAIN devs
               PROVE  devs[i] \in Catalog /\ (Wraps(devs[i]) \/ Wraps(d) \/ Apart(devs[i], d))
    OBVIOUS
  <2>1. devs[i] \in Catalog
    BY <1>1
  <2>2. ~Overlaps(devs[i], d)
    BY DEF BusAttach
  <2> QED
    BY <2>1, <2>2, PassedIsApart
<1>5. ASSUME NEW i \in DOMAIN devs', NEW j \in DOMAIN devs', i # j
      PROVE  \/ Wraps(devs'[i]) \/ Wraps(devs'[j]) \/ Apart(devs'[i], devs'[j])
  <2>1. CASE i \in DOMAIN devs /\ j \in DOMAIN devs
    BY <2>1, <1>1, <1>3, <1>5 DEF AllApart
  <2>2. CASE i \in DOMAIN devs /\ j = Len(devs) + 1
    BY <2>2, <1>3, <1>4
  <2>3. CASE i = Len(devs) + 1 /\ j \in DOMAIN devs
    BY <2>3, <1>3, <1>4 DEF Apart
  <2> QED
    BY <2>1, <2>2, <2>3, <1>3, <1>5
<1>6. AllApart'
  BY <1>5 DEF AllApart, Wraps, Apart
<1> QED
  BY <1>2, <1>6 DEF TableApart

LEMMA TableInvHolds == BusSpec => []TableApart
<1>1. BusInit => TableApart
  BY DEF BusInit, TableApart, AllApart
<1>2. TableApart /\ [BusNext]_busVars => TableApart'
  <2> SUFFICES ASSUME TableApart, [BusNext]_busVars PROVE TableApart'
    OBVIOUS
  <2>1. CASE HwBusInit
    BY <2>1 DEF HwBusInit, TableApart, AllApart
  <2>2. ASSUME NEW d \in Catalog, BusAttach(d) PROVE TableApart'
    BY <2>2, BusAttachKeeps
  <2>3. CASE UNCHANGED devs
    BY <2>3 DEF TableApart, AllApart, Wraps, Apart
  <2> QED
    BY <2>1, <2>2, <2>3 DEF BusNext, SetScale, Access, HwBusTick, busVars
<1> QED
  BY <1>1, <1>2, PTL DEF BusSpec

\* For every space, room and catalog: no address is answered by two devices
\* whose windows end below the top of the space.
THEOREM OneDeviceAnswers == BusSpec => []OneAnswers
BY TableInvHolds, ApartIsOne, PTL
=============================================================================
