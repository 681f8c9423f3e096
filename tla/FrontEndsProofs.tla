---------------------------- MODULE FrontEndsProofs ----------------------------
(***************************************************************************)
(* What a user sees, for every value of the constants: the window's        *)
(* session, the table of variables, the monitor's line editor, and the     *)
(* settings and the scripts of the command line.                           *)
(***************************************************************************)
EXTENDS RunxSession, SessionVars, Monitor, ArmRunCli, SequenceTheorems, ArithmeticLemmas

-----------------------------------------------------------------------------
(***************************************************************************)
(* The window (RunxSession).  TypeOK, the timer and the two statements     *)
(* about what was prepared are inductive together; that a successful       *)
(* preparation leaves the machine Current rests on LoadOrder naming every  *)
(* slot.                                                                   *)
(***************************************************************************)
SessionIInv == TypeOK /\ TimerFollowsRunning /\ RunningWasPrepared /\ PreparedIsCurrent

\* RAM after some of the slots were loaded holds only what slots may hold.
LEMMA RamAfterType ==
  ASSUME TypeOK, NEW n \in Int
  PROVE  RamAfter(n) \in [Slots -> Images \cup {BuiltIn, Torn, None}]
BY DEF TypeOK, RamAfter, Stored, Source, Configured

\* All slots are loaded when all of LoadOrder is.
LEMMA AllLoaded == LoadedSlots(Len(LoadOrder)) = Slots
BY SlotAssumption DEF LoadedSlots

LEMMA SessionInitInv == Init => SessionIInv
BY SlotAssumption
DEF Init, SessionIInv, TypeOK, TimerFollowsRunning, RunningWasPrepared, PreparedIsCurrent

\* prepare_machine that succeeds leaves the machine of the configuration.
LEMMA PrepareMakesCurrent ==
  ASSUME TypeOK, PrepareSucceeds, UNCHANGED config
  PROVE  /\ Current' /\ prepared' = TRUE /\ entered' \in Slots
         /\ ram' \in [Slots -> Images \cup {BuiltIn, Torn, None}]
<1>1. ram' = RamAfter(Len(LoadOrder)) /\ entered' = target /\ prepared' = TRUE
  BY DEF PrepareSucceeds
<1>2. \A s \in Slots : ram'[s] = Stored(s)
  BY <1>1, AllLoaded DEF RamAfter
<1>3. \A s \in Slots : Configured(s)' => ram'[s] = Source(s)'
  BY <1>2 DEF Stored, Configured, Source, config
<1>4. Len(LoadOrder) \in Int
  BY SlotAssumption
<1> QED BY <1>1, <1>3, <1>4, RamAfterType DEF Current, config, TypeOK

\* One that does not either changes nothing or leaves a machine not entered.
LEMMA PrepareFailing ==
  ASSUME TypeOK, PrepareFails
  PROVE  /\ prepared' = prepared
         /\ \/ UNCHANGED machine
            \/ /\ entered' = None /\ halted' = FALSE
               /\ ram' \in [Slots -> Images \cup {BuiltIn, Torn, None}]
<1>1. CASE PrepareRefused
  BY <1>1 DEF PrepareRefused
<1>2. ASSUME NEW i \in DOMAIN LoadOrder, PrepareFailsAt(i)
      PROVE  /\ prepared' = prepared /\ entered' = None /\ halted' = FALSE
             /\ ram' \in [Slots -> Images \cup {BuiltIn, Torn, None}]
  <2>1. i - 1 \in Int
    BY SlotAssumption
  <2>2. RamAfter(i - 1) \in [Slots -> Images \cup {BuiltIn, Torn, None}]
    BY <2>1, RamAfterType
  <2> QED BY <1>2, <2>2 DEF PrepareFailsAt
<1> QED BY <1>1, <1>2 DEF PrepareFails

-----------------------------------------------------------------------------
\* Steps that leave configuration, RAM and PC alone.
LEMMA SessionKeepInv ==
  ASSUME SessionIInv, UNCHANGED <<target, embedded, path, ram, entered, prepared>>,
         running' => running, running' <=> timer',
         running' \in BOOLEAN, timer' \in BOOLEAN, posted' \in BOOLEAN,
         halted' \in BOOLEAN, dialog' \in Slots \cup {None}
  PROVE  SessionIInv'
<1> USE DEF SessionIInv
<1>1. TypeOK'
  BY DEF TypeOK
<1>2. TimerFollowsRunning' /\ RunningWasPrepared'
  BY DEF TimerFollowsRunning, RunningWasPrepared
<1>3. PreparedIsCurrent'
  BY DEF PreparedIsCurrent, Current, Configured, Source
<1> QED BY <1>1, <1>2, <1>3

LEMMA SessionUnchangedInv == SessionIInv /\ UNCHANGED vars => SessionIInv' /\ running' = running
<1> SUFFICES ASSUME SessionIInv, UNCHANGED vars PROVE SessionIInv' /\ running' = running
  OBVIOUS
<1>1. /\ UNCHANGED <<target, embedded, path, ram, entered, prepared>>
      /\ running' = running /\ timer' = timer /\ posted' = posted /\ halted' = halted
      /\ dialog' = dialog
  BY DEF vars, config, machine
<1> QED BY <1>1, SessionKeepInv DEF SessionIInv, TypeOK, TimerFollowsRunning

LEMMA FailureInv ==
  ASSUME SessionIInv, PrepareFails, ~running, UNCHANGED <<running, timer, config, posted, dialog>>
  PROVE  SessionIInv'
<1> USE DEF SessionIInv
<1>1. CASE UNCHANGED machine /\ prepared' = prepared
  <2>1. UNCHANGED vars
    BY <1>1 DEF vars
  <2> QED BY <2>1, SessionUnchangedInv
<1>2. CASE /\ entered' = None /\ halted' = FALSE /\ prepared' = prepared
           /\ ram' \in [Slots -> Images \cup {BuiltIn, Torn, None}]
  <2>1. TypeOK'
    BY <1>2 DEF TypeOK, config
  <2>2. TimerFollowsRunning' /\ RunningWasPrepared'
    BY DEF TimerFollowsRunning, RunningWasPrepared
  <2>3. PreparedIsCurrent'
    BY <1>2 DEF PreparedIsCurrent
  <2> QED BY <2>1, <2>2, <2>3
<1> QED BY <1>1, <1>2, PrepareFailing

LEMMA SuccessInv ==
  ASSUME SessionIInv, PrepareSucceeds, UNCHANGED <<config, posted, dialog>>,
         halted' \in BOOLEAN, running' \in BOOLEAN, timer' \in BOOLEAN, running' <=> timer'
  PROVE  SessionIInv' /\ Current'
<1>1. /\ Current' /\ prepared' = TRUE /\ entered' \in Slots
      /\ ram' \in [Slots -> Images \cup {BuiltIn, Torn, None}]
  BY PrepareMakesCurrent DEF SessionIInv
<1>2. TypeOK'
  BY <1>1 DEF SessionIInv, TypeOK, config
<1>3. TimerFollowsRunning'
  BY DEF TimerFollowsRunning
<1>4. RunningWasPrepared' /\ PreparedIsCurrent'
  BY <1>1, SlotAssumption DEF RunningWasPrepared, PreparedIsCurrent
<1> QED BY <1>1, <1>2, <1>3, <1>4 DEF SessionIInv

LEMMA StartInv == SessionIInv /\ Start => SessionIInv' /\ (running' => running \/ Current')
<1> SUFFICES ASSUME SessionIInv, Start PROVE SessionIInv' /\ (running' => running \/ Current')
  OBVIOUS
<1>1. CASE PrepareFails /\ UNCHANGED <<running, timer>>
  BY <1>1, FailureInv DEF Start
<1>2. CASE PrepareSucceeds /\ halted' = FALSE /\ UNCHANGED <<running, timer>>
  BY <1>2, SuccessInv DEF Start, SessionIInv, TypeOK, TimerFollowsRunning
<1>3. CASE PrepareSucceeds /\ halted' = FALSE /\ timer' = TRUE /\ running' = TRUE
  BY <1>3, SuccessInv DEF Start
<1> QED BY <1>1, <1>2, <1>3 DEF Start

LEMMA StepUnpreparedInv == SessionIInv /\ StepUnprepared => SessionIInv' /\ running' = running
<1> SUFFICES ASSUME SessionIInv, StepUnprepared PROVE SessionIInv'
  BY DEF StepUnprepared
<1>1. CASE PrepareFails
  BY <1>1, FailureInv DEF StepUnprepared
<1>2. CASE PrepareSucceeds /\ halted' \in BOOLEAN
  BY <1>2, SuccessInv DEF StepUnprepared, SessionIInv, TypeOK, TimerFollowsRunning
<1> QED BY <1>1, <1>2 DEF StepUnprepared

\* Commands that select something leave the machine unprepared.
LEMMA SelectionInv ==
  ASSUME SessionIInv,
         \/ UseEmbedded \/ \E s \in Slots : SelectTarget(s)
         \/ \E img \in Images : ChooseImage(img)
  PROVE  SessionIInv' /\ running' = running
<1>1. CASE UseEmbedded
  BY <1>1 DEF SessionIInv, UseEmbedded, TypeOK, TimerFollowsRunning, RunningWasPrepared,
              PreparedIsCurrent, machine
<1>2. ASSUME NEW s \in Slots, SelectTarget(s) PROVE SessionIInv' /\ running' = running
  BY <1>2 DEF SessionIInv, SelectTarget, TypeOK, TimerFollowsRunning, RunningWasPrepared,
              PreparedIsCurrent, machine
<1>3. ASSUME NEW img \in Images, ChooseImage(img) PROVE SessionIInv' /\ running' = running
  <2>1. path' \in [Slots -> Images \cup {None}]
    BY <1>3 DEF SessionIInv, TypeOK, ChooseImage
  <2>2. embedded' \in BOOLEAN /\ (embedded' \/ path'[Bios] # None)
    BY <1>3, ImageAssumption, SlotAssumption DEF SessionIInv, TypeOK, ChooseImage
  <2> QED
    BY <1>3, <2>1, <2>2
    DEF SessionIInv, ChooseImage, TypeOK, TimerFollowsRunning, RunningWasPrepared,
        PreparedIsCurrent, machine
<1> QED BY <1>1, <1>2, <1>3

LEMMA OtherInv ==
  ASSUME SessionIInv,
         \/ Stop \/ StepPrepared \/ RunBounded \/ Cancel \/ TimerElapses \/ Tick
         \/ \E s \in Slots : OpenDialog(s)
  PROVE  SessionIInv' /\ (running' => running)
<1> USE DEF config, machine
<1>t. /\ running \in BOOLEAN /\ timer \in BOOLEAN /\ posted \in BOOLEAN
      /\ halted \in BOOLEAN /\ dialog \in Slots \cup {None} /\ (running <=> timer)
  BY DEF SessionIInv, TypeOK, TimerFollowsRunning
<1>1. CASE Stop
  BY <1>t, <1>1, SessionKeepInv DEF Stop
<1>2. CASE StepPrepared \/ RunBounded
  <2>1. halted' = halted \/ halted' = TRUE
    BY <1>2 DEF StepPrepared, RunBounded, Executes
  <2>2. halted' \in BOOLEAN
    BY <1>t, <2>1
  <2>3. UNCHANGED <<running, prepared, target, embedded, path, timer, posted, dialog, ram,
                    entered>>
    BY <1>2 DEF StepPrepared, RunBounded, Executes
  <2> QED BY <1>t, <2>2, <2>3, SessionKeepInv
<1>3. CASE Cancel
  BY <1>t, <1>3, SessionKeepInv DEF Cancel
<1>4. CASE TimerElapses
  BY <1>t, <1>4, SessionKeepInv DEF TimerElapses
<1>5. CASE Tick
  <2>1. CASE RunSlice
    <3>1. /\ posted' = FALSE
          /\ UNCHANGED <<prepared, target, embedded, path, dialog, ram, entered>>
      BY <1>5, <2>1 DEF Tick, RunSlice
    <3>2. CASE UNCHANGED <<halted, running, timer>>
      BY <1>t, <3>1, <3>2, SessionKeepInv
    <3>3. CASE halted' = TRUE /\ running' = FALSE /\ timer' = FALSE
      BY <1>t, <3>1, <3>3, SessionKeepInv
    <3> QED BY <2>1, <3>2, <3>3 DEF RunSlice
  <2>2. CASE ~running /\ UNCHANGED <<machine, running, timer>>
    BY <1>t, <1>5, <2>2, SessionKeepInv DEF Tick
  <2> QED BY <1>5, <2>1, <2>2 DEF Tick
<1>6. CASE \E s \in Slots : OpenDialog(s)
  BY <1>t, <1>6, SessionKeepInv DEF OpenDialog
<1> QED BY <1>1, <1>2, <1>3, <1>4, <1>5, <1>6

LEMMA ResetInv == SessionIInv /\ Reset => SessionIInv' /\ ~running'
<1> SUFFICES ASSUME SessionIInv, Reset PROVE SessionIInv' /\ ~running'
  OBVIOUS
<1> USE DEF SessionIInv, Reset
<1>1. TypeOK'
  BY DEF TypeOK, config
<1>2. TimerFollowsRunning' /\ RunningWasPrepared' /\ PreparedIsCurrent'
  BY DEF TimerFollowsRunning, RunningWasPrepared, PreparedIsCurrent
<1> QED BY <1>1, <1>2

LEMMA StepInv ==
  SessionIInv /\ [Next]_vars => SessionIInv' /\ (~running /\ running' => Start /\ Current')
<1> SUFFICES ASSUME SessionIInv, [Next]_vars
             PROVE  SessionIInv' /\ (~running /\ running' => Start /\ Current')
  OBVIOUS
<1>1. CASE Start
  BY <1>1, StartInv
<1>2. CASE StepUnprepared
  BY <1>2, StepUnpreparedInv
<1>3. CASE \/ UseEmbedded \/ \E s \in Slots : SelectTarget(s)
           \/ \E img \in Images : ChooseImage(img)
  BY <1>3, SelectionInv
<1>4. CASE Reset
  BY <1>4, ResetInv
<1>5. CASE \/ Stop \/ StepPrepared \/ RunBounded \/ Cancel \/ TimerElapses \/ Tick
           \/ \E s \in Slots : OpenDialog(s)
  BY <1>5, OtherInv
<1>6. CASE UNCHANGED vars
  BY <1>6, SessionUnchangedInv
<1> QED BY <1>1, <1>2, <1>3, <1>4, <1>5, <1>6 DEF Next

LEMMA SessionAlwaysInv == Spec => []SessionIInv
BY SessionInitInv, StepInv, PTL DEF Spec

\* The window's variables (main.c:56-80) keep their types.
THEOREM SessionTypeCorrect == Spec => []TypeOK
BY SessionAlwaysInv, PTL DEF SessionIInv

\* The timer is set exactly while the machine runs.
THEOREM SessionTimerFollowsRunning == Spec => []TimerFollowsRunning
BY SessionAlwaysInv, PTL DEF SessionIInv

\* A machine that runs was loaded whole and entered since the last reset.
THEOREM SessionRunningWasPrepared == Spec => []RunningWasPrepared
BY SessionAlwaysInv, PTL DEF SessionIInv

\* A prepared machine whose last preparation did not fail is the configured one.
THEOREM SessionPreparedIsCurrent == Spec => []PreparedIsCurrent
BY SessionAlwaysInv, PTL DEF SessionIInv

\* Only Start makes a machine run, and it runs what is configured.
THEOREM SessionOnlyStartRuns == Spec => OnlyStartRuns
<1>1. SessionIInv /\ [Next]_vars => [~running /\ running' => Start /\ Current']_vars
  BY StepInv
<1> QED BY <1>1, SessionAlwaysInv, PTL DEF Spec, OnlyStartRuns

-----------------------------------------------------------------------------
(***************************************************************************)
(* The session's variables (SessionVars): the memory of the table and the  *)
(* map it implements.                                                      *)
(***************************************************************************)
TableEntries == [key : Nat, val : Nat]

\* The array and the heap, with the types of what they hold.
TableShape ==
  /\ count \in Nat /\ cap \in Nat
  /\ items \in [0 .. cap - 1 -> TableEntries]
  /\ DOMAIN heap \subseteq Nat \ {0} /\ IsFiniteSet(DOMAIN heap)

\* No two pointers of live entries are the same block.
Apart ==
  \A i, j \in Live :
    /\ items[i].key # items[j].val
    /\ i # j => items[i].key # items[j].key /\ items[i].val # items[j].val

\* No two live entries have the same name.
NamedOnce == \A i, j \in Live : heap[items[i].key] = heap[items[j].key] => i = j

\* The inductive invariant.
TableIInv == TableTypeOK /\ TableShape /\ DOMAIN heap = Pointers /\ Apart /\ NamedOnce

-----------------------------------------------------------------------------
\* Every set of naturals with an element has a least one.
LEMMA MinIsLeast ==
  ASSUME NEW T, T \subseteq Nat, T # {}
  PROVE  Min(T) \in T /\ \A y \in T : Min(T) <= y
<1>1. \E x \in T : \A y \in T : x <= y
  BY Least
<1> QED BY <1>1 DEF Min

\* A block given out is new: of one more number than there are blocks one is free.
LEMMA BlockIsNew ==
  ASSUME NEW h, DOMAIN h \subseteq Nat \ {0}, IsFiniteSet(DOMAIN h)
  PROVE  Block(h) \in Nat \ {0} /\ Block(h) \notin DOMAIN h
<1> DEFINE D == DOMAIN h
           n == Cardinality(D)
           T == (1 .. n + 1) \ D
<1>1. n \in Nat
  BY FS_CardinalityType
<1>2. IsFiniteSet(1 .. n + 1) /\ Cardinality(1 .. n + 1) = n + 1
  BY <1>1, FS_Interval
<1>3. T # {}
  <2> SUFFICES ASSUME 1 .. n + 1 \subseteq D PROVE FALSE
    OBVIOUS
  <2>1. Cardinality(1 .. n + 1) <= n
    BY FS_Subset
  <2> QED BY <1>1, <1>2, <2>1
<1>4. T \subseteq Nat
  BY <1>1
<1>5. Min(T) \in T
  BY <1>3, <1>4, MinIsLeast
<1> QED BY <1>1, <1>5 DEF Block

\* One more string on the heap: a new block, and the others as they were.
LEMMA WithIsNew ==
  ASSUME NEW h, DOMAIN h \subseteq Nat \ {0}, IsFiniteSet(DOMAIN h), NEW s
  PROVE  /\ Block(h) \in Nat \ {0} /\ Block(h) \notin DOMAIN h
         /\ DOMAIN With(h, s) = DOMAIN h \union {Block(h)}
         /\ DOMAIN With(h, s) \subseteq Nat \ {0} /\ IsFiniteSet(DOMAIN With(h, s))
         /\ With(h, s)[Block(h)] = s
         /\ \A b \in DOMAIN h : With(h, s)[b] = h[b]
<1>1. Block(h) \in Nat \ {0} /\ Block(h) \notin DOMAIN h
  BY BlockIsNew
<1>2. DOMAIN With(h, s) = DOMAIN h \union {Block(h)}
  BY DEF With
<1>3. IsFiniteSet(DOMAIN With(h, s))
  BY <1>2, FS_AddElement
<1>4. With(h, s)[Block(h)] = s /\ \A b \in DOMAIN h : With(h, s)[b] = h[b]
  BY <1>1 DEF With
<1> QED BY <1>1, <1>2, <1>3, <1>4

LEMMA WithoutIsLess ==
  ASSUME NEW h, IsFiniteSet(DOMAIN h), NEW bs
  PROVE  /\ DOMAIN Without(h, bs) = DOMAIN h \ bs
         /\ IsFiniteSet(DOMAIN Without(h, bs))
         /\ \A b \in DOMAIN h \ bs : Without(h, bs)[b] = h[b]
<1>1. DOMAIN Without(h, bs) = DOMAIN h \ bs
  BY DEF Without
<1>2. IsFiniteSet(DOMAIN Without(h, bs))
  BY <1>1, FS_Subset
<1> QED BY <1>1, <1>2 DEF Without

LEMMA EmptyRange == \A c : c = 0 => 0 .. c - 1 = {}
OBVIOUS

LEMMA SlotInRange == \A n, c \in Nat : n < c => n \in 0 .. c - 1
OBVIOUS

\* Room for one more: the live entries are where they were.
LEMMA ReservedIsRoom ==
  ASSUME TableIInv, cap > count \/ NextCap <= MaxCap,
         cap' = IF cap > count THEN cap ELSE NextCap
  PROVE  /\ cap' \in Nat /\ cap' <= MaxCap /\ count < cap' /\ cap <= cap'
         /\ Reserved \in [0 .. cap' - 1 -> TableEntries]
         /\ \A i \in Live : i \in 0 .. cap' - 1 /\ Reserved[i] = items[i]
<1>1. /\ count \in Nat /\ cap \in Nat /\ count <= cap /\ FirstCap \in Nat \ {0} /\ MaxCap \in Nat
      /\ cap <= MaxCap
      /\ items \in [0 .. cap - 1 -> TableEntries] /\ NullItem \in TableEntries
  BY SessionAssumption DEF TableIInv, TableShape, TableTypeOK, NullItem, TableEntries
<1>2. cap' \in Nat /\ cap' <= MaxCap /\ count < cap' /\ cap <= cap'
  BY <1>1 DEF NextCap
<1>3. CASE cap > count
  BY <1>1, <1>2, <1>3 DEF Reserved, Live
<1>4. CASE ~(cap > count)
  <2>1. Reserved = [i \in 0 .. cap' - 1 |-> IF i < cap THEN items[i] ELSE NullItem]
    BY <1>4 DEF Reserved
  <2>2. \A i \in 0 .. cap' - 1 : i < cap => i \in 0 .. cap - 1
    BY <1>1, <1>2
  <2>3. Reserved \in [0 .. cap' - 1 -> TableEntries]
    BY <2>1, <2>2, <1>1
  <2>4. \A i \in Live : i \in 0 .. cap' - 1 /\ i < cap
    BY <1>1, <1>2 DEF Live
  <2> QED BY <1>2, <2>1, <2>3, <2>4
<1> QED BY <1>3, <1>4

\* The pointers of a live entry are blocks.
LEMMA LiveIsBlock ==
  ASSUME TableIInv, NEW i \in Live
  PROVE  /\ i \in Nat /\ i < count /\ i \in 0 .. cap - 1 /\ items[i] \in TableEntries
         /\ items[i].key \in DOMAIN heap /\ items[i].val \in DOMAIN heap
         /\ items[i].key # 0 /\ items[i].val # 0
<1>1. i \in Nat /\ i < count /\ i \in 0 .. cap - 1
  <2>1. count \in Nat /\ cap \in Nat /\ count <= cap
    BY DEF TableIInv, TableShape, TableTypeOK
  <2>2. i \in 0 .. count - 1
    BY DEF Live
  <2> QED BY <2>1, <2>2
<1>2. items[i] \in TableEntries
  BY <1>1 DEF TableIInv, TableShape
<1>3. items[i].key \in Pointers /\ items[i].val \in Pointers
  BY DEF Pointers
<1> QED BY <1>1, <1>2, <1>3 DEF TableIInv, TableShape

-----------------------------------------------------------------------------
\* What each call does to the entries and the blocks: the facts the invariant
\* and the refinement both rest on.
\* Setting a key that is there: the value of entry i moves to the new block b.
SetOldEffect(k, v, i, b) ==
  /\ b \notin DOMAIN heap /\ heap[items[i].key] = k
  /\ DOMAIN heap' = (DOMAIN heap \union {b}) \ {items[i].val}
  /\ IsFiniteSet(DOMAIN heap')
  /\ heap'[b] = v
  /\ \A c \in DOMAIN heap \ {items[i].val} : heap'[c] = heap[c]
  /\ items' \in [0 .. cap - 1 -> TableEntries]
  /\ \A j \in Live : items'[j].key = items[j].key
  /\ \A j \in Live : items'[j].val = IF j = i THEN b ELSE items[j].val
  /\ Freeing({items[i].val}) /\ UNCHANGED <<count, cap>>

LEMMA SetOldDoes ==
  ASSUME TableIInv, NEW k, NEW v, SetOld(k, v)
  PROVE  \E i \in Live, b \in Nat \ {0} : SetOldEffect(k, v, i, b)
<1>1. PICK i \in At(k) :
        /\ heap' = Without(With(heap, v), {items[i].val})
        /\ items' = [items EXCEPT ![i].val = Block(heap)]
        /\ Freeing({items[i].val}) /\ UNCHANGED <<count, cap>>
  BY DEF SetOld
<1> DEFINE b == Block(heap)
           o == items[i].val
           h == With(heap, v)
<1>2. i \in Live /\ heap[items[i].key] = k
  BY DEF At
<1>3. /\ DOMAIN heap \subseteq Nat \ {0} /\ IsFiniteSet(DOMAIN heap)
      /\ items \in [0 .. cap - 1 -> TableEntries]
  BY DEF TableIInv, TableShape
<1>4. /\ b \in Nat \ {0} /\ b \notin DOMAIN heap
      /\ DOMAIN h = DOMAIN heap \union {b} /\ IsFiniteSet(DOMAIN h)
      /\ h[b] = v /\ \A c \in DOMAIN heap : h[c] = heap[c]
  BY <1>3, WithIsNew
<1>5. o \in DOMAIN heap
  BY <1>2, LiveIsBlock
<1>6. /\ DOMAIN heap' = DOMAIN h \ {o} /\ IsFiniteSet(DOMAIN heap')
      /\ \A c \in DOMAIN h \ {o} : heap'[c] = h[c]
  <2> HIDE DEF h, o
  <2>1. heap' = Without(h, {o})
    BY <1>1 DEF h, o
  <2>2. /\ DOMAIN Without(h, {o}) = DOMAIN h \ {o} /\ IsFiniteSet(DOMAIN Without(h, {o}))
        /\ \A c \in DOMAIN h \ {o} : Without(h, {o})[c] = h[c]
    BY <1>4, WithoutIsLess
  <2> QED BY <2>1, <2>2
<1>7. items' \in [0 .. cap - 1 -> TableEntries]
  <2>1. i \in 0 .. cap - 1 /\ items[i] \in TableEntries
    BY <1>2, LiveIsBlock
  <2> QED BY <1>1, <1>3, <1>4, <2>1 DEF TableEntries
<1>8. \A j \in Live : /\ items'[j].key = items[j].key
                     /\ items'[j].val = IF j = i THEN b ELSE items[j].val
  <2> TAKE j \in Live
  <2>1. j \in 0 .. cap - 1 /\ items[j] \in TableEntries
    BY LiveIsBlock
  <2> QED BY <1>1, <1>3, <2>1 DEF TableEntries
<1>9. SetOldEffect(k, v, i, b)
  <2> HIDE DEF b, h
  <2>1. DOMAIN heap' = (DOMAIN heap \union {b}) \ {o} /\ heap'[b] = v
    BY <1>4, <1>5, <1>6
  <2>2. \A c \in DOMAIN heap \ {o} : heap'[c] = heap[c]
    BY <1>4, <1>6
  <2> QED BY <1>1, <1>2, <1>4, <1>6, <1>7, <1>8, <2>1, <2>2 DEF SetOldEffect
<1> QED BY <1>2, <1>4, <1>9

LEMMA SetOldInv == ASSUME TableIInv, NEW k, NEW v, SetOld(k, v) PROVE TableIInv'
<1>0. PICK i \in Live, b \in Nat \ {0} : SetOldEffect(k, v, i, b)
  BY SetOldDoes
<1>1. /\ b \notin DOMAIN heap /\ heap[items[i].key] = k
      /\ DOMAIN heap' = (DOMAIN heap \union {b}) \ {items[i].val}
      /\ IsFiniteSet(DOMAIN heap')
      /\ heap'[b] = v
      /\ \A c \in DOMAIN heap \ {items[i].val} : heap'[c] = heap[c]
      /\ items' \in [0 .. cap - 1 -> TableEntries]
      /\ \A j \in Live : items'[j].key = items[j].key
      /\ \A j \in Live : items'[j].val = IF j = i THEN b ELSE items[j].val
      /\ Freeing({items[i].val}) /\ UNCHANGED <<count, cap>>
  BY <1>0 DEF SetOldEffect
<1>2. Live' = Live
  BY <1>1 DEF Live
<1>3. \A j \in Live : items[j].key \in DOMAIN heap /\ items[j].val \in DOMAIN heap
  BY LiveIsBlock
<1>4. Apart /\ DOMAIN heap = Pointers
  BY DEF TableIInv
<1>5. TableTypeOK'
  BY <1>1, <1>3 DEF TableIInv, TableTypeOK, Freeing
<1>6. TableShape'
  BY <1>1 DEF TableIInv, TableShape
<1>7. \A c : c \in DOMAIN heap' <=> c \in Pointers'
  <2> SUFFICES ASSUME NEW c PROVE c \in DOMAIN heap' <=> c \in Pointers'
    OBVIOUS
  <2>1. c \in Pointers' <=> \E j \in Live : c = items'[j].key \/ c = items'[j].val
    BY <1>2 DEF Pointers
  <2>2. c \in Pointers <=> \E j \in Live : c = items[j].key \/ c = items[j].val
    BY DEF Pointers
  <2> QED BY <1>1, <1>3, <1>4, <2>1, <2>2 DEF Apart
<1>8. DOMAIN heap' = Pointers'
  BY <1>7 DEF Pointers
<1>9. Apart'
  BY <1>1, <1>2, <1>3, <1>4 DEF Apart
<1>10. NamedOnce'
  <2>1. \A j \in Live : heap'[items'[j].key] = heap[items[j].key]
    BY <1>1, <1>3, <1>4 DEF Apart
  <2> QED BY <1>2, <2>1 DEF TableIInv, NamedOnce
<1> QED BY <1>5, <1>6, <1>8, <1>9, <1>10 DEF TableIInv

\* A new key: entry count holds two new blocks, in an array with room for it.
SetNewEffect(k, v, kb, vb) ==
  /\ kb \notin DOMAIN heap /\ vb \notin DOMAIN heap /\ kb # vb
  /\ At(k) = {}
  /\ DOMAIN heap' = DOMAIN heap \union {kb, vb}
  /\ IsFiniteSet(DOMAIN heap')
  /\ heap'[kb] = k /\ heap'[vb] = v
  /\ \A c \in DOMAIN heap : heap'[c] = heap[c]
  /\ cap' \in Nat /\ cap' <= MaxCap /\ count < cap'
  /\ items' \in [0 .. cap' - 1 -> TableEntries]
  /\ \A j \in Live : items'[j] = items[j]
  /\ items'[count] = [key |-> kb, val |-> vb]
  /\ count' = count + 1 /\ freed' = freed

LEMMA SetNewDoes ==
  ASSUME TableIInv, NEW k, NEW v, SetNew(k, v)
  PROVE  \E kb, vb \in Nat \ {0} : SetNewEffect(k, v, kb, vb)
<1> DEFINE kb == Block(heap)
           h == With(heap, k)
           vb == Block(h)
           g == With(h, v)
<1>1. /\ At(k) = {} /\ (cap > count \/ NextCap <= MaxCap)
      /\ cap' = IF cap > count THEN cap ELSE NextCap
      /\ heap' = g /\ items' = [Reserved EXCEPT ![count] = [key |-> kb, val |-> vb]]
      /\ count' = count + 1 /\ UNCHANGED freed
  BY DEF SetNew
<1>2. DOMAIN heap \subseteq Nat \ {0} /\ IsFiniteSet(DOMAIN heap) /\ count \in Nat
  BY DEF TableIInv, TableShape
<1>3. /\ kb \in Nat \ {0} /\ kb \notin DOMAIN heap
      /\ DOMAIN h = DOMAIN heap \union {kb}
      /\ DOMAIN h \subseteq Nat \ {0} /\ IsFiniteSet(DOMAIN h)
      /\ h[kb] = k /\ \A c \in DOMAIN heap : h[c] = heap[c]
  BY <1>2, WithIsNew
<1>4. /\ vb \in Nat \ {0} /\ vb \notin DOMAIN h
      /\ DOMAIN g = DOMAIN h \union {vb} /\ IsFiniteSet(DOMAIN g)
      /\ g[vb] = v /\ \A c \in DOMAIN h : g[c] = h[c]
  <2>1. PICK f : f = h
    OBVIOUS
  <2>2. DOMAIN f \subseteq Nat \ {0} /\ IsFiniteSet(DOMAIN f)
    BY <2>1, <1>3
  <2>3. /\ Block(f) \in Nat \ {0} /\ Block(f) \notin DOMAIN f
        /\ DOMAIN With(f, v) = DOMAIN f \union {Block(f)} /\ IsFiniteSet(DOMAIN With(f, v))
        /\ With(f, v)[Block(f)] = v /\ \A c \in DOMAIN f : With(f, v)[c] = f[c]
    BY ONLY <2>2, WithIsNew
  <2> HIDE DEF h
  <2> QED BY <2>1, <2>3
<1>5. /\ cap' \in Nat /\ cap' <= MaxCap /\ count < cap'
      /\ Reserved \in [0 .. cap' - 1 -> TableEntries]
      /\ \A i \in Live : i \in 0 .. cap' - 1 /\ Reserved[i] = items[i]
  BY <1>1, ReservedIsRoom
<1>6. /\ items' \in [0 .. cap' - 1 -> TableEntries]
      /\ items'[count] = [key |-> kb, val |-> vb]
      /\ \A j \in Live : items'[j] = items[j]
  <2> HIDE DEF kb, vb, h, g
  <2>1. [key |-> kb, val |-> vb] \in TableEntries
    BY <1>3, <1>4 DEF TableEntries
  <2>2. count \in 0 .. cap' - 1
    <3>1. count \in Nat /\ cap' \in Nat /\ count < cap'
      BY <1>2, <1>5
    <3> QED BY <3>1, SlotInRange
  <2>3. \A j \in Live : j # count
    BY <1>2 DEF Live
  <2> QED BY <1>1, <1>5, <2>1, <2>2, <2>3
<1>7. SetNewEffect(k, v, kb, vb)
  <2> HIDE DEF kb, vb, h, g
  <2> QED BY <1>1, <1>3, <1>4, <1>5, <1>6 DEF SetNewEffect
<1> QED BY <1>3, <1>4, <1>7

LEMMA SetNewInv == ASSUME TableIInv, NEW k, NEW v, SetNew(k, v) PROVE TableIInv'
<1>1. PICK kb, vb \in Nat \ {0} : SetNewEffect(k, v, kb, vb)
  BY SetNewDoes
<1>2. /\ count \in Nat /\ count' = count + 1 /\ cap' \in Nat /\ count < cap' /\ cap' <= MaxCap
      /\ items' \in [0 .. cap' - 1 -> TableEntries]
  BY <1>1 DEF SetNewEffect, TableIInv, TableShape
<1>3. /\ Live' = Live \union {count} /\ count \notin Live
      /\ count' \in Nat /\ count' <= cap'
  <2>1. count \in Nat /\ count' = count + 1 /\ cap' \in Nat /\ count < cap'
    BY <1>2
  <2> QED BY <2>1 DEF Live
<1>4. /\ \A j \in Live : items'[j] = items[j]
      /\ items'[count].key = kb /\ items'[count].val = vb
  BY <1>1 DEF SetNewEffect
<1>5. \A j \in Live : items[j].key \in DOMAIN heap /\ items[j].val \in DOMAIN heap
  BY LiveIsBlock
<1>6. /\ kb \notin DOMAIN heap /\ vb \notin DOMAIN heap /\ kb # vb
      /\ DOMAIN heap' = DOMAIN heap \union {kb, vb} /\ IsFiniteSet(DOMAIN heap')
      /\ heap'[kb] = k /\ \A c \in DOMAIN heap : heap'[c] = heap[c]
  BY <1>1 DEF SetNewEffect
<1>7. TableTypeOK'
  <2>1. freed' = "all blocks"
    BY <1>1 DEF TableIInv, TableTypeOK, SetNewEffect
  <2>2. DOMAIN items' = 0 .. cap' - 1
    BY <1>2
  <2> QED BY <1>2, <1>3, <2>1, <2>2 DEF TableTypeOK
<1>8. TableShape'
  <2>1. DOMAIN heap' \subseteq Nat \ {0}
    BY <1>6 DEF TableIInv, TableShape
  <2> QED BY <1>2, <1>3, <1>6, <2>1 DEF TableShape
<1>9. \A c : c \in DOMAIN heap' <=> c \in Pointers'
  <2> SUFFICES ASSUME NEW c PROVE c \in DOMAIN heap' <=> c \in Pointers'
    OBVIOUS
  <2>1. c \in Pointers' <=> \E j \in Live' : c = items'[j].key \/ c = items'[j].val
    BY DEF Pointers
  <2>2. c \in DOMAIN heap <=> \E j \in Live : c = items[j].key \/ c = items[j].val
    BY DEF Pointers, TableIInv
  <2> QED BY <1>3, <1>4, <1>6, <2>1, <2>2
<1>10. DOMAIN heap' = Pointers'
  BY <1>9 DEF Pointers
<1>11. Apart'
  <2>1. Apart
    BY DEF TableIInv
  <2> QED BY <1>3, <1>4, <1>5, <1>6, <2>1 DEF Apart
<1>12. NamedOnce'
  <2>1. \A j \in Live : heap'[items'[j].key] = heap[items[j].key] /\ heap[items[j].key] # k
    <3> TAKE j \in Live
    <3>1. j \notin At(k)
      BY <1>1 DEF SetNewEffect
    <3> QED BY <3>1, <1>4, <1>5, <1>6, LiveIsBlock DEF At
  <2> QED BY <1>3, <1>4, <1>6, <2>1 DEF TableIInv, NamedOnce
<1> QED BY <1>7, <1>8, <1>10, <1>11, <1>12 DEF TableIInv

-----------------------------------------------------------------------------
\* No memory: at most the array has grown.
LEMMA SetFailsDoes ==
  ASSUME TableIInv, NEW k, SetFails(k)
  PROVE  /\ cap' \in Nat /\ cap' <= MaxCap /\ count <= cap'
         /\ items' \in [0 .. cap' - 1 -> TableEntries]
         /\ \A j \in Live : items'[j] = items[j]
         /\ UNCHANGED <<count, heap, freed>>
<1>1. CASE UNCHANGED <<items, cap>>
  BY <1>1 DEF SetFails, TableIInv, TableShape, TableTypeOK
<1>2. CASE /\ cap > count \/ NextCap <= MaxCap
           /\ cap' = IF cap > count THEN cap ELSE NextCap
           /\ items' = [Reserved EXCEPT ![count] = NullItem]
  <2>1. /\ cap' \in Nat /\ cap' <= MaxCap /\ count < cap'
        /\ Reserved \in [0 .. cap' - 1 -> TableEntries]
        /\ \A i \in Live : i \in 0 .. cap' - 1 /\ Reserved[i] = items[i]
    BY <1>2, ReservedIsRoom
  <2>2. count \in Nat /\ \A j \in Live : j # count
    BY DEF TableIInv, TableShape, Live
  <2>3. NullItem \in TableEntries
    BY DEF NullItem, TableEntries
  <2> QED BY <1>2, <2>1, <2>2, <2>3 DEF SetFails
<1> QED BY <1>1, <1>2 DEF SetFails

LEMMA SetFailsInv == ASSUME TableIInv, NEW k, SetFails(k) PROVE TableIInv'
<1>1. /\ cap' \in Nat /\ cap' <= MaxCap /\ count <= cap'
      /\ items' \in [0 .. cap' - 1 -> TableEntries]
      /\ \A j \in Live : items'[j] = items[j]
      /\ UNCHANGED <<count, heap, freed>>
  BY SetFailsDoes
<1>2. Live' = Live
  BY <1>1 DEF Live
<1>3. TableTypeOK'
  BY <1>1 DEF TableIInv, TableTypeOK
<1>4. TableShape'
  BY <1>1 DEF TableIInv, TableShape
<1>5. Pointers' = Pointers
  BY <1>1, <1>2 DEF Pointers
<1>6. Apart' /\ NamedOnce'
  BY <1>1, <1>2 DEF TableIInv, Apart, NamedOnce
<1> QED BY <1>1, <1>3, <1>4, <1>5, <1>6 DEF TableIInv

-----------------------------------------------------------------------------
\* An entry goes, and the last one moves into its place.
UnsetEffect(k, i) ==
  /\ heap[items[i].key] = k
  /\ DOMAIN heap' = DOMAIN heap \ {items[i].key, items[i].val}
  /\ IsFiniteSet(DOMAIN heap')
  /\ \A c \in DOMAIN heap' : heap'[c] = heap[c]
  /\ items' \in [0 .. cap - 1 -> TableEntries]
  /\ \A j \in Live \ {count - 1} : items'[j] = IF j = i THEN items[count - 1] ELSE items[j]
  /\ Freeing({items[i].key, items[i].val})
  /\ count' = count - 1 /\ UNCHANGED cap

LEMMA UnsetDoes ==
  ASSUME TableIInv, NEW k, Unset(k)
  PROVE  \E i \in Live : UnsetEffect(k, i)
<1>1. PICK i \in At(k) :
        /\ Freeing({items[i].key, items[i].val})
        /\ heap' = Without(heap, {items[i].key, items[i].val})
        /\ items' = IF i = count - 1 THEN items
                    ELSE [items EXCEPT ![i] = items[count - 1], ![count - 1] = NullItem]
        /\ count' = count - 1 /\ UNCHANGED cap
  BY DEF Unset
<1>2. i \in Live /\ heap[items[i].key] = k
  BY DEF At
<1>3. /\ count \in Nat /\ i \in Nat /\ i < count /\ count - 1 \in Live
      /\ items \in [0 .. cap - 1 -> TableEntries] /\ IsFiniteSet(DOMAIN heap)
  <2>1. count \in Nat /\ i \in Nat /\ i < count
    BY <1>2, LiveIsBlock DEF TableIInv, TableShape
  <2> QED BY <2>1 DEF TableIInv, TableShape, Live
<1>4. \A j \in Live : j \in 0 .. cap - 1 /\ items[j] \in TableEntries
  BY LiveIsBlock
<1>5. NullItem \in TableEntries
  BY DEF NullItem, TableEntries
<1>6. /\ items' \in [0 .. cap - 1 -> TableEntries]
      /\ \A j \in Live \ {count - 1} : items'[j] = IF j = i THEN items[count - 1] ELSE items[j]
  <2>1. CASE i = count - 1
    BY <1>1, <1>3, <2>1
  <2>2. CASE i # count - 1
    BY <1>1, <1>2, <1>3, <1>4, <1>5, <2>2
  <2> QED BY <2>1, <2>2
<1>7. /\ DOMAIN heap' = DOMAIN heap \ {items[i].key, items[i].val}
      /\ IsFiniteSet(DOMAIN heap')
      /\ \A c \in DOMAIN heap' : heap'[c] = heap[c]
  <2> DEFINE bs == {items[i].key, items[i].val}
  <2> HIDE DEF bs
  <2>1. /\ DOMAIN Without(heap, bs) = DOMAIN heap \ bs /\ IsFiniteSet(DOMAIN Without(heap, bs))
        /\ \A b \in DOMAIN heap \ bs : Without(heap, bs)[b] = heap[b]
    BY <1>3, WithoutIsLess
  <2>2. heap' = Without(heap, bs)
    BY <1>1 DEF bs
  <2>3. /\ DOMAIN heap' = DOMAIN heap \ bs /\ IsFiniteSet(DOMAIN heap')
        /\ \A c \in DOMAIN heap' : heap'[c] = heap[c]
    BY <2>1, <2>2
  <2> QED BY <2>3 DEF bs
<1>8. UnsetEffect(k, i)
  BY <1>1, <1>2, <1>6, <1>7 DEF UnsetEffect
<1> QED BY <1>2, <1>8

LEMMA UnsetInv == ASSUME TableIInv, NEW k, Unset(k) PROVE TableIInv'
<1>1. PICK i \in Live : UnsetEffect(k, i)
  BY UnsetDoes
<1> DEFINE last == count - 1
<1>2. /\ count \in Nat /\ i \in Nat /\ i < count /\ last \in Live
      /\ Live' = Live \ {last} /\ count' \in Nat /\ count' <= count /\ cap' = cap
  <2>1. count \in Nat /\ i \in Nat /\ i < count /\ count' = count - 1 /\ cap' = cap
    BY <1>1, LiveIsBlock DEF TableIInv, TableShape, UnsetEffect
  <2> QED BY <2>1 DEF Live
<1>3. \A j \in Live' : items'[j] = IF j = i THEN items[last] ELSE items[j]
  BY <1>1, <1>2 DEF UnsetEffect
<1>4. \A j \in Live : items[j].key \in DOMAIN heap /\ items[j].val \in DOMAIN heap
  BY LiveIsBlock
<1>5. /\ DOMAIN heap' = DOMAIN heap \ {items[i].key, items[i].val} /\ IsFiniteSet(DOMAIN heap')
      /\ \A c \in DOMAIN heap' : heap'[c] = heap[c]
  BY <1>1 DEF UnsetEffect
<1>6. Apart
  BY DEF TableIInv
<1>7. TableTypeOK'
  <2>1. freed' = "all blocks"
    BY <1>1, <1>4 DEF TableIInv, TableTypeOK, UnsetEffect, Freeing
  <2>2. DOMAIN items' = 0 .. cap - 1
    BY <1>1 DEF UnsetEffect
  <2>3. cap \in Nat /\ count <= cap /\ cap <= MaxCap
    BY DEF TableIInv, TableShape, TableTypeOK
  <2>4. count' <= cap
    BY <1>2, <2>3
  <2> QED BY <1>2, <2>1, <2>2, <2>3, <2>4 DEF TableTypeOK
<1>8. TableShape'
  BY <1>1, <1>2, <1>5 DEF TableIInv, TableShape, UnsetEffect
<1> HIDE DEF last
\* Where an entry of the new table was: the moved one at the end, the rest in place.
<1> DEFINE old(j) == IF j = i THEN last ELSE j
<1>9. \A j \in Live' : old(j) \in Live /\ old(j) # i /\ items'[j] = items[old(j)]
  BY <1>2, <1>3
<1>10. \A j \in Live : j # i => \E m \in Live' : old(m) = j
  <2> SUFFICES ASSUME NEW j \in Live, j # i PROVE \E m \in Live' : old(m) = j
    OBVIOUS
  <2>1. CASE j = last
    <3>1. i \in Live' /\ old(i) = j
      BY <1>2, <2>1
    <3> QED BY <3>1
  <2>2. CASE j # last
    <3>1. j \in Live' /\ old(j) = j
      BY <1>2, <2>2
    <3> QED BY <3>1
  <2> QED BY <2>1, <2>2
<1>11. \A j, m \in Live' : old(j) = old(m) => j = m
  BY <1>2
<1> HIDE DEF old
<1>12. \A c : c \in DOMAIN heap' <=> c \in Pointers'
  <2> SUFFICES ASSUME NEW c PROVE c \in DOMAIN heap' <=> c \in Pointers'
    OBVIOUS
  <2>1. c \in Pointers' <=> \E j \in Live' : c = items'[j].key \/ c = items'[j].val
    BY DEF Pointers
  <2>2. c \in DOMAIN heap <=> \E j \in Live : c = items[j].key \/ c = items[j].val
    BY DEF Pointers, TableIInv
  <2>3. ASSUME c \in Pointers' PROVE c \in DOMAIN heap'
    BY <1>4, <1>5, <1>6, <1>9, <2>1, <2>3 DEF Apart
  <2>4. ASSUME c \in DOMAIN heap' PROVE c \in Pointers'
    BY <1>5, <1>9, <1>10, <2>1, <2>2, <2>4
  <2> QED BY <2>3, <2>4
<1>13. DOMAIN heap' = Pointers'
  BY <1>12 DEF Pointers
<1>14. Apart'
  BY <1>6, <1>9, <1>11 DEF Apart
<1>15. NamedOnce'
  <2>1. \A j \in Live' : heap'[items'[j].key] = heap[items[old(j)].key]
    BY <1>4, <1>5, <1>6, <1>9 DEF Apart
  <2> QED BY <1>9, <1>11, <2>1 DEF TableIInv, NamedOnce
<1> QED BY <1>7, <1>8, <1>13, <1>14, <1>15 DEF TableIInv

LEMMA ShutdownInv == ASSUME TableIInv, Shutdown PROVE TableIInv'
<1>1. /\ items' = [i \in {} |-> NullItem] /\ count' = 0 /\ cap' = 0
      /\ heap' = Without(heap, Pointers) /\ freed' = freed
  BY DEF Shutdown, Freeing, TableIInv
<1>2. DOMAIN heap' = {}
  BY <1>1 DEF Without, TableIInv
<1>3. 0 .. 0 - 1 = {}
  OBVIOUS
<1>4. Live' = {} /\ Pointers' = {}
  BY <1>1, <1>3 DEF Live, Pointers
<1>5. TableTypeOK'
  <2>1. DOMAIN items' = 0 .. cap' - 1
    BY <1>1, EmptyRange
  <2>2. count' <= cap' /\ cap' <= MaxCap
    BY <1>1, SessionAssumption
  <2>3. freed' = "all blocks"
    BY <1>1 DEF TableIInv, TableTypeOK
  <2> QED BY <2>1, <2>2, <2>3 DEF TableTypeOK
<1>6. TableShape'
  BY <1>1, <1>2, <1>3, FS_EmptySet DEF TableShape
<1> QED BY <1>2, <1>4, <1>5, <1>6 DEF TableIInv, Apart, NamedOnce

LEMMA TableInitInv == TableInit => TableIInv
<1> SUFFICES ASSUME TableInit PROVE TableIInv
  OBVIOUS
<1>1. 0 .. 0 - 1 = {} /\ DOMAIN Empty = {}
  BY DEF Empty
<1>2. Live = {} /\ Pointers = {}
  BY <1>1 DEF TableInit, Live, Pointers
<1>3. TableTypeOK
  <2>1. DOMAIN items = 0 .. cap - 1
    BY EmptyRange DEF TableInit
  <2>2. count <= cap /\ cap <= MaxCap
    <3>1. count = 0 /\ cap = 0
      BY DEF TableInit
    <3> QED BY <3>1, SessionAssumption
  <2>3. freed = "all blocks"
    BY DEF TableInit
  <2> QED BY <2>1, <2>2, <2>3 DEF TableTypeOK
<1>4. TableShape
  BY <1>1, FS_EmptySet DEF TableInit, TableShape
<1> QED BY <1>1, <1>2, <1>3, <1>4 DEF TableIInv, Apart, NamedOnce, TableInit

LEMMA TableNextInv == TableIInv /\ [TableNext]_tableVars => TableIInv'
<1> SUFFICES ASSUME TableIInv, [TableNext]_tableVars PROVE TableIInv'
  OBVIOUS
<1>1. ASSUME NEW s \in Settings, SetOld(s[1], s[2]) PROVE TableIInv'
  BY <1>1, SetOldInv
<1>2. ASSUME NEW s \in Settings, SetNew(s[1], s[2]) PROVE TableIInv'
  BY <1>2, SetNewInv
<1>3. ASSUME NEW k \in Names, SetFails(k) PROVE TableIInv'
  BY <1>3, SetFailsInv
<1>4. ASSUME NEW k \in Names, Unset(k) PROVE TableIInv'
  BY <1>4, UnsetInv
<1>5. CASE Shutdown
  BY <1>5, ShutdownInv
<1>6. CASE UNCHANGED tableVars
  <2>1. items' = items /\ count' = count /\ cap' = cap /\ heap' = heap /\ freed' = freed
    BY ONLY <1>6 DEF tableVars
  <2>2. Live' = Live /\ Pointers' = Pointers
    BY ONLY <2>1 DEF Live, Pointers
  <2>3. TableTypeOK' /\ TableShape'
    <3>1. TableTypeOK /\ TableShape
      BY ONLY TableIInv DEF TableIInv
    <3> QED BY ONLY <2>1, <3>1 DEF TableTypeOK, TableShape
  <2>4. Apart' /\ NamedOnce'
    <3>1. Apart /\ NamedOnce
      BY ONLY TableIInv DEF TableIInv
    <3> QED BY ONLY <2>1, <2>2, <3>1 DEF Apart, NamedOnce
  <2>5. DOMAIN heap' = Pointers'
    <3>1. DOMAIN heap = Pointers
      BY ONLY TableIInv DEF TableIInv
    <3> QED BY ONLY <2>1, <2>2, <3>1
  <2> QED BY ONLY <2>3, <2>4, <2>5 DEF TableIInv
<1> QED BY <1>1, <1>2, <1>3, <1>4, <1>5, <1>6 DEF TableNext

-----------------------------------------------------------------------------
\* The live entries' 2 * count pointers are 2 * count blocks.
LEMMA OwnedOnceHolds == TableIInv => OwnedOnce
<1> SUFFICES ASSUME TableIInv PROVE OwnedOnce
  OBVIOUS
<1> DEFINE NameBlocks == {items[i].key : i \in Live}
           ValueBlocks == {items[i].val : i \in Live}
           key == [i \in Live |-> items[i].key]
           val == [i \in Live |-> items[i].val]
<1>1. count \in Nat /\ IsFiniteSet(Live) /\ Cardinality(Live) = count
  <2>1. count \in Nat
    BY DEF TableIInv, TableShape
  <2> QED BY <2>1, FS_Interval DEF Live
<1>2. key \in Bijection(Live, NameBlocks) /\ val \in Bijection(Live, ValueBlocks)
  BY DEF TableIInv, Apart, Bijection, Injection, Surjection, IsInjective
<1>3. ExistsBijection(Live, NameBlocks) /\ ExistsBijection(Live, ValueBlocks)
  BY <1>2 DEF ExistsBijection
<1>4. /\ IsFiniteSet(NameBlocks) /\ Cardinality(NameBlocks) = count
      /\ IsFiniteSet(ValueBlocks) /\ Cardinality(ValueBlocks) = count
  <2> HIDE DEF NameBlocks, ValueBlocks
  <2> QED BY <1>1, <1>3, FS_Bijection
<1>5. NameBlocks \cap ValueBlocks = {}
  BY DEF TableIInv, Apart
<1>6. Cardinality(NameBlocks \cup ValueBlocks) = count + count - 0
  <2> HIDE DEF NameBlocks, ValueBlocks
  <2> QED BY <1>1, <1>4, <1>5, FS_Union, FS_EmptySet
<1> QED BY <1>1, <1>6 DEF OwnedOnce, Pointers, TableIInv

LEMMA TableAlwaysInv == TableSpec => []TableIInv
BY TableInitInv, TableNextInv, PTL DEF TableSpec

\* For every set of settings and every capacity, whichever allocations fail and
\* in whatever order variables go: the array has room for its entries, nothing
\* is freed that is no block, and every block has exactly one owner.
THEOREM TableMemorySafe == TableSpec => []TableInv
<1>1. TableIInv => TableInv
  BY OwnedOnceHolds DEF TableIInv, TableInv
<1> QED BY <1>1, TableAlwaysInv, PTL

-----------------------------------------------------------------------------
\* The map of the table, and its one entry for each name.
TheMap == [k \in {x \in Names : At(x) # {}} |-> heap[items[Entry(k)].val]]

\* What TheMap says of a key k: it has the value v, or none.
Has(k, v) == \E i \in Live : heap[items[i].key] = k /\ heap[items[i].val] = v
HasNone(k) == \A i \in Live : heap[items[i].key] # k

MapHas ==
  \A k \in Names :
    /\ k \in DOMAIN TheMap <=> ~HasNone(k)
    /\ \A v : Has(k, v) => TheMap[k] = v

LEMMA MapHolds == TableIInv => MapHas
<1> SUFFICES ASSUME TableIInv, NEW k \in Names
             PROVE  /\ k \in DOMAIN TheMap <=> ~HasNone(k)
                    /\ \A v : Has(k, v) => TheMap[k] = v
  BY DEF MapHas
<1>1. \A i : i \in At(k) <=> i \in Live /\ heap[items[i].key] = k
  BY LiveIsBlock DEF At
<1>2. k \in DOMAIN TheMap <=> ~HasNone(k)
  BY <1>1 DEF TheMap, HasNone
<1>3. ASSUME NEW v, Has(k, v) PROVE TheMap[k] = v
  <2>1. PICK i \in Live : heap[items[i].key] = k /\ heap[items[i].val] = v
    BY <1>3 DEF Has
  <2>2. At(k) = {i} /\ i \in Nat
    BY <1>1, <2>1, LiveIsBlock DEF TableIInv, NamedOnce
  <2>3. Entry(k) = i
    BY <2>2 DEF Entry
  <2> QED BY <2>1, <2>2, <2>3 DEF TheMap
<1> QED BY <1>2, <1>3



\* A map with one more value.
Extended(m, k, v) == [x \in DOMAIN m \union {k} |-> IF x = k THEN v ELSE m[x]]

\* Steps that set, unset or keep what the entries have do so to the map.
LEMMA SetMaps ==
  ASSUME MapHas, MapHas', NEW k \in Names, NEW v,
         Has(k, v)', \A x : x # k => \A w : Has(x, w)' <=> Has(x, w)
  PROVE  TheMap' = Extended(TheMap, k, v)
<1>1. /\ TheMap' = [x \in DOMAIN TheMap' |-> TheMap'[x]]
      /\ DOMAIN TheMap \subseteq Names /\ DOMAIN TheMap' \subseteq Names
  BY DEF TheMap
<1>2. DOMAIN TheMap' = DOMAIN TheMap \union {k}
  <2> SUFFICES ASSUME NEW x \in Names
               PROVE  x \in DOMAIN TheMap' <=> x \in DOMAIN TheMap \union {k}
    BY <1>1
  <2>1. (x \in DOMAIN TheMap <=> \E w : Has(x, w)) /\ (x \in DOMAIN TheMap' <=> \E w : Has(x, w)')
    BY DEF MapHas, Has, HasNone
  <2> QED BY <2>1
<1>3. ASSUME NEW x \in DOMAIN TheMap'
      PROVE  TheMap'[x] = IF x = k THEN v ELSE TheMap[x]
  <2>1. x \in Names
    BY <1>1
  <2>2. CASE x = k
    BY <2>2 DEF MapHas
  <2>3. CASE x # k
    <3>1. PICK w : Has(x, w)'
      BY <2>1 DEF MapHas, Has, HasNone
    <3> QED BY <2>1, <2>3, <3>1 DEF MapHas
  <2> QED BY <2>2, <2>3
<1> QED BY <1>1, <1>2, <1>3 DEF Extended

LEMMA UnsetMaps ==
  ASSUME MapHas, MapHas', NEW k \in Names, ~HasNone(k),
         HasNone(k)', \A x : x # k => \A w : Has(x, w)' <=> Has(x, w)
  PROVE  k \in DOMAIN TheMap /\ TheMap' = [x \in DOMAIN TheMap \ {k} |-> TheMap[x]]
<1>1. /\ TheMap' = [x \in DOMAIN TheMap' |-> TheMap'[x]]
      /\ DOMAIN TheMap \subseteq Names /\ DOMAIN TheMap' \subseteq Names
  BY DEF TheMap
<1>2. DOMAIN TheMap' = DOMAIN TheMap \ {k}
  <2> SUFFICES ASSUME NEW x \in Names
               PROVE  x \in DOMAIN TheMap' <=> x \in DOMAIN TheMap \ {k}
    BY <1>1
  <2>1. (x \in DOMAIN TheMap <=> \E w : Has(x, w)) /\ (x \in DOMAIN TheMap' <=> \E w : Has(x, w)')
    BY DEF MapHas, Has, HasNone
  <2>2. CASE x = k
    BY <2>2 DEF MapHas
  <2>3. CASE x # k
    BY <2>1, <2>3
  <2> QED BY <2>2, <2>3
<1>3. ASSUME NEW x \in DOMAIN TheMap' PROVE TheMap'[x] = TheMap[x]
  <2>1. x \in Names /\ x # k
    BY <1>1, <1>2
  <2>2. PICK w : Has(x, w)'
    BY <2>1 DEF MapHas, Has, HasNone
  <2> QED BY <2>1, <2>2 DEF MapHas
<1>4. k \in DOMAIN TheMap
  BY DEF MapHas
<1> QED BY <1>1, <1>2, <1>3, <1>4

LEMMA SetOldMaps ==
  ASSUME TableIInv, TableIInv', NEW k \in Names, NEW v, SetOld(k, v)
  PROVE  TheMap' = Extended(TheMap, k, v)
<1>1. MapHas /\ (TableIInv' => MapHas')
  BY MapHolds, PTL
<1>2. PICK i \in Live, b \in Nat \ {0} : SetOldEffect(k, v, i, b)
  BY SetOldDoes
<1>3. /\ Live' = Live /\ heap[items[i].key] = k /\ heap'[b] = v
      /\ \A c \in DOMAIN heap \ {items[i].val} : heap'[c] = heap[c]
      /\ \A j \in Live : items'[j].key = items[j].key
      /\ \A j \in Live : items'[j].val = IF j = i THEN b ELSE items[j].val
  BY <1>2 DEF SetOldEffect, Live
<1>4. /\ \A j \in Live : items[j].key \in DOMAIN heap /\ items[j].val \in DOMAIN heap
      /\ Apart
  BY LiveIsBlock DEF TableIInv
<1>5. /\ \A j \in Live : heap'[items'[j].key] = heap[items[j].key]
      /\ \A j \in Live : heap'[items'[j].val] = IF j = i THEN v ELSE heap[items[j].val]
  BY <1>3, <1>4 DEF Apart
<1>6. Has(k, v)'
  BY <1>3, <1>5 DEF Has
<1>7. \A x : x # k => \A w : Has(x, w)' <=> Has(x, w)
  BY <1>3, <1>5 DEF Has
<1> QED BY <1>1, <1>6, <1>7, SetMaps

LEMMA SetNewMaps ==
  ASSUME TableIInv, TableIInv', NEW k \in Names, NEW v, SetNew(k, v)
  PROVE  TheMap' = Extended(TheMap, k, v)
<1>1. MapHas /\ (TableIInv' => MapHas')
  BY MapHolds, PTL
<1>2. PICK kb, vb \in Nat \ {0} : SetNewEffect(k, v, kb, vb)
  BY SetNewDoes
<1>3. Live' = Live \union {count} /\ count \notin Live
  <2>1. count \in Nat /\ count' = count + 1
    BY <1>2 DEF SetNewEffect, TableIInv, TableShape
  <2> QED BY <2>1 DEF Live
<1>4. \A j \in Live : items[j].key \in DOMAIN heap /\ items[j].val \in DOMAIN heap
  BY LiveIsBlock
<1>5. /\ heap'[items'[count].key] = k /\ heap'[items'[count].val] = v
      /\ \A j \in Live : heap'[items'[j].key] = heap[items[j].key] /\ heap'[items'[j].val] = heap[items[j].val]
  BY <1>2, <1>4 DEF SetNewEffect
<1>6. Has(k, v)'
  BY <1>3, <1>5 DEF Has
<1>7. \A x : x # k => \A w : Has(x, w)' <=> Has(x, w)
  BY <1>3, <1>5 DEF Has
<1> QED BY <1>1, <1>6, <1>7, SetMaps

LEMMA UnsetUnmaps ==
  ASSUME TableIInv, TableIInv', NEW k \in Names, Unset(k)
  PROVE  k \in DOMAIN TheMap /\ TheMap' = [x \in DOMAIN TheMap \ {k} |-> TheMap[x]]
<1>1. MapHas /\ (TableIInv' => MapHas')
  BY MapHolds, PTL
<1>2. PICK i \in Live : UnsetEffect(k, i)
  BY UnsetDoes
<1> DEFINE last == count - 1
<1>3. Live' = Live \ {last} /\ last \in Live
  <2>1. count \in Nat /\ i \in Nat /\ i < count /\ count' = count - 1
    BY <1>2, LiveIsBlock DEF TableIInv, TableShape, UnsetEffect
  <2> QED BY <2>1 DEF Live
<1>4. \A j \in Live' : items'[j] = IF j = i THEN items[last] ELSE items[j]
  BY <1>2, <1>3 DEF UnsetEffect
<1> HIDE DEF last
<1>5. /\ heap[items[i].key] = k /\ DOMAIN heap' = DOMAIN heap \ {items[i].key, items[i].val}
      /\ \A c \in DOMAIN heap' : heap'[c] = heap[c]
  BY <1>2 DEF UnsetEffect
<1>6. /\ \A j \in Live : items[j].key \in DOMAIN heap /\ items[j].val \in DOMAIN heap
      /\ Apart /\ NamedOnce
  BY LiveIsBlock DEF TableIInv
<1>7. \A j \in Live \ {i} : /\ heap'[items[j].key] = heap[items[j].key]
                           /\ heap'[items[j].val] = heap[items[j].val]
                           /\ heap[items[j].key] # k
  BY <1>5, <1>6 DEF Apart, NamedOnce
<1>8. HasNone(k)' /\ ~HasNone(k)
  BY <1>3, <1>4, <1>5, <1>7 DEF HasNone
<1>9. ASSUME NEW x, x # k, NEW w PROVE Has(x, w)' <=> Has(x, w)
  <2>1. ASSUME Has(x, w) PROVE Has(x, w)'
    <3>1. PICK j \in Live : heap[items[j].key] = x /\ heap[items[j].val] = w
      BY <2>1 DEF Has
    <3>2. j # i
      BY <1>5, <1>9, <3>1
    <3>3. CASE j = last
      <4>1. i \in Live' /\ items'[i] = items[j]
        BY <1>3, <1>4, <3>2, <3>3
      <4> QED BY <1>7, <3>1, <3>2, <4>1 DEF Has
    <3>4. CASE j # last
      <4>1. j \in Live' /\ items'[j] = items[j]
        BY <1>3, <1>4, <3>2, <3>4
      <4> QED BY <1>7, <3>1, <3>2, <4>1 DEF Has
    <3> QED BY <3>3, <3>4
  <2>2. ASSUME Has(x, w)' PROVE Has(x, w)
    <3>1. PICK j \in Live' : heap'[items'[j].key] = x /\ heap'[items'[j].val] = w
      BY <2>2 DEF Has
    <3>2. \E m \in Live \ {i} : items'[j] = items[m]
      BY <1>3, <1>4, <3>1
    <3> QED BY <1>7, <3>1, <3>2 DEF Has
  <2> QED BY <2>1, <2>2
<1> QED BY <1>1, <1>8, <1>9, UnsetMaps

LEMMA SetFailsKeepsMap == ASSUME TableIInv, NEW k, SetFails(k) PROVE TheMap' = TheMap
<1>1. /\ \A j \in Live : items'[j] = items[j]
      /\ UNCHANGED <<count, heap, freed>> /\ Live' = Live
  BY SetFailsDoes DEF Live
<1>2. \A x : At(x)' = At(x)
  BY <1>1 DEF At
<1>3. \A x \in Names : At(x) # {} => items'[Entry(x)] = items[Entry(x)] /\ Entry(x)' = Entry(x)
  <2> SUFFICES ASSUME NEW x \in Names, At(x) # {}
               PROVE  items'[Entry(x)] = items[Entry(x)] /\ Entry(x)' = Entry(x)
    OBVIOUS
  <2>1. Entry(x)' = Entry(x)
    BY <1>2 DEF Entry
  <2>2. Entry(x) \in Live
    <3>1. At(x) \subseteq Nat
      BY LiveIsBlock DEF At
    <3>2. \E i \in At(x) : \A j \in At(x) : i <= j
      BY <3>1, MinIsLeast
    <3> QED BY <3>2 DEF Entry, At
  <2> QED BY <1>1, <2>1, <2>2
<1> QED BY <1>1, <1>2, <1>3 DEF TheMap

LEMMA StepMaps ==
  ASSUME TableIInv, TableIInv', [TableNext]_tableVars
  PROVE  [Map!Next]_TheMap
<1>1. \A s \in Settings : s[1] \in Names
  BY DEF Names
<1>2. ASSUME NEW s \in Settings, NEW k, NEW v, k = s[1], v = s[2], SetOld(k, v) PROVE Map!Next
  <2>1. k \in Names
    BY <1>1, <1>2
  <2>2. TheMap' = Extended(TheMap, k, v)
    BY <1>2, <2>1, SetOldMaps
  <2>3. Map!Set(k, v)
    BY ONLY <2>2 DEF Map!Set, TheMap, Extended
  <2> QED BY <1>2, <2>3 DEF Map!Next
<1>3. ASSUME NEW s \in Settings, NEW k, NEW v, k = s[1], v = s[2], SetNew(k, v) PROVE Map!Next
  <2>1. k \in Names
    BY <1>1, <1>3
  <2>2. TheMap' = Extended(TheMap, k, v)
    BY <1>3, <2>1, SetNewMaps
  <2>3. Map!Set(k, v)
    BY ONLY <2>2 DEF Map!Set, TheMap, Extended
  <2> QED BY <1>3, <2>3 DEF Map!Next
<1>4. ASSUME NEW k \in Names, SetFails(k) PROVE TheMap' = TheMap
  BY <1>4, SetFailsKeepsMap
<1>5. ASSUME NEW k \in Names, Unset(k) PROVE Map!Next
  <2>1. k \in DOMAIN TheMap /\ TheMap' = [x \in DOMAIN TheMap \ {k} |-> TheMap[x]]
    BY <1>5, UnsetUnmaps
  <2>2. Map!Unset(k)
    BY ONLY <2>1 DEF Map!Unset, TheMap
  <2> QED BY ONLY <2>1, <2>2 DEF Map!Next, TheMap
<1>6. CASE Shutdown
  <2>1. 0 .. 0 - 1 = {}
    OBVIOUS
  <2>2. \A k : At(k)' = {}
    BY <1>6, <2>1 DEF Shutdown, At, Live
  <2>3. Map!Shutdown
    BY <2>2 DEF Map!Shutdown
  <2> QED BY <2>3 DEF Map!Next
<1>7. ASSUME UNCHANGED tableVars PROVE TheMap' = TheMap
  BY <1>7 DEF tableVars, TheMap, At, Live, Entry
<1> QED BY <1>2, <1>3, <1>4, <1>5, <1>6, <1>7 DEF TableNext

\* For every set of settings and every capacity the array, its growth and its
\* moves and what fails in between are one finite map: a name has the value it
\* was last set to until it is unset (session_set, session_get, session_unset).
THEOREM TableIsAMap == TableSpec => ImplementsMap
<1>1. TableInit => Map!Init
  <2> SUFFICES ASSUME TableInit PROVE Map!Init
    OBVIOUS
  <2>1. 0 .. 0 - 1 = {}
    OBVIOUS
  <2>2. \A k : At(k) = {}
    BY <2>1 DEF TableInit, At, Live
  <2> QED BY <2>2 DEF Map!Init
<1>2. TableIInv /\ TableIInv' /\ [TableNext]_tableVars => [Map!Next]_TheMap
  BY StepMaps
<1> QED BY <1>1, <1>2, TableAlwaysInv, PTL DEF TableSpec, ImplementsMap, Map!Spec, TheMap

-----------------------------------------------------------------------------
(***************************************************************************)
(* The monitor (Monitor).  Inductive are the types of the screen, of the   *)
(* buffer and of the keys with EditsAsTyped and KeysInOrder; a step that   *)
(* ends a line also makes RunsTheLine true of it.                          *)
(***************************************************************************)
Texts == Seq(Printable)
Screens == [0 .. Rows - 1 -> [0 .. Cols - 1 -> Nat]]

LEMMA Codes ==
  /\ Keys \subseteq Nat /\ CR \in Keys /\ BS \in Keys /\ CR # BS /\ CR \notin Printable /\ BS \notin Printable
  /\ Printable \subseteq Nat /\ Nul \notin Printable /\ Nul = 0 /\ Blank \in Nat
  /\ Rows \in Nat /\ Rows > 3 /\ Cols \in Nat /\ Cols > 2 /\ InputMax \in Nat
BY MonitorAssumption DEF Keys, CR, BS, Printable, Nul, Blank

LEMMA EditIs ==
  ASSUME NEW l
  PROVE  /\ Edit(l, CR) = <<>> /\ Edit(l, BS) = IF l = <<>> THEN l ELSE Front(l)
         /\ \A ch \in Printable :
              Edit(l, ch) = IF Len(l) < InputMax /\ Len(l) + 2 < Cols THEN Append(l, ch) ELSE l
         /\ \A ch : ch \notin Printable \union {CR, BS} => Edit(l, ch) = l
BY Codes DEF Edit

LEMMA EmptyText == ASSUME NEW l \in Texts PROVE Len(l) \in Nat /\ (l = <<>> <=> Len(l) = 0)
BY DEF Texts

LEMMA EditTyped == ASSUME NEW l \in Texts, NEW ch PROVE Edit(l, ch) \in Texts
<1>1. CASE ch = BS
  <2>1. l # <<>> => Front(l) \in Texts
    BY DEF Front, Texts
  <2> QED BY <1>1, <2>1, Codes DEF Edit
<1>2. CASE ch \in Printable
  BY <1>2, Codes DEF Edit, Texts
<1>3. CASE ch # BS /\ ch \notin Printable
  BY <1>3 DEF Edit, Texts
<1> QED BY <1>1, <1>2, <1>3

\* The lines after each character, as an equation.
LEMMA LinesAre ==
  ASSUME NEW t \in Seq(Keys)
  PROVE  /\ LinesOf(t) \in [0 .. Len(t) -> Texts]
         /\ LinesOf(t)[0] = <<>>
         /\ \A n \in 1 .. Len(t) : LinesOf(t)[n] = Edit(LinesOf(t)[n - 1], t[n])
<1> DEFINE N == Len(t)
           step == [n \in 1 .. N |-> [l \in Texts |-> Edit(l, t[n])]]
           Eq(f) == f = [n \in 0 .. N |-> IF n = 0 THEN <<>> ELSE Edit(f[n - 1], t[n])]
<1>1. N \in Nat /\ <<>> \in Texts
  BY DEF Texts
<1>2. step \in [1 .. N -> [Texts -> Texts]]
  BY EditTyped
<1>3. PICK f \in [0 .. N -> Texts] : Stepped(f, N, <<>>, step)
  <2> HIDE DEF step, N, Texts
  <2> QED BY <1>1, <1>2, RecursionIn
<1>4. ASSUME NEW n \in 0 .. N PROVE f[n] = IF n = 0 THEN <<>> ELSE Edit(f[n - 1], t[n])
  <2>1. CASE n = 0
    BY <1>3, <2>1 DEF Stepped
  <2>2. CASE n # 0
    <3>1. n \in 1 .. N /\ n - 1 \in 0 .. N
      BY <1>1, <2>2
    <3>2. f[n - 1] \in Texts
      BY <3>1
    <3>3. step[n][f[n - 1]] = Edit(f[n - 1], t[n])
      BY <3>1, <3>2
    <3> HIDE DEF step
    <3> QED BY <1>3, <2>2, <3>3 DEF Stepped
  <2> QED BY <2>1, <2>2
<1>5. Eq(f)
  <2> DEFINE g == [n \in 0 .. N |-> IF n = 0 THEN <<>> ELSE Edit(f[n - 1], t[n])]
  <2>1. f = g
    BY <1>4
  <2> QED BY <2>1
<1>6. \E h : Eq(h)
  <2> HIDE DEF Eq
  <2> QED BY <1>5
<1>7. Eq(CHOOSE h : Eq(h))
  <2> HIDE DEF Eq
  <2> QED BY <1>6
<1> DEFINE F == LinesOf(t)
<1>8. Eq(F)
  BY <1>7 DEF LinesOf
<1> HIDE DEF F
<1>9. F[0] = <<>> /\ \A n \in 1 .. N : F[n] = Edit(F[n - 1], t[n])
  BY <1>1, <1>8
<1>10. 0 .. N \subseteq {n \in 0 .. N : F[n] \in Texts}
  <2> DEFINE T == {n \in 0 .. N : F[n] \in Texts}
  <2>1. 0 \in T
    BY <1>1, <1>9
  <2>2. ASSUME NEW n \in 0 .. N - 1, n \in T PROVE n + 1 \in T
    <3>1. n + 1 \in 1 .. N /\ (n + 1) - 1 = n
      BY <1>1
    <3>2. F[n + 1] = Edit(F[n], t[n + 1])
      BY <1>9, <3>1
    <3> QED BY <2>2, <3>1, <3>2, EditTyped
  <2> HIDE DEF T
  <2> QED BY <1>1, <2>1, <2>2, InductionUpTo DEF T
<1>11. F \in [0 .. N -> Texts]
  BY <1>8, <1>10
<1> QED BY <1>9, <1>11 DEF F

\* One character more changes none of the lines before.
LEMMA OneCharMore ==
  ASSUME NEW t \in Seq(Keys), NEW ch \in Keys
  PROVE  /\ \A n \in 0 .. Len(t) : LinesOf(Append(t, ch))[n] = LinesOf(t)[n]
         /\ Line(Append(t, ch)) = Edit(Line(t), ch)
         /\ Line(t) \in Texts
<1> DEFINE u == Append(t, ch)
           F == LinesOf(t)
           G == LinesOf(u)
           N == Len(t)
           T == {n \in 0 .. N : G[n] = F[n]}
<1>1. N \in Nat /\ u \in Seq(Keys) /\ Len(u) = N + 1 /\ u[N + 1] = ch /\ \A n \in 1 .. N : u[n] = t[n]
  OBVIOUS
<1>2. F \in [0 .. N -> Texts] /\ F[0] = <<>> /\ \A n \in 1 .. N : F[n] = Edit(F[n - 1], t[n])
  BY LinesAre
<1>3. G[0] = <<>> /\ \A n \in 1 .. N + 1 : G[n] = Edit(G[n - 1], u[n])
  <2> HIDE DEF u
  <2> QED BY <1>1, LinesAre
<1> HIDE DEF u, F, G
<1>4. 0 \in T
  BY <1>1, <1>2, <1>3
<1>5. ASSUME NEW n \in 0 .. N - 1, n \in T PROVE n + 1 \in T
  <2>1. n + 1 \in 1 .. N /\ n + 1 \in 1 .. N + 1 /\ (n + 1) - 1 = n
    BY <1>1
  <2> QED BY <1>1, <1>2, <1>3, <1>5, <2>1
<1>6. \A n \in 0 .. N : G[n] = F[n]
  <2>1. 0 .. N \subseteq T
    <3> HIDE DEF T
    <3> QED BY <1>1, <1>4, <1>5, InductionUpTo
  <2> QED BY <2>1
<1>7. G[N + 1] = Edit(F[N], ch)
  BY <1>1, <1>3, <1>6, (N + 1) - 1 = N
<1>8. F[N] \in Texts
  BY <1>1, <1>2
<1> QED BY <1>1, <1>6, <1>7, <1>8 DEF Line, u, F, G

-----------------------------------------------------------------------------
\* What is printed keeps the screen a screen.
LEMMA PrintTyped ==
  ASSUME NEW sc \in Screens, NEW r \in 0 .. Rows - 1, NEW text \in Seq(Nat)
  PROVE  PrintAt(sc, r, text) \in Screens
<1> DEFINE line == [c \in 0 .. Cols - 1 |-> IF c < Len(text) THEN text[c + 1] ELSE sc[r][c]]
<1>1. line \in [0 .. Cols - 1 -> Nat]
  <2> SUFFICES ASSUME NEW c \in 0 .. Cols - 1
               PROVE  (IF c < Len(text) THEN text[c + 1] ELSE sc[r][c]) \in Nat
    OBVIOUS
  <2>1. sc[r][c] \in Nat
    BY DEF Screens
  <2>2. c < Len(text) => c + 1 \in 1 .. Len(text)
    BY Codes
  <2> QED BY <2>1, <2>2
<1>2. PrintAt(sc, r, text) = [sc EXCEPT ![r] = line]
  BY DEF PrintAt
<1> HIDE DEF line
<1> QED BY <1>1, <1>2 DEF Screens

Pages == [sc : Screens, row : 0 .. Rows - 1]

LEMMA NextRow == ASSUME NEW r \in 0 .. Rows - 1 PROVE NormalizeRow(r + 1) \in 0 .. Rows - 1
BY Codes DEF NormalizeRow

LEMMA PutLineTyped == ASSUME NEW p \in Pages, NEW m \in DOMAIN Message PROVE PutLine(p, m) \in Pages
<1>1. p.sc \in Screens /\ p.row \in 0 .. Rows - 1 /\ Message[m] \in Seq(Nat)
  BY MonitorAssumption DEF Pages
<1>2. PrintAt(p.sc, p.row, Message[m]) \in Screens /\ NormalizeRow(p.row + 1) \in 0 .. Rows - 1
  BY <1>1, PrintTyped, NextRow
<1> QED BY <1>2 DEF PutLine, Pages

LEMMA PrintedTyped ==
  ASSUME NEW sc \in Screens, NEW r \in 0 .. Rows - 1, NEW ms \in Seq(DOMAIN Message)
  PROVE  Printed(sc, r, ms) \in Pages
<1> DEFINE N == Len(ms)
           top == [sc |-> sc, row |-> r]
           step == [n \in 1 .. N |-> [p \in Pages |-> PutLine(p, ms[n])]]
           Eq(f) == f = [n \in 0 .. N |-> IF n = 0 THEN [sc |-> sc, row |-> r] ELSE PutLine(f[n - 1], ms[n])]
<1>1. N \in Nat /\ top \in Pages
  BY DEF Pages
<1>2. step \in [1 .. N -> [Pages -> Pages]]
  BY PutLineTyped
<1>3. PICK f \in [0 .. N -> Pages] : Stepped(f, N, top, step)
  <2> HIDE DEF step, N, top
  <2> QED BY <1>1, <1>2, RecursionIn
<1>4. ASSUME NEW n \in 0 .. N PROVE f[n] = IF n = 0 THEN top ELSE PutLine(f[n - 1], ms[n])
  <2>1. CASE n = 0
    BY <1>3, <2>1 DEF Stepped
  <2>2. CASE n # 0
    <3>1. n \in 1 .. N /\ n - 1 \in 0 .. N
      BY <1>1, <2>2
    <3>2. f[n - 1] \in Pages
      BY <3>1
    <3>3. step[n][f[n - 1]] = PutLine(f[n - 1], ms[n])
      BY <3>1, <3>2
    <3> HIDE DEF step
    <3> QED BY <1>3, <2>2, <3>3 DEF Stepped
  <2> QED BY <2>1, <2>2
<1>5. Eq(f)
  <2> DEFINE g == [n \in 0 .. N |-> IF n = 0 THEN top ELSE PutLine(f[n - 1], ms[n])]
  <2>1. f = g
    <3> HIDE DEF top
    <3> QED BY <1>4
  <2> QED BY <2>1
<1>6. \E h : Eq(h)
  <2> HIDE DEF Eq
  <2> QED BY <1>5
<1>7. Eq(CHOOSE h : Eq(h))
  <2> HIDE DEF Eq
  <2> QED BY <1>6
<1> DEFINE F == CHOOSE h : Eq(h)
<1>8. Printed(sc, r, ms) = F[N]
  BY DEF Printed
<1> HIDE DEF F
<1>9. F = [n \in 0 .. N |-> IF n = 0 THEN top ELSE PutLine(F[n - 1], ms[n])]
  BY <1>7 DEF F
<1> HIDE DEF Eq, top
<1> DEFINE T == {n \in 0 .. N : F[n] \in Pages}
<1>10. 0 \in T
  BY <1>1, <1>9
<1>11. ASSUME NEW n \in 0 .. N - 1, n \in T PROVE n + 1 \in T
  <2>1. n + 1 \in 1 .. N /\ n + 1 \in 0 .. N /\ n + 1 # 0 /\ (n + 1) - 1 = n
    BY <1>1
  <2>2. F[n + 1] = PutLine(F[n], ms[n + 1])
    BY <1>9, <2>1
  <2>3. ms[n + 1] \in DOMAIN Message
    BY <2>1
  <2> QED BY <1>11, <2>1, <2>2, <2>3, PutLineTyped
<1>12. N \in T
  <2>1. 0 .. N \subseteq T
    <3> HIDE DEF T, N
    <3> QED BY <1>1, <1>10, <1>11, InductionUpTo
  <2> HIDE DEF T
  <2> QED BY <1>1, <2>1, N \in 0 .. N
<1> QED BY <1>8, <1>12

LEMMA PrintedOne ==
  ASSUME NEW sc \in Screens, NEW r \in 0 .. Rows - 1, NEW m \in DOMAIN Message
  PROVE  Printed(sc, r, <<m>>) \in Pages
<1> DEFINE D == DOMAIN Message
           ms == <<m>>
<1>1. ms \in Seq(D)
  <2>1. m \in D
    OBVIOUS
  <2> HIDE DEF D
  <2> QED BY <2>1
<1> HIDE DEF ms
<1>2. Printed(sc, r, ms) \in Pages
  BY <1>1, PrintedTyped
<1> QED BY <1>2 DEF ms

Commands == {"help", "about", "clear", "time", "halt"}

LEMMA DarkTyped == Dark \in Screens
BY Codes DEF Dark, Screens

LEMMA AnswerTyped ==
  ASSUME screen \in Screens, NEW r \in 0 .. Rows - 1, NEW cmd \in (Commands \union {"unknown"}) \ {"halt"}
  PROVE  Answer(cmd, r) \in Pages
<1> USE MonitorAssumption
<1>1. CASE cmd = "help"
  <2>1. Answer(cmd, r) = Printed(screen, r, HelpLines)
    BY <1>1 DEF Answer
  <2> QED BY <2>1, PrintedTyped
<1>2. CASE cmd = "about"
  <2>1. Answer(cmd, r) = Printed(screen, r, <<"banner">>)
    BY <1>2 DEF Answer
  <2> QED BY <2>1, PrintedOne
<1>3. CASE cmd = "clear"
  <2>1. Answer(cmd, r) = [sc |-> PrintAt(Dark, 0, Message.banner), row |-> 1]
    BY <1>3 DEF Answer
  <2>2. Message.banner \in Seq(Nat) /\ 0 \in 0 .. Rows - 1 /\ 1 \in 0 .. Rows - 1
    BY Codes
  <2>3. PrintAt(Dark, 0, Message.banner) \in Screens
    BY <2>2, DarkTyped, PrintTyped
  <2> QED BY <2>1, <2>2, <2>3 DEF Pages
<1>4. CASE cmd = "time"
  <2>1. Answer(cmd, r) = Printed(screen, r, <<"time">>)
    BY <1>4 DEF Answer
  <2> QED BY <2>1, PrintedOne
<1>5. CASE cmd = "unknown"
  <2>1. Answer(cmd, r) = Printed(screen, r, <<"unknown">>)
    BY <1>5 DEF Answer
  <2> QED BY <2>1, PrintedOne
<1> QED BY <1>1, <1>2, <1>3, <1>4, <1>5 DEF Commands

-----------------------------------------------------------------------------
\* A line that is terminated is the word it equals, and no other.
LEMMA StreqIs ==
  ASSUME NEW b, NEW line \in Texts, NEW w \in Texts, Len(w) <= InputMax,
         \A i \in 1 .. Len(line) : b[i - 1] = line[i], b[Len(line)] = Nul
  PROVE  Streq(b, w) <=> w = line
<1>1. Len(line) \in Nat /\ Len(w) \in Nat
      /\ (\A i \in 1 .. Len(line) : line[i] # Nul) /\ (\A i \in 1 .. Len(w) : w[i] # Nul)
  BY Codes DEF Texts
<1>2. ASSUME w = line PROVE Streq(b, w)
  <2>1. \A i \in 0 .. Len(w) : b[i] = IF i < Len(w) THEN w[i + 1] ELSE Nul
    <3> TAKE i \in 0 .. Len(w)
    <3>1. CASE i < Len(w)
      <4>1. i + 1 \in 1 .. Len(line) /\ (i + 1) - 1 = i
        BY <1>1, <1>2, <3>1
      <4> QED BY <1>2, <3>1, <4>1
    <3>2. CASE i = Len(w)
      BY <1>1, <1>2, <3>2
    <3> QED BY <1>1, <3>1, <3>2
  <2> QED BY <2>1 DEF Streq
<1>3. ASSUME Streq(b, w) PROVE w = line
  <2>1. /\ \A i \in 1 .. Len(w) : b[i - 1] = w[i]
        /\ b[Len(w)] = Nul
    <3>1. \A i \in 0 .. Len(w) : b[i] = IF i < Len(w) THEN w[i + 1] ELSE Nul
      BY <1>3 DEF Streq
    <3>2. \A i \in 1 .. Len(w) : i - 1 \in 0 .. Len(w) /\ i - 1 < Len(w) /\ (i - 1) + 1 = i
      BY <1>1
    <3>3. Len(w) \in 0 .. Len(w) /\ ~(Len(w) < Len(w))
      BY <1>1
    <3> QED BY <3>1, <3>2, <3>3
  <2>2. ~(Len(w) > Len(line))
    <3> SUFFICES ASSUME Len(w) > Len(line) PROVE FALSE
      OBVIOUS
    <3>1. Len(line) + 1 \in 1 .. Len(w) /\ (Len(line) + 1) - 1 = Len(line)
      BY <1>1
    <3> QED BY <1>1, <2>1, <3>1
  <2>3. ~(Len(w) < Len(line))
    <3> SUFFICES ASSUME Len(w) < Len(line) PROVE FALSE
      OBVIOUS
    <3>1. Len(w) + 1 \in 1 .. Len(line) /\ (Len(w) + 1) - 1 = Len(w)
      BY <1>1
    <3> QED BY <1>1, <2>1, <3>1
  <2>4. Len(w) = Len(line)
    BY <1>1, <2>2, <2>3
  <2>5. \A i \in 1 .. Len(w) : w[i] = line[i]
    BY <2>1, <2>4
  <2> QED BY <2>4, <2>5, SeqEqual DEF Texts
<1> QED BY <1>2, <1>3

\* So the command chosen is one the line names, or there is none it names.
NamedBy(line) == {c \in DOMAIN Word : Word[c] = line}

LEMMA DispatchIs ==
  ASSUME NEW b, NEW line \in Texts,
         \A i \in 1 .. Len(line) : b[i - 1] = line[i], b[Len(line)] = Nul
  PROVE  IF NamedBy(line) = {} THEN Dispatch(b) = "unknown" ELSE Dispatch(b) \in NamedBy(line)
<1> DEFINE hits == {i \in DOMAIN Order : Streq(b, Word[Order[i]])}
<1>1. DOMAIN Word = Commands /\ \A c \in Commands : Word[c] \in Texts /\ Len(Word[c]) <= InputMax
  BY MonitorAssumption DEF Commands, Texts, Printable
<1>2. DOMAIN Order = 1 .. 5 /\ (\A i \in 1 .. 5 : Order[i] \in Commands)
      /\ \A c \in Commands : \E i \in 1 .. 5 : Order[i] = c
  <2>1. Order[1] = "help" /\ Order[2] = "about" /\ Order[3] = "clear" /\ Order[4] = "time" /\ Order[5] = "halt"
        /\ DOMAIN Order = 1 .. 5
    BY DEF Order
  <2> QED BY <2>1 DEF Commands
<1>3. \A i \in 1 .. 5 : i \in hits <=> Order[i] \in NamedBy(line)
  <2> TAKE i \in 1 .. 5
  <2> DEFINE w == Word[Order[i]]
  <2>1. Order[i] \in DOMAIN Word /\ w \in Texts /\ Len(w) <= InputMax
    BY <1>1, <1>2
  <2>2. i \in hits <=> Streq(b, w)
    BY <1>2
  <2> HIDE DEF w, hits
  <2>3. Streq(b, w) <=> w = line
    BY <2>1, StreqIs
  <2> QED BY <2>1, <2>2, <2>3 DEF NamedBy, w
<1>4. hits \subseteq 1 .. 5 /\ NamedBy(line) \subseteq Commands
  BY <1>1, <1>2 DEF NamedBy
<1>5. Dispatch(b) = IF hits = {} THEN "unknown" ELSE Order[CHOOSE i \in hits : \A j \in hits : i <= j]
  BY DEF Dispatch
<1> HIDE DEF hits
<1>6. CASE hits = {}
  BY <1>2, <1>3, <1>4, <1>5, <1>6
<1>7. CASE hits # {}
  <2>1. \E i \in hits : \A j \in hits : i <= j
    BY <1>4, <1>7, Least, 1 .. 5 \subseteq Nat
  <2>2. (CHOOSE i \in hits : \A j \in hits : i <= j) \in hits
    BY <2>1
  <2> QED BY <1>3, <1>4, <1>5, <1>7, <2>2
<1> QED BY <1>6, <1>7

-----------------------------------------------------------------------------
\* What the editor keeps, and that it shows a line.
EditorTyped ==
  /\ at \in {"poll", "data", "halted"} /\ len \in 0 .. InputMax
  /\ row \in 0 .. Rows - 1 /\ cursor \in (0 .. Rows - 1) \X (2 .. Cols)
  /\ screen \in Screens /\ buf \in [0 .. InputMax -> Nat]
Shows(line) ==
  /\ len = Len(line) /\ cursor = <<row, 2 + len>>
  /\ \A i \in 1 .. len : buf[i - 1] = line[i] /\ screen[row][i + 1] = line[i]

LEMMA BackspaceShows ==
  ASSUME EditorTyped, NEW line \in Texts, Shows(line), HandleBackspace
  PROVE  EditorTyped' /\ Shows(Edit(line, BS))' /\ at' # "halted"
<1>1. len \in Nat /\ row \in 0 .. Rows - 1 /\ cursor[1] = row /\ cursor[2] = 2 + len /\ 2 + len <= Cols
      /\ screen \in Screens /\ len <= InputMax /\ Cols \in Nat
  BY Codes DEF EditorTyped, Shows
<1>2. row' = row /\ buf' = buf /\ at' = "poll"
  BY DEF HandleBackspace
<1>3. CASE len = 0
  <2>1. line = <<>> /\ Edit(line, BS) = line
    BY <1>3, EditIs, EmptyText DEF Shows
  <2>2. len' = len /\ cursor' = cursor /\ screen' = screen
    BY <1>3 DEF HandleBackspace
  <2> QED BY <1>2, <2>1, <2>2 DEF EditorTyped, Shows
<1>4. CASE len # 0
  <2> DEFINE l == Edit(line, BS)
  <2>1. l = SubSeq(line, 1, Len(line) - 1)
    BY <1>1, <1>4, EditIs, EmptyText DEF Front, Shows
  <2>2. Len(l) = len - 1 /\ \A i \in 1 .. len - 1 : l[i] = line[i]
    BY <1>1, <1>4, <2>1 DEF Shows, Texts
  <2> HIDE DEF l
  <2>3. /\ len' = len - 1 /\ cursor' = <<row, 1 + len>>
        /\ screen' = [screen EXCEPT ![row][1 + len] = Blank]
    BY <1>1, <1>4, (2 + len) - 1 = 1 + len DEF HandleBackspace
  <2>4. screen' \in Screens /\ \A i \in 1 .. len - 1 : screen'[row][i + 1] = screen[row][i + 1]
    <3>1. screen[row] \in [0 .. Cols - 1 -> Nat]
      BY <1>1 DEF Screens
    <3> DEFINE cells == [screen[row] EXCEPT ![1 + len] = Blank]
    <3>2. cells \in [0 .. Cols - 1 -> Nat] /\ \A i \in 1 .. len - 1 : cells[i + 1] = screen[row][i + 1]
      <4> DEFINE old == screen[row]
      <4>1. old \in [0 .. Cols - 1 -> Nat] /\ cells = [old EXCEPT ![1 + len] = Blank]
        BY <3>1
      <4>2. \A i \in 1 .. len - 1 : i + 1 \in 0 .. Cols - 1 /\ i + 1 # 1 + len
        BY <1>1
      <4> HIDE DEF old, cells
      <4>3. cells \in [0 .. Cols - 1 -> Nat] /\ \A i \in 1 .. len - 1 : cells[i + 1] = old[i + 1]
        BY <1>1, <4>1, <4>2, Codes
      <4> QED BY <4>3 DEF old
    <3>3. screen' = [screen EXCEPT ![row] = cells]
      BY <2>3
    <3> HIDE DEF cells
    <3> QED BY <1>1, <3>2, <3>3 DEF Screens
  <2>5. len' \in 0 .. InputMax /\ 1 + len \in 2 .. Cols /\ 2 + len' = 1 + len
    BY <1>1, <1>4, <2>3, Codes
  <2>6. cursor' \in (0 .. Rows - 1) \X (2 .. Cols)
    BY <1>1, <2>3, <2>5
  <2>7. EditorTyped'
    BY <1>2, <2>4, <2>5, <2>6 DEF EditorTyped
  <2>8. \A i \in 1 .. len' : buf'[i - 1] = l[i] /\ screen'[row'][i + 1] = l[i]
    <3>1. \A i \in 1 .. len - 1 : i \in 1 .. len
      BY <1>1
    <3> QED BY <1>2, <2>2, <2>3, <2>4, <3>1 DEF Shows
  <2>9. Shows(l)'
    BY <1>2, <2>2, <2>3, <2>5, <2>8 DEF Shows
  <2> QED BY <1>2, <2>7, <2>9 DEF l
<1> QED BY <1>3, <1>4

LEMMA TextShows ==
  ASSUME EditorTyped, NEW line \in Texts, Shows(line), NEW ch \in Printable, HandleText(ch)
  PROVE  EditorTyped' /\ Shows(Edit(line, ch))' /\ at' # "halted"
<1>1. len \in Nat /\ row \in 0 .. Rows - 1 /\ cursor[1] = row /\ cursor[2] = 2 + len /\ 2 + len <= Cols
      /\ screen \in Screens /\ len <= InputMax /\ Cols \in Nat /\ InputMax \in Nat /\ len = Len(line)
      /\ buf \in [0 .. InputMax -> Nat] /\ ch \in Nat
  BY Codes DEF EditorTyped, Shows
<1>2. row' = row /\ at' = "poll"
  BY DEF HandleText
<1>3. Edit(line, ch) = IF Room THEN Append(line, ch) ELSE line
  <2>1. Room <=> (Len(line) < InputMax /\ Len(line) + 2 < Cols)
    BY <1>1 DEF Room
  <2> QED BY <2>1, EditIs
<1>4. CASE ~Room
  <2>1. len' = len /\ cursor' = cursor /\ screen' = screen /\ buf' = buf
    BY <1>4 DEF HandleText
  <2> QED BY <1>2, <1>3, <1>4, <2>1 DEF EditorTyped, Shows
<1>5. CASE Room
  <2> DEFINE l == Append(line, ch)
  <2>1. Len(l) = len + 1 /\ l[len + 1] = ch /\ \A i \in 1 .. len : l[i] = line[i]
    BY <1>1 DEF Texts
  <2>2. Edit(line, ch) = l
    BY <1>3, <1>5
  <2> HIDE DEF l
  <2>3. len < InputMax /\ 2 + len < Cols
    BY <1>1, <1>5 DEF Room
  <2>4. /\ buf' = [buf EXCEPT ![len] = ch] /\ len' = len + 1
        /\ screen' = [screen EXCEPT ![row][2 + len] = ch]
        /\ cursor' = <<row, 3 + len>>
    BY <1>1, <1>5, (2 + len) + 1 = 3 + len DEF HandleText
  <2>5. buf' \in [0 .. InputMax -> Nat] /\ buf'[len] = ch /\ \A i \in 1 .. len : buf'[i - 1] = buf[i - 1]
    <3>1. \A i \in 1 .. len : i - 1 \in 0 .. InputMax /\ i - 1 # len
      BY <1>1
    <3> QED BY <1>1, <2>4, <3>1
  <2>6. screen' \in Screens /\ screen'[row][2 + len] = ch
        /\ \A i \in 1 .. len : screen'[row][i + 1] = screen[row][i + 1]
    <3>1. screen[row] \in [0 .. Cols - 1 -> Nat]
      BY <1>1 DEF Screens
    <3> DEFINE cells == [screen[row] EXCEPT ![2 + len] = ch]
    <3>2. cells \in [0 .. Cols - 1 -> Nat] /\ cells[2 + len] = ch
          /\ \A i \in 1 .. len : cells[i + 1] = screen[row][i + 1]
      <4> DEFINE old == screen[row]
      <4>1. old \in [0 .. Cols - 1 -> Nat] /\ cells = [old EXCEPT ![2 + len] = ch]
        BY <3>1
      <4>2. 2 + len \in 0 .. Cols - 1 /\ \A i \in 1 .. len : i + 1 \in 0 .. Cols - 1 /\ i + 1 # 2 + len
        BY <1>1, <2>3
      <4> HIDE DEF old, cells
      <4>3. cells \in [0 .. Cols - 1 -> Nat]
        BY <1>1, <4>1
      <4>4. cells[2 + len] = ch
        BY <4>1, <4>2
      <4>5. \A i \in 1 .. len : cells[i + 1] = old[i + 1]
        BY <4>1, <4>2
      <4> QED BY <4>3, <4>4, <4>5 DEF old
    <3>3. screen' = [screen EXCEPT ![row] = cells]
      BY <2>4
    <3> HIDE DEF cells
    <3> QED BY <1>1, <3>2, <3>3 DEF Screens
  <2>7. len' \in 0 .. InputMax /\ 3 + len \in 2 .. Cols /\ 2 + len' = 3 + len
    BY <1>1, <2>3, <2>4
  <2>8. cursor' \in (0 .. Rows - 1) \X (2 .. Cols)
    BY <1>1, <2>4, <2>7
  <2>9. EditorTyped'
    BY <1>2, <2>5, <2>6, <2>7, <2>8 DEF EditorTyped
  <2>10. \A i \in 1 .. len' : buf'[i - 1] = l[i] /\ screen'[row'][i + 1] = l[i]
    <3> TAKE i \in 1 .. len'
    <3>1. CASE i = len + 1
      <4>1. i - 1 = len /\ i + 1 = 2 + len
        BY <1>1, <3>1
      <4> QED BY <1>2, <2>1, <2>5, <2>6, <3>1, <4>1
    <3>2. CASE i # len + 1
      <4>1. i \in 1 .. len
        BY <1>1, <2>4, <3>2
      <4> QED BY <1>2, <2>1, <2>5, <2>6, <4>1 DEF Shows
    <3> QED BY <3>1, <3>2
  <2>11. Shows(l)'
    BY <1>2, <2>1, <2>4, <2>7, <2>10 DEF Shows
  <2> QED BY <1>2, <2>2, <2>9, <2>11
<1> QED BY <1>4, <1>5

LEMMA PromptShows ==
  ASSUME NEW sc \in Screens, NEW r \in 0 .. Rows - 1, Prompt(sc, r), buf' \in [0 .. InputMax -> Nat]
  PROVE  EditorTyped' /\ Shows(<<>>)' /\ at' # "halted"
<1>1. PromptText \in Seq(Nat)
  BY DEF PromptText, Blank
<1>2. screen' \in Screens /\ row' = r /\ cursor' = <<r, 2>> /\ len' = 0 /\ at' = "poll"
  BY <1>1, PrintTyped DEF Prompt
<1>3. 2 \in 2 .. Cols /\ 0 \in 0 .. InputMax /\ 2 + 0 = 2
  BY Codes
<1> QED BY <1>2, <1>3 DEF EditorTyped, Shows

\* Enter ends the line, and runs the command that its text names.
LEMMA EnterShows ==
  ASSUME EditorTyped, NEW line \in Texts, Shows(line), HandleEnter
  PROVE  /\ EditorTyped' /\ (at' # "halted" => Shows(Edit(line, CR))')
         /\ IF line = <<>> THEN ran' = ran
            ELSE IF NamedBy(line) = {} THEN ran' = "unknown" ELSE ran' \in NamedBy(line)
<1> DEFINE b == [buf EXCEPT ![len] = Nul]
           r == NormalizeRow(row + 1)
           cmd == Dispatch(b)
<1>1. len \in 0 .. InputMax /\ row \in 0 .. Rows - 1 /\ screen \in Screens /\ buf \in [0 .. InputMax -> Nat]
      /\ len = Len(line) /\ len \in Nat
  BY Codes DEF EditorTyped, Shows
<1>2. r \in 0 .. Rows - 1
  BY <1>1, NextRow
<1>3. b \in [0 .. InputMax -> Nat] /\ b[len] = Nul /\ \A i \in 1 .. len : b[i - 1] = line[i]
  <2>1. \A i \in 1 .. len : i - 1 \in 0 .. InputMax /\ i - 1 # len
    BY <1>1, Codes
  <2> QED BY <1>1, <2>1, Codes DEF Shows
<1>4. /\ buf' = b
      /\ IF len = 0 THEN Prompt(screen, r) /\ UNCHANGED ran
         ELSE /\ ran' = cmd
              /\ IF cmd = "halt"
                 THEN /\ screen' = PrintAt(screen, r, Message.halt) /\ row' = r
                      /\ at' = "halted" /\ UNCHANGED <<cursor, len>>
                 ELSE Prompt(Answer(cmd, r).sc, Answer(cmd, r).row)
  BY DEF HandleEnter, EndLine
<1> HIDE DEF b, r
<1>5. IF NamedBy(line) = {} THEN cmd = "unknown" ELSE cmd \in NamedBy(line)
  BY <1>1, <1>3, DispatchIs
<1>6. cmd \in Commands \union {"unknown"}
  BY <1>5, MonitorAssumption DEF NamedBy, Commands
<1> HIDE DEF cmd
<1>7. Edit(line, CR) = <<>> /\ (line = <<>> <=> len = 0)
  BY <1>1, EditIs, EmptyText
<1>8. CASE len = 0
  BY <1>1, <1>2, <1>3, <1>4, <1>7, <1>8, PromptShows
<1>9. CASE len # 0 /\ cmd = "halt"
  <2>1. Message.halt \in Seq(Nat)
    BY MonitorAssumption
  <2>2. screen' \in Screens /\ row' = r /\ at' = "halted" /\ cursor' = cursor /\ len' = len /\ buf' = b
    BY <1>1, <1>2, <1>4, <1>9, <2>1, PrintTyped
  <2>3. EditorTyped'
    BY <1>2, <1>3, <2>2 DEF EditorTyped
  <2> QED BY <1>4, <1>5, <1>7, <1>9, <2>2, <2>3
<1>10. CASE len # 0 /\ cmd # "halt"
  <2> DEFINE p == Answer(cmd, r)
  <2>1. p \in Pages
    BY <1>1, <1>2, <1>6, <1>10, AnswerTyped
  <2>2. p.sc \in Screens /\ p.row \in 0 .. Rows - 1 /\ Prompt(p.sc, p.row)
    BY <1>4, <1>10, <2>1 DEF Pages
  <2> HIDE DEF p
  <2>3. EditorTyped' /\ Shows(<<>>)' /\ at' # "halted"
    BY <1>3, <1>4, <2>2, PromptShows
  <2> QED BY <1>4, <1>5, <1>7, <1>10, <2>3
<1> QED BY <1>8, <1>9, <1>10

-----------------------------------------------------------------------------
\* The inductive invariant.
MonIInv ==
  /\ EditorTyped /\ EditsAsTyped /\ KeysInOrder /\ RunsTheLine
  /\ queue \in Seq(Keys) /\ typed \in Seq(Keys) /\ taken \in Seq(Keys)

LEMMA EditsAre == EditsAsTyped <=> (at # "halted" => Shows(Line(taken)))
BY DEF EditsAsTyped, Shows

LEMMA MonInitInv == MonInit => MonIInv
<1> SUFFICES ASSUME MonInit PROVE MonIInv
  OBVIOUS
<1>1. DOMAIN Message # {} /\ Message.banner \in Seq(Nat) /\ PromptText \in Seq(Nat)
  BY MonitorAssumption DEF PromptText, Blank
<1>2. screen \in Screens
  <2>1. 2 \in 0 .. Rows - 1 /\ 3 \in 0 .. Rows - 1
    BY Codes
  <2>2. PrintAt(Dark, 2, Message.banner) \in Screens
    BY <1>1, <2>1, DarkTyped, PrintTyped
  <2> QED BY <1>1, <2>1, <2>2, PrintTyped DEF MonInit
<1>3. EditorTyped
  BY <1>2, Codes DEF MonInit, EditorTyped
<1>4. taken \in Seq(Keys) /\ queue \in Seq(Keys) /\ typed \in Seq(Keys) /\ KeysInOrder
  BY DEF MonInit, KeysInOrder
<1>5. Line(taken) = <<>>
  <2>1. Len(taken) = 0
    BY DEF MonInit
  <2> QED BY <1>4, <2>1, LinesAre DEF Line
<1>6. Shows(Line(taken))
  BY <1>5 DEF Shows, MonInit
<1>7. RunsTheLine
  <2>1. Ends = {}
    BY DEF Ends, MonInit
  <2> QED BY <2>1 DEF RunsTheLine
<1> QED BY <1>3, <1>4, <1>6, <1>7, EditsAre DEF MonIInv

\* Where the last line with text ended.
LEMMA LastEnd ==
  ASSUME NEW i \in Ends, \A y \in Ends : y <= i, taken \in Seq(Keys)
  PROVE  RunsTheLine <=> (IF NamedBy(LinesOf(taken)[i - 1]) = {} THEN ran = "unknown"
                          ELSE ran \in NamedBy(LinesOf(taken)[i - 1]))
<1>1. Ends \subseteq Nat
  BY DEF Ends
<1>2. \A x \in Ends : (\A y \in Ends : y <= x) => x = i
  BY <1>1
<1>3. (CHOOSE x \in Ends : \A y \in Ends : y <= x) = i
  BY <1>2
<1> QED BY <1>3 DEF RunsTheLine, NamedBy

\* A character that ends no text leaves the last line run where it was.
LEMMA EndsKept ==
  ASSUME RunsTheLine, taken \in Seq(Keys), NEW ch \in Keys, taken' = Append(taken, ch),
         ch # CR \/ Line(taken) = <<>>, ran' = ran
  PROVE  RunsTheLine'
<1>1. Len(taken) \in Nat /\ Len(taken') = Len(taken) + 1 /\ taken'[Len(taken) + 1] = ch
      /\ DOMAIN taken = 1 .. Len(taken) /\ DOMAIN taken' = 1 .. Len(taken) + 1
      /\ \A n \in 1 .. Len(taken) : taken'[n] = taken[n]
  OBVIOUS
<1>2. /\ \A n \in 0 .. Len(taken) : LinesOf(taken')[n] = LinesOf(taken)[n]
      /\ LinesOf(taken')[Len(taken)] = Line(taken)
  BY <1>1, OneCharMore DEF Line
<1>3. \A i \in 1 .. Len(taken) : i - 1 \in 0 .. Len(taken)
  BY <1>1
<1>4. Ends' = Ends
  <2>1. \A i \in 1 .. Len(taken) : i \in Ends' <=> i \in Ends
    BY <1>1, <1>2, <1>3 DEF Ends
  <2>2. Len(taken) + 1 \notin Ends'
    BY <1>1, <1>2, (Len(taken) + 1) - 1 = Len(taken) DEF Ends
  <2>3. Ends \subseteq 1 .. Len(taken) /\ Ends' \subseteq 1 .. Len(taken) + 1
    BY <1>1 DEF Ends
  <2>4. \A i \in 1 .. Len(taken) + 1 : i \in 1 .. Len(taken) \/ i = Len(taken) + 1
    BY <1>1
  <2>5. Ends' \subseteq Ends
    BY <2>1, <2>2, <2>3, <2>4
  <2>6. Ends \subseteq Ends'
    BY <2>1, <2>3
  <2> QED BY <2>5, <2>6
<1>5. CASE Ends = {}
  BY <1>4, <1>5 DEF RunsTheLine
<1>6. CASE Ends # {}
  <2> DEFINE i == CHOOSE x \in Ends : \A y \in Ends : y <= x
  <2>1. i \in Ends /\ \A y \in Ends : y <= i
    <3> DEFINE R == {Len(taken) - x : x \in Ends}
    <3>1. Ends \subseteq 1 .. Len(taken)
      BY <1>1 DEF Ends
    <3>2. R \subseteq Nat /\ R # {}
      <4>1. \A x \in Ends : Len(taken) - x \in Nat
        BY <1>1, <3>1
      <4> QED BY <1>6, <4>1
    <3>3. PICK d \in R : \A e \in R : d <= e
      <4> HIDE DEF R
      <4> QED BY <3>2, Least
    <3>4. PICK x \in Ends : d = Len(taken) - x
      BY <3>3
    <3>5. \A y \in Ends : y <= x
      <4> TAKE y \in Ends
      <4>1. Len(taken) - y \in R
        OBVIOUS
      <4>2. d <= Len(taken) - y
        BY <3>3, <4>1
      <4> QED BY <1>1, <3>1, <3>4, <4>2
    <3>6. \E z \in Ends : \A y \in Ends : y <= z
      BY <3>5
    <3> QED BY <3>6
  <2>2. i \in 1 .. Len(taken)
    BY <1>1, <2>1 DEF Ends
  <2> DEFINE line == LinesOf(taken)[i - 1]
  <2>3. LinesOf(taken')[i - 1] = line
    BY <1>2, <1>3, <2>2
  <2>4. IF NamedBy(line) = {} THEN ran = "unknown" ELSE ran \in NamedBy(line)
    BY <1>6 DEF RunsTheLine, NamedBy
  <2> HIDE DEF line, i
  <2>5. (CHOOSE x \in Ends : \A y \in Ends : y <= x) = i
    BY DEF i
  <2> QED BY <1>4, <2>3, <2>4, <2>5 DEF RunsTheLine, NamedBy
<1> QED BY <1>5, <1>6

\* An Enter after text makes its line the last.
LEMMA EndsHere ==
  ASSUME taken \in Seq(Keys), taken' = Append(taken, CR), Line(taken) # <<>>,
         IF NamedBy(Line(taken)) = {} THEN ran' = "unknown" ELSE ran' \in NamedBy(Line(taken))
  PROVE  RunsTheLine'
<1> DEFINE i == Len(taken) + 1
<1>1. Len(taken) \in Nat /\ i \in Nat /\ i - 1 = Len(taken) /\ taken'[i] = CR /\ DOMAIN taken' = 1 .. i
  OBVIOUS
<1>2. LinesOf(taken')[i - 1] = Line(taken)
  BY <1>1, OneCharMore, Codes DEF Line
<1>3. i \in Ends' /\ \A y \in Ends' : y <= i /\ y \in Nat
  BY <1>1, <1>2 DEF Ends
<1> HIDE DEF i
<1>4. \A x \in Ends' : (\A y \in Ends' : y <= x) => x = i
  BY <1>1, <1>3
<1>5. (CHOOSE x \in Ends' : \A y \in Ends' : y <= x) = i
  BY <1>3, <1>4
<1> QED BY <1>2, <1>5 DEF RunsTheLine, NamedBy

-----------------------------------------------------------------------------
LEMMA HeadMoves ==
  ASSUME NEW S, NEW s \in Seq(S), NEW t \in Seq(S), t # <<>>
  PROVE  Append(s, Head(t)) \o Tail(t) = s \o t
<1> DEFINE e == Head(t)
           u == Tail(t)
<1>1. e \in S /\ u \in Seq(S) /\ Append(s, e) \in Seq(S) /\ <<e>> \in Seq(S)
  OBVIOUS
<1>2. t = <<e>> \o u
  <2>1. Len(<<e>>) = 1 /\ Len(u) = Len(t) - 1 /\ Len(t) \in Nat /\ Len(t) # 0
        /\ \A i \in 1 .. Len(u) : u[i] = t[i + 1]
    OBVIOUS
  <2>2. /\ <<e>> \o u \in Seq(S) /\ Len(<<e>> \o u) = Len(t)
        /\ \A i \in 1 .. Len(t) : (<<e>> \o u)[i] = IF i <= 1 THEN <<e>>[i] ELSE u[i - 1]
    <3> HIDE DEF e, u
    <3> QED BY <1>1, <2>1, ConcatProperties
  <2>3. \A i \in 1 .. Len(t) : (<<e>> \o u)[i] = t[i]
    <3> TAKE i \in 1 .. Len(t)
    <3>1. CASE i = 1
      BY <2>2, <3>1
    <3>2. CASE i # 1
      <4>1. i - 1 \in 1 .. Len(u) /\ (i - 1) + 1 = i /\ ~(i <= 1)
        BY <2>1, <3>2
      <4> HIDE DEF e, u
      <4> QED BY <2>1, <2>2, <4>1
    <3> QED BY <3>1, <3>2
  <2> HIDE DEF e, u
  <2> QED BY <2>2, <2>3, SeqEqual
<1> HIDE DEF e, u
<1>3. Append(s, e) = s \o <<e>>
  BY <1>1, AppendIsConcat
<1>4. (s \o <<e>>) \o u = s \o (<<e>> \o u)
  BY <1>1, ConcatAssociative
<1> QED BY <1>2, <1>3, <1>4 DEF e, u

\* What only the queue, the history of the keys and `at` short of halting
\* decide.
LEMMA EditorStays ==
  ASSUME MonIInv, UNCHANGED <<buf, len, row, cursor, screen, taken, ran>>,
         at' \in {"poll", "data", "halted"}, at = "halted" => at' = "halted"
  PROVE  EditorTyped' /\ EditsAsTyped' /\ RunsTheLine'
<1>1. /\ buf' = buf /\ len' = len /\ row' = row /\ cursor' = cursor /\ screen' = screen
      /\ taken' = taken /\ ran' = ran
  OBVIOUS
<1>2. EditorTyped'
  BY <1>1 DEF MonIInv, EditorTyped
<1>3. Line(taken') = Line(taken)
  BY <1>1
<1>4. EditsAsTyped'
  BY <1>1, <1>3 DEF MonIInv, EditsAsTyped
<1>5. RunsTheLine'
  <2>1. Ends' = Ends
    BY ONLY <1>1 DEF Ends
  <2>2. RunsTheLine
    BY DEF MonIInv
  <2> QED BY ONLY <1>1, <2>1, <2>2 DEF RunsTheLine
<1> QED BY <1>2, <1>4, <1>5

LEMMA WmCharInv == ASSUME MonIInv, NEW ch \in Keys, WmChar(ch) PROVE MonIInv'
<1>1. queue \in Seq(Keys) /\ typed \in Seq(Keys) /\ taken \in Seq(Keys) /\ typed = taken \o queue
  BY DEF MonIInv, KeysInOrder
<1>2. queue' \in Seq(Keys) /\ typed' \in Seq(Keys) /\ typed' = taken \o queue'
  <2>1. CASE Len(queue) < Capacity
    <3>1. typed' = Append(typed, ch)
      BY <2>1 DEF WmChar
    <3>2. queue' = Append(queue, ch)
      <4>1. Len(queue) \in Nat /\ Capacity \in Nat /\ Key!Push(ch)
        BY <1>1, MonitorAssumption DEF WmChar
      <4>2. ~(Len(queue) >= Capacity) /\ ~(Len(queue) = Capacity)
        BY <2>1, <4>1
      <4> QED BY <2>1, <4>1, <4>2 DEF Key!Push
    <3>3. Append(taken \o queue, ch) = taken \o Append(queue, ch)
      <4>1. PICK a \in Seq(Keys), b \in Seq(Keys) : a = taken /\ b = queue
        BY <1>1
      <4> DEFINE S == Keys
      <4>2. a \in Seq(S) /\ b \in Seq(S) /\ ch \in S
        BY <4>1
      <4> HIDE DEF S
      <4>3. a \o b \in Seq(S) /\ <<ch>> \in Seq(S)
        BY <4>2, ConcatProperties
      <4>4. Append(a \o b, ch) = (a \o b) \o <<ch>> /\ Append(b, ch) = b \o <<ch>>
        BY <4>2, <4>3, AppendIsConcat
      <4>5. (a \o b) \o <<ch>> = a \o (b \o <<ch>>)
        BY <4>2, <4>3, ConcatAssociative
      <4> QED BY <4>1, <4>4, <4>5
    <3> QED BY <1>1, <3>1, <3>2, <3>3
  <2>2. CASE ~(Len(queue) < Capacity)
    <3>1. queue' = queue /\ typed' = typed
      BY <1>1, <2>2, MonitorAssumption DEF WmChar, Key!Push
    <3> QED BY <1>1, <3>1
  <2> QED BY <2>1, <2>2
<1>3. UNCHANGED <<at, buf, len, row, cursor, screen, taken, ran>>
  BY DEF WmChar
<1>4. EditorTyped' /\ EditsAsTyped' /\ RunsTheLine'
  <2>1. at' \in {"poll", "data", "halted"}
    BY <1>3 DEF MonIInv, EditorTyped
  <2> QED BY <1>3, <2>1, EditorStays
<1> QED BY <1>1, <1>2, <1>3, <1>4 DEF MonIInv, KeysInOrder

LEMMA PollInv == ASSUME MonIInv, Poll PROVE MonIInv'
<1>1. UNCHANGED <<queue, buf, len, row, cursor, screen, typed, taken, ran>> /\ at' \in {"poll", "data"} /\ at = "poll"
  BY DEF Poll, Key!Ready
<1>2. EditorTyped' /\ EditsAsTyped' /\ RunsTheLine'
  BY <1>1, EditorStays
<1> QED BY <1>1, <1>2 DEF MonIInv, KeysInOrder

LEMMA DataInv == ASSUME MonIInv, Data PROVE MonIInv'
<1>1. queue \in Seq(Keys) /\ typed \in Seq(Keys) /\ taken \in Seq(Keys) /\ typed = taken \o queue
      /\ RunsTheLine /\ EditorTyped /\ queue # <<>>
  BY DEF MonIInv, KeysInOrder, Data
<1>2. PICK ch \in Keys : ch = Head(queue)
  BY <1>1
<1>3. PICK line \in Texts : line = Line(taken)
  BY <1>1, OneCharMore, Codes
<1>4. queue' = Tail(queue) /\ taken' = Append(taken, ch) /\ typed' = typed /\ Handle(ch)
  BY <1>1, <1>2 DEF Data, Key!Pop, Handle
<1>5. queue' \in Seq(Keys) /\ taken' \in Seq(Keys)
  BY <1>1, <1>4
<1>6. KeysInOrder'
  BY <1>1, <1>2, <1>4, HeadMoves DEF KeysInOrder
<1>7. Line(taken') = Edit(line, ch)
  BY <1>1, <1>3, <1>4, OneCharMore
<1>8. Shows(line)
  BY <1>3, EditsAre DEF MonIInv, Data
<1>9. ASSUME EditorTyped', RunsTheLine', at' # "halted" => Shows(Edit(line, ch))' PROVE MonIInv'
  <2>1. EditsAsTyped'
    <3> DEFINE l == Edit(line, ch)
    <3>1. at' # "halted" => Shows(l)'
      BY <1>9
    <3>2. Line(taken') = l
      BY <1>7
    <3> HIDE DEF l
    <3> QED BY <3>1, <3>2 DEF Shows, EditsAsTyped
  <2> QED BY <1>1, <1>4, <1>5, <1>6, <1>9, <2>1 DEF MonIInv
<1>10. CASE ch = CR
  <2>1. HandleEnter
    BY <1>4, <1>10, Codes DEF Handle
  <2>2. /\ EditorTyped' /\ (at' # "halted" => Shows(Edit(line, ch))')
        /\ IF line = <<>> THEN ran' = ran
           ELSE IF NamedBy(line) = {} THEN ran' = "unknown" ELSE ran' \in NamedBy(line)
    BY <1>1, <1>8, <1>10, <2>1, EnterShows
  <2>3. RunsTheLine'
    BY <1>1, <1>3, <1>4, <1>10, <2>2, EndsKept, EndsHere
  <2> QED BY <1>9, <2>2, <2>3
<1>11. CASE ch = BS
  <2>1. HandleBackspace
    BY <1>4, <1>11, Codes DEF Handle
  <2>2. EditorTyped' /\ Shows(Edit(line, ch))'
    BY <1>1, <1>8, <1>11, <2>1, BackspaceShows
  <2>3. RunsTheLine'
    BY <1>1, <1>4, <1>11, <2>1, EndsKept, Codes DEF HandleBackspace
  <2> QED BY <1>9, <2>2, <2>3
<1>12. CASE ch \in Printable
  <2>1. HandleText(ch)
    BY <1>4, <1>12, Codes DEF Handle
  <2>2. EditorTyped' /\ Shows(Edit(line, ch))'
    BY <1>1, <1>8, <1>12, <2>1, TextShows
  <2>3. RunsTheLine'
    BY <1>1, <1>4, <1>12, <2>1, EndsKept, Codes DEF HandleText
  <2> QED BY <1>9, <2>2, <2>3
<1>13. CASE ch \notin Printable \union {CR, BS}
  <2>1. at' = "poll" /\ UNCHANGED <<buf, len, row, cursor, screen, ran>>
    BY <1>4, <1>13 DEF Handle
  <2>2. Edit(line, ch) = line
    BY <1>13, EditIs
  <2>3. RunsTheLine'
    BY <1>1, <1>4, <1>13, <2>1, EndsKept
  <2>4. EditorTyped' /\ Shows(Edit(line, ch))'
    BY <1>1, <1>8, <2>1, <2>2 DEF EditorTyped, Shows
  <2> QED BY <1>9, <2>3, <2>4
<1> QED BY <1>10, <1>11, <1>12, <1>13

LEMMA MonAlwaysInv == MonSpec => []MonIInv
<1>1. MonIInv /\ [MonNext]_monVars => MonIInv'
  <2> SUFFICES ASSUME MonIInv, [MonNext]_monVars PROVE MonIInv'
    OBVIOUS
  <2>1. CASE UNCHANGED monVars
    <3>1. UNCHANGED <<queue, at, buf, len, row, cursor, screen, typed, taken, ran>>
      BY <2>1 DEF monVars
    <3>2. at' \in {"poll", "data", "halted"}
      BY <3>1 DEF MonIInv, EditorTyped
    <3>3. EditorTyped' /\ EditsAsTyped' /\ RunsTheLine'
      BY <3>1, <3>2, EditorStays
    <3> QED BY <3>1, <3>3 DEF MonIInv, KeysInOrder
  <2>2. CASE MonNext
    BY <2>2, WmCharInv, PollInv, DataInv DEF MonNext
  <2> QED BY <2>1, <2>2
<1> QED BY <1>1, MonInitInv, PTL DEF MonSpec

\* The line in the buffer and on the screen is what the keys make of it, in
\* whichever batches they come, and no accepted key is lost, doubled or
\* overtaken (keyboard_poll, handle_backspace, handle_enter of monitor.s).
THEOREM EditorShowsLine == MonSpec => []EditorInv
<1>1. MonIInv => EditorInv
  BY DEF MonIInv, EditorInv, EditorTyped, MonTypeOK, Screens
<1> QED BY <1>1, MonAlwaysInv, PTL

\* The command that runs is the one the last line names, whatever longer line
\* was in the buffer before (dispatch_command, streq of monitor.s).
THEOREM MonitorRunsLine == MonSpec => []RunsTheLine
<1>1. MonIInv => RunsTheLine
  BY DEF MonIInv
<1> QED BY <1>1, MonAlwaysInv, PTL

-----------------------------------------------------------------------------
(***************************************************************************)
(* The command line (ArmRunCli): debug expressions.                        *)
(***************************************************************************)
Item == [add : BOOLEAN, flag : STRING]
Items == Seq(Item)

\* The assumption on the constants, part by part.
LEMMA CliNumbers ==
  /\ Space \in Nat \ {0} /\ DefaultRam \in 1 .. Space - 1 /\ DefaultRam <= MaxAlloc
  /\ MaxAlloc \in Nat /\ MaxOpen \in Nat /\ Fifo \in Nat
BY ONLY CliAssumption, ZenonT(30)
LEMMA SizesTyped == (\A f \in DOMAIN Size : Size[f] \in Nat) /\ "bios" \in DOMAIN Size /\ Size["bios"] <= DefaultRam
BY ONLY CliAssumption, ZenonT(30)
LEMMA ExprsTyped == \A x \in DOMAIN Exprs : Exprs[x] \in Items
BY ONLY CliAssumption, ZenonT(30) DEF Items, Item
LEMMA ExprNone == "NONE" \in DOMAIN Exprs /\ Exprs["NONE"] = <<[add |-> TRUE, flag |-> "NONE"]>>
BY ONLY CliAssumption, ZenonT(30)
LEMMA ScriptsTyped == \A f \in DOMAIN Script : Script[f] \in Seq(Written)
BY ONLY CliAssumption, ZenonT(30)
LEMMA LinesTyped ==
  \A l \in Written :
    /\ l.a \in Nat /\ l.b \in Nat
    /\ l.cmd \in {"load", "step", "run", "e"} => l.a < Space /\ l.b < Space
    /\ l.cmd = "set cpu debug" => l.file \in DOMAIN Exprs
BY ONLY CliAssumption, ZenonT(30)

\* What the first n of some items say of a flag.
Speaks(item, f) == f \in Bits(item.flag) \/ item.flag = "NONE"
Says(list, n, f) ==
  \E i \in 1 .. n : /\ Speaks(list[i], f)
                    /\ \A j \in 1 .. n : Speaks(list[j], f) => j <= i
                    /\ list[i].add <=> list[i].flag # "NONE"

LEMMA ApplyIs ==
  ASSUME NEW out \in SUBSET Flags, NEW item \in Item
  PROVE  /\ ApplyItem(out, item) \in SUBSET Flags
         /\ \A f \in Flags : f \in ApplyItem(out, item) <=>
              IF Speaks(item, f) THEN item.add <=> item.flag # "NONE" ELSE f \in out
<1>1. Bits(item.flag) \subseteq Flags
  BY DEF Bits
<1>2. CASE item.flag = "NONE"
  BY <1>2 DEF ApplyItem, Speaks, Item
<1>3. CASE item.flag # "NONE"
  BY <1>1, <1>3 DEF ApplyItem, Speaks, Item
<1> QED BY <1>2, <1>3

LEMMA SaysNext ==
  ASSUME NEW list \in Items, NEW n \in Nat, n + 1 <= Len(list), NEW f
  PROVE  Says(list, n + 1, f) <=>
           IF Speaks(list[n + 1], f) THEN list[n + 1].add <=> list[n + 1].flag # "NONE"
           ELSE Says(list, n, f)
<1>1. \A j \in 1 .. n + 1 : j \in 1 .. n \/ j = n + 1
  OBVIOUS
<1>2. CASE Speaks(list[n + 1], f)
  <2>1. ASSUME NEW i \in 1 .. n + 1, \A j \in 1 .. n + 1 : Speaks(list[j], f) => j <= i
        PROVE  i = n + 1
    BY <1>2, <2>1
  <2> QED BY <1>1, <1>2, <2>1 DEF Says
<1>3. CASE ~Speaks(list[n + 1], f)
  BY <1>1, <1>3 DEF Says
<1> QED BY <1>2, <1>3

\* parse_debug_expr, over the items in order.
LEMMA ParseDebugIs ==
  ASSUME NEW list \in Items
  PROVE  /\ ParseDebug(list) \subseteq Flags
         /\ \A f \in Flags : f \in ParseDebug(list) <=> Says(list, Len(list), f)
<1> DEFINE N == Len(list)
           S == SUBSET Flags
           step == [n \in 1 .. N |-> [out \in S |-> ApplyItem(out, list[n])]]
           Eq(g) == g = [n \in 0 .. N |-> IF n = 0 THEN {} ELSE ApplyItem(g[n - 1], list[n])]
<1>1. N \in Nat /\ {} \in S /\ \A n \in 1 .. N : list[n] \in Item
  BY DEF Items
<1>2. step \in [1 .. N -> [S -> S]]
  BY <1>1, ApplyIs
<1>3. PICK g \in [0 .. N -> S] : Stepped(g, N, {}, step)
  <2> HIDE DEF step, N, S
  <2> QED BY <1>1, <1>2, RecursionIn
<1>4. ASSUME NEW n \in 0 .. N PROVE g[n] = IF n = 0 THEN {} ELSE ApplyItem(g[n - 1], list[n])
  <2>1. CASE n = 0
    BY <1>3, <2>1 DEF Stepped
  <2>2. CASE n # 0
    <3>1. n \in 1 .. N /\ n - 1 \in 0 .. N
      BY <1>1, <2>2
    <3>2. g[n - 1] \in S
      BY <3>1
    <3>3. step[n][g[n - 1]] = ApplyItem(g[n - 1], list[n])
      BY <3>1, <3>2
    <3> HIDE DEF step
    <3> QED BY <1>3, <2>2, <3>3 DEF Stepped
  <2> QED BY <2>1, <2>2
<1>5. Eq(g)
  <2> DEFINE h == [n \in 0 .. N |-> IF n = 0 THEN {} ELSE ApplyItem(g[n - 1], list[n])]
  <2>1. g = h
    BY <1>4
  <2> QED BY <2>1
<1>6. \E h : Eq(h)
  <2> HIDE DEF Eq
  <2> QED BY <1>5
<1>7. Eq(CHOOSE h : Eq(h))
  <2> HIDE DEF Eq
  <2> QED BY <1>6
<1> DEFINE F == CHOOSE h : Eq(h)
<1>8. ParseDebug(list) = F[N]
  BY DEF ParseDebug
<1>9. F[0] = {} /\ \A n \in 1 .. N : F[n] = ApplyItem(F[n - 1], list[n])
  <2>1. Eq(F)
    BY <1>7
  <2> HIDE DEF F, step
  <2>2. F[0] = {}
    BY <1>1, <2>1, 0 \in 0 .. N
  <2>3. ASSUME NEW n \in 1 .. N PROVE F[n] = ApplyItem(F[n - 1], list[n])
    <3>1. n \in 0 .. N /\ n # 0
      BY <1>1
    <3> HIDE DEF N
    <3> QED BY <2>1, <3>1
  <2> QED BY <2>2, <2>3
<1> HIDE DEF F
<1> DEFINE Good(n) == F[n] \in S /\ \A f \in Flags : f \in F[n] <=> Says(list, n, f)
           T == {n \in 0 .. N : Good(n)}
<1>10. 0 \in T
  BY <1>1, <1>9 DEF Says
<1>11. ASSUME NEW n \in 0 .. N - 1, n \in T PROVE n + 1 \in T
  <2>1. n + 1 \in 1 .. N /\ (n + 1) - 1 = n /\ n \in Nat /\ n + 1 <= Len(list)
    BY <1>1
  <2>2. F[n + 1] = ApplyItem(F[n], list[n + 1]) /\ F[n] \in S
    BY <1>9, <1>11, <2>1
  <2>3. list[n + 1] \in Item
    BY <1>1, <2>1
  <2>4. /\ F[n + 1] \in S
        /\ \A f \in Flags : f \in F[n + 1] <=>
             IF Speaks(list[n + 1], f) THEN list[n + 1].add <=> list[n + 1].flag # "NONE" ELSE f \in F[n]
    BY <2>2, <2>3, ApplyIs
  <2>5. \A f \in Flags : f \in F[n] <=> Says(list, n, f)
    BY <1>11
  <2>6. \A f \in Flags : f \in F[n + 1] <=> Says(list, n + 1, f)
    BY <2>1, <2>4, <2>5, SaysNext
  <2> QED BY <2>1, <2>4, <2>6
<1>12. 0 .. N \subseteq T
  <2> HIDE DEF T
  <2> QED BY <1>1, <1>10, <1>11, InductionUpTo
<1> QED BY <1>1, <1>8, <1>12

-----------------------------------------------------------------------------
\* A load: from its address on, up to the end of memory or of the file.
InFile(a, file, place) == a \in place .. place + Size[file] - 1
LEMMA LaidIs ==
  ASSUME NEW n \in 0 .. Space - 1, NEW to, DOMAIN to = 0 .. n - 1,
         NEW file \in DOMAIN Size, NEW place \in 0 .. Space - 1
  PROVE  /\ DOMAIN Laid(to, file, place) = 0 .. n - 1
         /\ \A a \in 0 .. n - 1 : Laid(to, file, place)[a] =
              IF InFile(a, file, place) THEN [file |-> file, off |-> a - place] ELSE to[a]
<1>1. Space \in Nat \ {0} /\ Size[file] \in Nat /\ n \in Nat /\ place \in Nat
  BY CliNumbers, SizesTyped
<1>2. \A i \in Fits(to, file, place) : i \in 0 .. Size[file] - 1 /\ place + i < n /\ (place + i) % Space = place + i
  <2> SUFFICES ASSUME NEW i \in Fits(to, file, place)
               PROVE  i \in 0 .. Size[file] - 1 /\ place + i < n /\ (place + i) % Space = place + i
    OBVIOUS
  <2>1. i \in 0 .. Size[file] - 1 /\ \A j \in 0 .. i : (place + j) % Space \in 0 .. n - 1
    BY DEF Fits
  <2>2. i \in Nat
    BY <1>1, <2>1
  <2>3. place + i < Space
    <3> SUFFICES ASSUME place + i >= Space PROVE FALSE
      BY <1>1, <2>2
    <3> DEFINE j == Space - 1 - place
    <3>1. j \in 0 .. i
      BY <1>1, <2>2
    <3>2. (place + j) % Space = Space - 1
      BY <1>1
    <3>3. (place + j) % Space \in 0 .. n - 1
      BY <2>1, <3>1
    <3> HIDE DEF j
    <3> QED BY <1>1, <3>2, <3>3
  <2>4. (place + i) % Space = place + i
    BY <1>1, <2>2, <2>3
  <2>5. i \in 0 .. i
    BY <2>2
  <2> QED BY <1>1, <2>1, <2>2, <2>4, <2>5
<1>3. ASSUME NEW a \in 0 .. n - 1, InFile(a, file, place)
      PROVE  a - place \in Fits(to, file, place) /\ place + (a - place) = a
  <2>1. a \in Nat /\ a - place \in 0 .. Size[file] - 1
    BY <1>1, <1>3 DEF InFile
  <2>2. ASSUME NEW j \in 0 .. a - place PROVE (place + j) % Space \in 0 .. n - 1
    <3>1. place + j \in 0 .. n - 1 /\ place + j < Space
      BY <1>1, <2>1
    <3> QED BY <1>1, <3>1
  <2> QED BY <1>1, <2>1, <2>2 DEF Fits
<1>4. ASSUME NEW a \in 0 .. n - 1
      PROVE  Laid(to, file, place)[a] =
               IF InFile(a, file, place) THEN [file |-> file, off |-> a - place] ELSE to[a]
  <2>1. CASE InFile(a, file, place)
    <3>1. \A i \in Fits(to, file, place) : (place + i) % Space = a <=> i = a - place
      <4> SUFFICES ASSUME NEW i \in Fits(to, file, place) PROVE (place + i) % Space = a <=> i = a - place
        OBVIOUS
      <4>1. i \in Int /\ a \in Int /\ (place + i) % Space = place + i
        BY <1>1, <1>2
      <4> QED BY <1>1, <4>1
    <3>2. a - place \in Fits(to, file, place)
      BY <1>3, <2>1
    <3>3. (CHOOSE i \in Fits(to, file, place) : (place + i) % Space = a) = a - place
      BY <3>1, <3>2
    <3>4. \E i \in Fits(to, file, place) : (place + i) % Space = a
      BY <3>1, <3>2
    <3> QED BY <2>1, <3>3, <3>4 DEF Laid
  <2>2. CASE ~InFile(a, file, place)
    <3>1. ASSUME NEW i \in Fits(to, file, place), (place + i) % Space = a PROVE FALSE
      <4>1. i \in 0 .. Size[file] - 1 /\ place + i = a
        BY <1>2, <3>1
      <4> QED BY <1>1, <2>2, <4>1 DEF InFile
    <3> QED BY <2>2, <3>1 DEF Laid
  <2> QED BY <2>1, <2>2
<1> QED BY <1>4 DEF Laid

-----------------------------------------------------------------------------
\* What the loads so far leave at an address.
Placed == [file : DOMAIN Size, at : 0 .. Space - 1]
Over(p, a) == {k \in DOMAIN p : a \in p[k].at .. p[k].at + Size[p[k].file] - 1}
TopOf(p, a) == CHOOSE x \in Over(p, a) : \A y \in Over(p, a) : y <= x
ZeroCell == [file |-> "zero", off |-> 0]
Cell(p, a) == IF Over(p, a) = {} THEN ZeroCell
              ELSE [file |-> p[TopOf(p, a)].file, off |-> a - p[TopOf(p, a)].at]

LEMMA LastLoadedIs == LastLoaded <=> \A a \in DOMAIN mem : mem[a] = Cell(placed, a)
BY DEF LastLoaded, Cell, Over, TopOf, ZeroCell

LEMMA CellOfNone == \A a : Cell(<<>>, a) = ZeroCell
BY DEF Cell, Over

LEMMA CellOfAppend ==
  ASSUME NEW p \in Seq(Placed), NEW file \in DOMAIN Size, NEW place \in 0 .. Space - 1, NEW a \in Nat
  PROVE  Cell(Append(p, [file |-> file, at |-> place]), a) =
           IF InFile(a, file, place) THEN [file |-> file, off |-> a - place] ELSE Cell(p, a)
<1> DEFINE x == [file |-> file, at |-> place]
           q == Append(p, x)
           K == Len(p) + 1
<1>1. /\ K \in Nat \ {0} /\ DOMAIN p = 1 .. K - 1 /\ DOMAIN q = 1 .. K /\ q[K] = x
      /\ \A k \in 1 .. K - 1 : q[k] = p[k]
  BY DEF Placed
<1>2. Over(q, a) = Over(p, a) \union (IF InFile(a, file, place) THEN {K} ELSE {})
  <2> HIDE DEF q, K
  <2>1. \A k : k \in Over(p, a) <=> k \in 1 .. K - 1 /\ a \in p[k].at .. p[k].at + Size[p[k].file] - 1
    BY <1>1 DEF Over
  <2>2. \A k : k \in Over(q, a) <=> k \in 1 .. K /\ a \in q[k].at .. q[k].at + Size[q[k].file] - 1
    BY <1>1 DEF Over
  <2>3. K \in Over(q, a) <=> InFile(a, file, place)
    <3>1. K \in 1 .. K /\ q[K].at = place /\ q[K].file = file
      BY <1>1
    <3> QED BY <2>2, <3>1 DEF InFile
  <2>4. \A k \in 1 .. K - 1 : k \in Over(q, a) <=> k \in Over(p, a)
    BY <1>1, <2>1, <2>2
  <2>5. \A k \in 1 .. K : k = K \/ k \in 1 .. K - 1
    BY <1>1
  <2>6. K \notin 1 .. K - 1
    BY <1>1
  <2> QED BY <2>1, <2>2, <2>3, <2>4, <2>5, <2>6
<1>3. Over(p, a) \subseteq 1 .. K - 1
  BY <1>1 DEF Over
<1> HIDE DEF q, K
<1> SUFFICES Cell(q, a) = IF InFile(a, file, place) THEN [file |-> file, off |-> a - place] ELSE Cell(p, a)
  BY DEF q
<1>4. CASE InFile(a, file, place)
  <2>1. TopOf(q, a) = K
    <3>1. K \in Over(q, a) /\ \A y \in Over(q, a) : y <= K /\ y \in Nat
      <4>1. Over(q, a) = Over(p, a) \union {K}
        BY <1>2, <1>4
      <4>2. \A y \in Over(p, a) : y <= K /\ y \in Nat
        BY <1>1, <1>3
      <4> QED BY <1>1, <4>1, <4>2
    <3>2. ASSUME NEW z \in Over(q, a), \A y \in Over(q, a) : y <= z PROVE z = K
      <4>1. K <= z /\ z <= K /\ z \in Nat
        BY <3>1, <3>2
      <4> QED BY <1>1, <4>1
    <3> QED BY <3>1, <3>2 DEF TopOf
  <2> QED BY <1>1, <1>2, <1>4, <2>1 DEF Cell
<1>5. CASE ~InFile(a, file, place)
  <2>1. Over(q, a) = Over(p, a)
    BY <1>2, <1>5
  <2>2. CASE Over(p, a) = {}
    BY <1>5, <2>1, <2>2 DEF Cell
  <2>3. CASE Over(p, a) # {}
    <3>1. TopOf(q, a) = TopOf(p, a)
      BY <2>1 DEF TopOf
    <3>2. TopOf(p, a) \in Over(p, a) => q[TopOf(p, a)] = p[TopOf(p, a)]
      BY <1>1, <1>3
    <3>3. \E z \in Over(p, a) : \A y \in Over(p, a) : y <= z
      <4> DEFINE R == Over(p, a)
      <4>1. R \subseteq 1 .. K - 1 /\ R # {}
        BY <1>3, <2>3
      <4> DEFINE D == {K - y : y \in R}
      <4> HIDE DEF R
      <4>2. D \subseteq Nat /\ D # {}
        <5>1. \A y \in R : K - y \in Nat
          BY <1>1, <4>1
        <5>2. PICK y0 \in R : TRUE
          BY <4>1
        <5>3. K - y0 \in D
          OBVIOUS
        <5> QED BY <5>1, <5>3
      <4>3. PICK d \in D : \A y \in D : d <= y
        <5> HIDE DEF D
        <5> QED BY <4>2, Least
      <4>4. PICK z \in R : d = K - z
        OBVIOUS
      <4>5. ASSUME NEW y \in R PROVE y <= z
        <5>1. d <= K - y
          BY <4>3
        <5> QED BY <1>1, <4>1, <4>4, <5>1
      <4> QED BY <4>5 DEF R
    <3>4. TopOf(p, a) \in Over(p, a)
      BY <3>3 DEF TopOf
    <3> QED BY <1>5, <2>1, <2>3, <3>1, <3>2, <3>4 DEF Cell
  <2> QED BY <2>2, <2>3
<1> QED BY <1>4, <1>5

\* A load adds its layer, whatever memory there is.
LEMMA LoadLays ==
  ASSUME NEW n \in 0 .. Space - 1, NEW m, DOMAIN m = 0 .. n - 1, NEW p \in Seq(Placed),
         \A a \in 0 .. n - 1 : m[a] = Cell(p, a), NEW file \in DOMAIN Size, NEW place \in 0 .. Space - 1
  PROVE  /\ DOMAIN Laid(m, file, place) = 0 .. n - 1
         /\ Append(p, [file |-> file, at |-> place]) \in Seq(Placed)
         /\ \A a \in 0 .. n - 1 :
              Laid(m, file, place)[a] = Cell(Append(p, [file |-> file, at |-> place]), a)
<1>1. [file |-> file, at |-> place] \in Placed
  BY DEF Placed
<1>2. Append(p, [file |-> file, at |-> place]) \in Seq(Placed)
  BY <1>1
<1>3. ASSUME NEW a \in 0 .. n - 1
      PROVE  Laid(m, file, place)[a] = Cell(Append(p, [file |-> file, at |-> place]), a)
  <2>1. Laid(m, file, place)[a] = IF InFile(a, file, place) THEN [file |-> file, off |-> a - place] ELSE m[a]
    BY LaidIs
  <2>2. a \in Nat
    BY CliNumbers
  <2>3. Cell(Append(p, [file |-> file, at |-> place]), a) =
          IF InFile(a, file, place) THEN [file |-> file, off |-> a - place] ELSE Cell(p, a)
    BY <2>2, CellOfAppend
  <2>4. m[a] = Cell(p, a)
    OBVIOUS
  <2> QED BY <2>1, <2>3, <2>4
<1> QED BY <1>2, <1>3, LaidIs

\* The inductive invariant of what the commands work on.
Memory == \E n \in 0 .. MaxAlloc : n < Space /\ DOMAIN mem = 0 .. n - 1
Layers == placed \in Seq(Placed) /\ \A a \in DOMAIN mem : mem[a] = Cell(placed, a)
DebugSet == applied \in DOMAIN Exprs /\ debug = ParseDebug(Exprs[applied])
Loops == [loop : {"none", "step", "run", "e"}, at : 0 .. Space - 1, upto : Int]
MachineIInv ==
  /\ mode \in Guest!Modes /\ keys \in 0 .. Fifo /\ trace \in BOOLEAN /\ busy \in Loops
  /\ Memory /\ Layers /\ DebugSet

LEMMA LayersSameMem == ASSUME Memory, Layers, UNCHANGED <<mem, placed>> PROVE Memory' /\ Layers'
BY DEF Memory, Layers

\* Memory that holds nothing, with nothing placed.
LEMMA FreshMemory ==
  ASSUME NEW n \in 0 .. MaxAlloc, n < Space, mem' = Zeros(n), placed' = <<>>
  PROVE  Memory' /\ Layers'
<1>1. DOMAIN mem' = 0 .. n - 1 /\ \A a \in 0 .. n - 1 : mem'[a] = ZeroCell
  BY DEF Zeros, ZeroCell
<1>2. placed' \in Seq(Placed)
  OBVIOUS
<1>3. \A a : Cell(placed', a) = ZeroCell
  BY CellOfNone
<1> QED BY <1>1, <1>2, <1>3 DEF Memory, Layers

LEMMA NumbersFit ==
  ASSUME NEW l \in Written, l.cmd \in {"load", "step", "run", "e"}
  PROVE  l.a \in 0 .. Space - 1 /\ l.b \in 0 .. Space - 1
<1>1. /\ l.a \in Nat /\ l.b \in Nat /\ l.a < Space /\ l.b < Space
  BY LinesTyped
<1>2. Space \in Nat
  BY CliNumbers
<1> HIDE DEF Written
<1> QED BY ONLY <1>1, <1>2

LEMMA AddRamInv == ASSUME MachineIInv, NEW l \in Written, AddRam(l) PROVE MachineIInv'
<1>1. Memory' /\ Layers'
  <2>1. placed' = <<>>
    BY DEF AddRam
  <2>2. CASE l.a <= MaxAlloc
    <3> DEFINE n == l.a % Space
    <3>1. l.a \in Nat /\ Space \in Nat \ {0} /\ MaxAlloc \in Nat
      BY CliNumbers, LinesTyped
    <3>2. n \in 0 .. Space - 1 /\ n <= l.a
      <4> DEFINE a == l.a
                 q == a \div Space
      <4>1. a \in Nat
        BY <3>1
      <4> HIDE DEF a
      <4>2. q \in Nat /\ (a % Space) \in 0 .. Space - 1 /\ a = (Space * q) + (a % Space)
        BY <3>1, <4>1, DivMod
      <4>3. Space * q \in Nat
        BY <3>1, <4>2
      <4> HIDE DEF q
      <4> DEFINE z == Space * q
      <4>4. z \in Nat /\ a = z + (a % Space)
        BY <4>2, <4>3
      <4> HIDE DEF z
      <4>5. a % Space <= a
        BY <4>1, <4>2, <4>4
      <4> QED BY <4>2, <4>5 DEF a
    <3>3. n \in 0 .. MaxAlloc /\ n < Space
      BY <2>2, <3>1, <3>2
    <3>4. mem' = Zeros(n)
      BY <2>2 DEF AddRam
    <3> HIDE DEF n
    <3> QED BY <2>1, <3>3, <3>4, FreshMemory
  <2>3. CASE ~(l.a <= MaxAlloc)
    <3>1. mem' = Zeros(0)
      BY <2>3 DEF AddRam
    <3>2. 0 \in 0 .. MaxAlloc /\ 0 < Space
      BY CliNumbers
    <3> QED BY <2>1, <3>1, <3>2, FreshMemory
  <2> QED BY <2>2, <2>3
<1>2. UNCHANGED <<mode, busy, debug, trace, keys, applied>>
  BY DEF AddRam
<1> QED BY <1>1, <1>2 DEF MachineIInv, DebugSet

LEMMA LoadInv == ASSUME MachineIInv, NEW l \in Written, CmdLoad(l) PROVE MachineIInv'
<1>1. UNCHANGED <<mode, busy, debug, trace, keys, applied>>
  BY DEF CmdLoad
<1>2. Memory /\ Layers
  BY DEF MachineIInv
<1>3. CASE l.file \in DOMAIN Size
  <2> DEFINE f == l.file
             place == l.a
  <2>1. f \in DOMAIN Size /\ place \in 0 .. Space - 1
    BY <1>3, NumbersFit DEF CmdLoad
  <2>2. mem' = Laid(mem, f, place) /\ placed' = Append(placed, [file |-> f, at |-> place])
    BY <1>3 DEF CmdLoad
  <2>3. PICK n \in 0 .. MaxAlloc : n < Space /\ DOMAIN mem = 0 .. n - 1
    BY <1>2 DEF Memory
  <2>4. n \in 0 .. Space - 1 /\ placed \in Seq(Placed) /\ \A a \in 0 .. n - 1 : mem[a] = Cell(placed, a)
    BY <1>2, <2>3, CliNumbers DEF Layers
  <2> HIDE DEF f, place
  <2>5. /\ DOMAIN Laid(mem, f, place) = 0 .. n - 1
        /\ Append(placed, [file |-> f, at |-> place]) \in Seq(Placed)
        /\ \A a \in 0 .. n - 1 : Laid(mem, f, place)[a] = Cell(Append(placed, [file |-> f, at |-> place]), a)
    BY <2>1, <2>3, <2>4, LoadLays
  <2>6. Memory' /\ Layers'
    BY <2>2, <2>3, <2>5 DEF Memory, Layers
  <2> QED BY <1>1, <2>6 DEF MachineIInv, DebugSet
<1>4. CASE l.file \notin DOMAIN Size
  <2>1. UNCHANGED <<mem, placed>>
    BY <1>4 DEF CmdLoad
  <2>2. Memory' /\ Layers'
    BY <1>2, <2>1, LayersSameMem
  <2> QED BY <1>1, <2>2 DEF MachineIInv, DebugSet
<1> QED BY <1>3, <1>4

LEMMA SettingInv ==
  ASSUME MachineIInv, NEW l \in Written,
         CmdSetDebug(l) \/ CmdSetTrace(l) \/ CmdKey(l) \/ CmdAttach(l) \/ CmdLogfile(l)
  PROVE  MachineIInv'
<1>1. UNCHANGED <<mode, busy, mem, placed>>
  BY DEF CmdSetDebug, CmdSetTrace, CmdKey, CmdAttach, CmdLogfile
<1>2. Memory' /\ Layers'
  BY <1>1, LayersSameMem DEF MachineIInv
<1>3. keys' \in 0 .. Fifo
  <2>1. keys' = keys \/ (keys < Fifo /\ keys' = keys + 1)
    BY DEF CmdSetDebug, CmdSetTrace, CmdKey, CmdAttach, CmdLogfile
  <2>2. keys \in 0 .. Fifo /\ Fifo \in Nat
    BY CliNumbers DEF MachineIInv
  <2> QED BY <2>1, <2>2
<1>4. trace' \in BOOLEAN
  BY DEF MachineIInv, CmdSetDebug, CmdSetTrace, CmdKey, CmdAttach, CmdLogfile
<1>5. DebugSet'
  <2>1. CASE CmdSetDebug(l)
    BY <2>1, LinesTyped DEF CmdSetDebug, DebugSet
  <2>2. CASE ~CmdSetDebug(l)
    <3>1. UNCHANGED <<debug, applied>>
      BY <2>2 DEF CmdSetTrace, CmdKey, CmdAttach, CmdLogfile
    <3> QED BY <3>1 DEF MachineIInv, DebugSet
  <2> QED BY <2>1, <2>2
<1> QED BY <1>1, <1>2, <1>3, <1>4, <1>5 DEF MachineIInv

LEMMA LoopInv == ASSUME MachineIInv, NEW l \in Written, CmdLoop(l) PROVE MachineIInv'
<1>1. l.a \in 0 .. Space - 1 /\ l.b \in 0 .. Space - 1
  BY NumbersFit DEF CmdLoop
<1>2. busy' \in Loops
  BY <1>1, CliNumbers DEF CmdLoop, Loops
<1>3. UNCHANGED <<mode, mem, debug, trace, keys, placed, applied>>
  BY DEF CmdLoop, cliMachine
<1>4. Memory' /\ Layers'
  BY <1>3, LayersSameMem DEF MachineIInv
<1> QED BY <1>2, <1>3, <1>4 DEF MachineIInv, DebugSet

LEMMA MachineSame ==
  ASSUME MachineIInv, mode' \in Guest!Modes, UNCHANGED cliMachine, busy' \in Loops PROVE MachineIInv'
<1>1. UNCHANGED <<mem, debug, trace, keys, placed, applied>>
  BY DEF cliMachine
<1>2. Memory' /\ Layers'
  BY <1>1, LayersSameMem DEF MachineIInv
<1> QED BY <1>1, <1>2 DEF MachineIInv, DebugSet

LEMMA CommandInv ==
  ASSUME MachineIInv, NEW l \in Written, IF l.cmd = "do" THEN Quiet ELSE CliCommand(l)
  PROVE  MachineIInv'
<1>1. CASE Quiet
  BY <1>1, MachineSame DEF Quiet, MachineIInv
<1>2. CASE CmdClrhalt(l)
  <2>1. mode' \in Guest!Modes
    BY <1>2 DEF CmdClrhalt, Guest!ClearHalt, Guest!Modes, MachineIInv
  <2> QED BY <1>2, <2>1, MachineSame DEF CmdClrhalt, MachineIInv
<1>3. \/ Quiet \/ CmdClrhalt(l) \/ AddRam(l) \/ CmdLoad(l) \/ CmdLoop(l)
      \/ CmdSetDebug(l) \/ CmdSetTrace(l) \/ CmdKey(l) \/ CmdAttach(l) \/ CmdLogfile(l)
  BY DEF CliCommand, CmdQuiet, NoRam, CmdSetDebugOneWord
<1> QED BY <1>1, <1>2, <1>3, AddRamInv, LoadInv, LoopInv, SettingInv

\* A script's next line is one of its lines; the terminal's is typed.
LEMMA GuestStepInv == ASSUME MachineIInv, StepLoop \/ RunLoop \/ ExamineLoop PROVE MachineIInv'
<1>1. UNCHANGED <<mem, debug, trace, placed, applied>>
  BY DEF StepLoop, RunLoop, ExamineLoop, Still
<1>2. Memory' /\ Layers'
  BY <1>1, LayersSameMem DEF MachineIInv
<1>3. Guest!Step => mode' \in Guest!Modes
  BY DEF Guest!Step, Guest!Modes
<1>4. mode' \in Guest!Modes
  BY <1>3 DEF StepLoop, RunLoop, ExamineLoop, GuestStep, MachineIInv
<1>5. keys' \in 0 .. Fifo
  <2>1. keys' = keys \/ keys' \in 0 .. keys
    BY DEF StepLoop, RunLoop, ExamineLoop, GuestStep
  <2> QED BY <2>1, CliNumbers DEF MachineIInv
<1>6. busy' \in Loops
  <2>1. busy \in Loops /\ Reading \in Loops
    BY CliNumbers DEF MachineIInv, Reading, Loops
  <2>2. [busy EXCEPT !.upto = @ - 1] \in Loops
    BY <2>1 DEF Loops
  <2>3. [busy EXCEPT !.at = (@ + 1) % Space] \in Loops
    <3>1. (busy.at + 1) % Space \in 0 .. Space - 1
      <4>1. busy.at + 1 \in Int
        BY <2>1, CliNumbers DEF Loops
      <4> QED BY <4>1, CliNumbers, ModTyped
    <3> QED BY <2>1, <3>1 DEF Loops
  <2>4. busy' \in {busy, Reading, [busy EXCEPT !.upto = @ - 1], [busy EXCEPT !.at = (@ + 1) % Space]}
    BY DEF StepLoop, RunLoop, ExamineLoop
  <2> QED BY <2>1, <2>2, <2>3, <2>4
<1> QED BY <1>1, <1>2, <1>4, <1>5, <1>6 DEF MachineIInv, DebugSet
-----------------------------------------------------------------------------
(***************************************************************************)
(* Scripts: what lines amount to, as equations.                            *)
(***************************************************************************)
LineLists == Seq(Written)
Inners == [DOMAIN Script -> LineLists]

\* A line, what it runs, and what comes after it.
One(l, inner) == <<l>> \o Deeper(l, inner)
Then(l, inner, rest) == IF Exits(l) THEN <<l>> ELSE <<l>> \o Deeper(l, inner) \o rest

LEMMA DeeperTyped ==
  ASSUME NEW l \in Written, NEW inner \in Inners
  PROVE  Deeper(l, inner) \in LineLists /\ <<l>> \in LineLists
<1>1. Deeper(l, inner) \in LineLists
  BY DEF Deeper, Inners, LineLists
<1>2. <<l>> \in LineLists
  BY DEF LineLists
<1> QED BY <1>1, <1>2

LEMMA Joined == \A s, t \in LineLists : s \o t \in LineLists
BY DEF LineLists

LEMMA JoinedThree == \A r, s, t \in LineLists : (r \o s) \o t = r \o (s \o t)
<1> SUFFICES ASSUME NEW r \in LineLists, NEW s \in LineLists, NEW t \in LineLists
             PROVE  (r \o s) \o t = r \o (s \o t)
  OBVIOUS
<1> DEFINE S == Written
<1>1. r \in Seq(S) /\ s \in Seq(S) /\ t \in Seq(S)
  BY DEF LineLists
<1> HIDE DEF S
<1> QED BY ONLY <1>1, ConcatAssociative

\* The same, of more parts; Join for the provers, who would open up \o.
Join(s, t) == s \o t
LEMMA JoinedFive ==
  ASSUME NEW c \in LineLists, NEW e \in LineLists, NEW d \in LineLists, NEW t \in LineLists, NEW y \in LineLists
  PROVE  Join(Join(c, e), Join(d, Join(t, y))) = Join(c, Join(Join(Join(e, d), t), y))
<1>1. \A r, s \in LineLists : Join(r, s) \in LineLists
  BY Joined DEF Join
<1>2. \A r, s, u \in LineLists : Join(Join(r, s), u) = Join(r, Join(s, u))
  BY ONLY JoinedThree DEF Join
<1> QED BY <1>1, <1>2

LEMMA JoinedNothing == <<>> \in LineLists /\ \A s \in LineLists : s \o <<>> = s /\ <<>> \o s = s
BY DEF LineLists

LEMMA ThenTyped ==
  ASSUME NEW l \in Written, NEW inner \in Inners, NEW rest \in LineLists
  PROVE  Then(l, inner, rest) \in LineLists
BY DeeperTyped, Joined DEF Then

\* What ends a reader is no `do`.
LEMMA ExitRunsNothing == ASSUME NEW l, Exits(l), NEW inner PROVE Deeper(l, inner) = <<>>
BY DEF Exits, Deeper

LEMMA LastOnesAre ==
  ASSUME NEW lines \in LineLists, NEW inner \in Inners
  PROVE  /\ LastOnes(lines, inner) \in [0 .. Len(lines) -> LineLists]
         /\ LastOnes(lines, inner)[0] = <<>>
         /\ \A n \in 1 .. Len(lines) :
              LastOnes(lines, inner)[n]
              = Then(lines[Len(lines) - n + 1], inner, LastOnes(lines, inner)[n - 1])
<1> DEFINE N == Len(lines)
           line(n) == lines[N - n + 1]
           step == [n \in 1 .. N |-> [rest \in LineLists |-> Then(line(n), inner, rest)]]
           Body(f, n) == IF n = 0 THEN <<>> ELSE Then(line(n), inner, f[n - 1])
           Eq(f) == f = [n \in 0 .. N |-> Body(f, n)]
<1>1. N \in Nat /\ <<>> \in LineLists
  BY DEF LineLists
<1>2. \A n \in 1 .. N : line(n) \in Written
  <2> SUFFICES ASSUME NEW n \in 1 .. N PROVE line(n) \in Written
    OBVIOUS
  <2>1. N - n + 1 \in 1 .. N
    BY <1>1
  <2> QED BY <2>1 DEF LineLists
<1> HIDE DEF line
<1>3. step \in [1 .. N -> [LineLists -> LineLists]]
  BY <1>2, ThenTyped
<1>4. PICK f \in [0 .. N -> LineLists] : Stepped(f, N, <<>>, step)
  <2> HIDE DEF step, N
  <2> QED BY <1>1, <1>3, RecursionIn
<1>5. ASSUME NEW n \in 0 .. N PROVE f[n] = Body(f, n)
  <2>1. CASE n = 0
    BY <1>4, <2>1 DEF Stepped
  <2>2. CASE n # 0
    <3>1. n \in 1 .. N /\ n - 1 \in 0 .. N
      BY <1>1, <2>2
    <3>2. f[n - 1] \in LineLists
      BY <3>1
    <3>3. step[n][f[n - 1]] = Then(line(n), inner, f[n - 1])
      BY <3>1, <3>2
    <3> HIDE DEF step
    <3> QED BY <1>4, <2>2, <3>3 DEF Stepped
  <2> QED BY <2>1, <2>2
<1>6. Eq(f)
  <2> DEFINE g == [n \in 0 .. N |-> Body(f, n)]
  <2> HIDE DEF Body
  <2>1. f = g
    BY <1>5
  <2> QED BY <2>1
<1>7. \E h : Eq(h)
  <2> HIDE DEF Eq
  <2> QED BY <1>6
<1>8. Eq(CHOOSE h : Eq(h))
  <2> HIDE DEF Eq
  <2> QED BY <1>7
<1> DEFINE F == LastOnes(lines, inner)
<1>9. F = CHOOSE h : Eq(h)
  BY DEF LastOnes, Then, line
<1>10. Eq(F)
  <2> HIDE DEF F, Eq
  <2> QED BY <1>8, <1>9
<1> HIDE DEF F, step
<1>11. F[0] = <<>> /\ \A n \in 1 .. N : F[n] = Then(line(n), inner, F[n - 1])
  <2>1. F[0] = <<>>
    BY <1>1, <1>10
  <2>2. ASSUME NEW n \in 1 .. N PROVE F[n] = Then(line(n), inner, F[n - 1])
    BY <1>1, <1>10
  <2> QED BY <2>1, <2>2
<1>12. 0 .. N \subseteq {n \in 0 .. N : F[n] \in LineLists}
  <2> DEFINE T == {n \in 0 .. N : F[n] \in LineLists}
  <2>1. 0 \in T
    BY <1>1, <1>11
  <2>2. ASSUME NEW n \in 0 .. N - 1, n \in T PROVE n + 1 \in T
    <3>1. n + 1 \in 1 .. N /\ (n + 1) - 1 = n
      BY <1>1
    <3>2. F[n + 1] = Then(line(n + 1), inner, F[n])
      BY <1>11, <3>1
    <3> QED BY <1>2, <2>2, <3>1, <3>2, ThenTyped
  <2> HIDE DEF T
  <2> QED BY <1>1, <2>1, <2>2, InductionUpTo DEF T
<1>13. F \in [0 .. N -> LineLists]
  BY <1>10, <1>12
<1> QED BY <1>11, <1>13 DEF F, line

LEMMA AmountTyped == \A lines \in LineLists, inner \in Inners : Amount(lines, inner) \in LineLists
<1> SUFFICES ASSUME NEW lines \in LineLists, NEW inner \in Inners PROVE Amount(lines, inner) \in LineLists
  OBVIOUS
<1>1. Len(lines) \in 0 .. Len(lines)
  BY DEF LineLists
<1> QED BY <1>1, LastOnesAre DEF Amount

\* One more line of a user who has not quit adds what it amounts to.
LEMMA AmountMore ==
  ASSUME NEW lines \in LineLists, NEW inner \in Inners, NEW l \in Written,
         \A i \in 1 .. Len(lines) : ~Exits(lines[i])
  PROVE  Amount(Append(lines, l), inner) = Amount(lines, inner) \o One(l, inner)
<1> DEFINE L == Len(lines)
           A == Append(lines, l)
           F == LastOnes(lines, inner)
           G == LastOnes(A, inner)
           o == One(l, inner)
<1>1. /\ L \in Nat /\ A \in LineLists /\ Len(A) = L + 1 /\ A[L + 1] = l
      /\ \A i \in 1 .. L : A[i] = lines[i] /\ lines[i] \in Written
  BY DEF LineLists
<1>2. F[0] = <<>> /\ \A n \in 1 .. L : F[n] = Then(lines[L - n + 1], inner, F[n - 1])
  BY LastOnesAre
<1>3. F \in [0 .. L -> LineLists]
  BY LastOnesAre
<1>4. G[0] = <<>> /\ \A n \in 1 .. L + 1 : G[n] = Then(A[(L + 1) - n + 1], inner, G[n - 1])
  <2> HIDE DEF A, G
  <2> QED BY <1>1, LastOnesAre DEF G
<1>5. o \in LineLists /\ o \o <<>> = o /\ <<>> \o o = o
  <2>1. o \in LineLists
    BY DeeperTyped, Joined DEF One
  <2> HIDE DEF o
  <2> QED BY <2>1 DEF LineLists
<1> HIDE DEF L, A, F, G, o
<1> DEFINE T == {n \in 0 .. L : G[n + 1] = F[n] \o o}
<1>6. 0 \in T
  <2>1. 1 \in 1 .. L + 1 /\ (L + 1) - 1 + 1 = L + 1 /\ 0 \in 0 .. L /\ 0 + 1 = 1 /\ 1 - 1 = 0
    BY <1>1
  <2>2. G[1] = Then(l, inner, <<>>)
    BY <1>1, <1>4, <2>1
  <2>3. Then(l, inner, <<>>) = o
    <3>1. CASE Exits(l)
      <4>1. o = <<l>> \o <<>>
        <5>1. Deeper(l, inner) = <<>>
          BY <3>1, ExitRunsNothing
        <5> QED BY <5>1 DEF o, One
      <4>2. <<l>> \o <<>> = <<l>>
        BY DeeperTyped DEF LineLists
      <4> QED BY <3>1, <4>1, <4>2 DEF Then
    <3>2. CASE ~Exits(l)
      <4>1. <<l>> \in LineLists /\ Deeper(l, inner) \in LineLists /\ <<>> \in LineLists
        BY DeeperTyped DEF LineLists
      <4>2. <<l>> \o Deeper(l, inner) \o <<>> = (<<l>> \o Deeper(l, inner)) \o <<>>
        OBVIOUS
      <4> QED BY <1>5, <3>2, <4>2 DEF Then, o, One
    <3> QED BY <3>1, <3>2
  <2>4. G[0 + 1] = F[0] \o o
    BY <1>2, <1>5, <2>1, <2>2, <2>3
  <2> QED BY <2>1, <2>4
<1>7. ASSUME NEW n \in 0 .. L - 1, n \in T PROVE n + 1 \in T
  <2> DEFINE x == lines[L - n]
             d == Deeper(x, inner)
  <2>1. /\ n + 1 \in 1 .. L /\ n + 2 \in 1 .. L + 1 /\ L - n \in 1 .. L /\ n \in 0 .. L
        /\ L - (n + 1) + 1 = L - n /\ (L + 1) - (n + 2) + 1 = L - n /\ (n + 2) - 1 = n + 1
        /\ (n + 1) - 1 = n /\ (n + 1) + 1 = n + 2 /\ n + 1 \in 0 .. L
    BY <1>1
  <2>2. x \in Written /\ ~Exits(x) /\ A[L - n] = x
    BY <1>1, <2>1 DEF L
  <2>3. F[n + 1] = Then(x, inner, F[n]) /\ G[n + 2] = Then(x, inner, G[n + 1])
    <3> HIDE DEF x
    <3>1. F[n + 1] = Then(lines[L - (n + 1) + 1], inner, F[(n + 1) - 1])
      BY <1>2, <2>1
    <3>2. G[n + 2] = Then(A[(L + 1) - (n + 2) + 1], inner, G[(n + 2) - 1])
      BY <1>4, <2>1
    <3> QED BY <2>1, <2>2, <3>1, <3>2 DEF x
  <2>4. F[n] \in LineLists /\ G[n + 1] = F[n] \o o
    BY <1>3, <1>7, <2>1
  <2>5. d \in LineLists /\ <<x>> \in LineLists
    <3> HIDE DEF x
    <3> QED BY <2>2, DeeperTyped
  <2>6. G[n + 2] = (<<x>> \o d) \o (F[n] \o o) /\ F[n + 1] = (<<x>> \o d) \o F[n]
    <3> HIDE DEF x
    <3> QED BY <2>2, <2>3, <2>4 DEF Then
  <2>7. G[n + 2] = F[n + 1] \o o
    <3> DEFINE y == <<x>> \o d
               z == F[n]
    <3>1. y \in LineLists
      BY <2>5, Joined
    <3> HIDE DEF y, z, d, x
    <3>2. z \in LineLists /\ G[n + 2] = y \o (z \o o) /\ F[n + 1] = y \o z
      BY <2>4, <2>6 DEF y, z
    <3>3. (y \o z) \o o = y \o (z \o o)
      BY ONLY <1>5, <3>1, <3>2, JoinedThree
    <3> QED BY <3>2, <3>3
  <2> QED BY <2>1, <2>7
<1>8. 0 .. L \subseteq T
  <2> HIDE DEF T
  <2> QED BY <1>1, <1>6, <1>7, InductionUpTo
<1>9. G[L + 1] = F[L] \o o
  BY <1>1, <1>8
<1> QED BY <1>1, <1>9 DEF Amount, F, G, L, A, o

LEMMA WholeAre ==
  /\ Whole \in [0 .. MaxOpen -> Inners]
  /\ \A f \in DOMAIN Script : Whole[0][f] = <<>>
  /\ \A n \in 1 .. MaxOpen : \A f \in DOMAIN Script : Whole[n][f] = Amount(Script[f], Whole[n - 1])
<1> DEFINE N == MaxOpen
           base == [f \in DOMAIN Script |-> <<>>]
           up(inner) == [f \in DOMAIN Script |-> Amount(Script[f], inner)]
           step == [n \in 1 .. N |-> [inner \in Inners |-> up(inner)]]
           Body(h, n) == [f \in DOMAIN Script |-> IF n = 0 THEN <<>> ELSE Amount(Script[f], h[n - 1])]
           Eq(h) == h = [n \in 0 .. N |-> Body(h, n)]
<1>1. N \in Nat /\ base \in Inners
  BY CliNumbers, JoinedNothing DEF Inners
<1>2. \A inner \in Inners : up(inner) \in Inners
  BY AmountTyped, ScriptsTyped DEF Inners, LineLists
<1>3. step \in [1 .. N -> [Inners -> Inners]]
  <2> HIDE DEF up
  <2> QED BY <1>2
<1>4. PICK h \in [0 .. N -> Inners] : Stepped(h, N, base, step)
  <2> HIDE DEF step, N, base
  <2> QED BY <1>1, <1>3, RecursionIn
<1>5. ASSUME NEW n \in 0 .. N PROVE h[n] = Body(h, n)
  <2>1. CASE n = 0
    <3>1. h[n] = base
      BY <1>4, <2>1 DEF Stepped
    <3> QED BY <2>1, <3>1
  <2>2. CASE n # 0
    <3>1. n \in 1 .. N /\ n - 1 \in 0 .. N
      BY <1>1, <2>2
    <3>2. h[n - 1] \in Inners
      BY <3>1
    <3>3. step[n][h[n - 1]] = up(h[n - 1])
      <4> HIDE DEF up
      <4> QED BY <3>1, <3>2
    <3>4. h[n] = up(h[n - 1])
      <4> HIDE DEF step, up
      <4> QED BY <1>4, <2>2, <3>3 DEF Stepped
    <3> QED BY <2>2, <3>4
  <2> QED BY <2>1, <2>2
<1>6. Eq(h)
  <2> DEFINE g == [n \in 0 .. N |-> Body(h, n)]
  <2> HIDE DEF Body
  <2>1. h = g
    BY <1>5
  <2> QED BY <2>1
<1>7. \E g : Eq(g)
  <2> HIDE DEF Eq
  <2> QED BY <1>6
<1>8. Eq(CHOOSE g : Eq(g))
  <2> HIDE DEF Eq
  <2> QED BY <1>7
<1>9. Whole = CHOOSE g : Eq(g)
  BY DEF Whole
<1>10. Eq(Whole)
  <2> HIDE DEF Eq
  <2> QED BY <1>8, <1>9
<1> HIDE DEF step
<1>11. \A n \in 0 .. N : Whole[n] = Body(Whole, n)
  <2> HIDE DEF Body
  <2> QED BY <1>10
<1>12. Whole[0] = base /\ \A n \in 1 .. N : Whole[n] = up(Whole[n - 1])
  <2>1. Whole[0] = base
    BY <1>1, <1>11
  <2>2. ASSUME NEW n \in 1 .. N PROVE Whole[n] = up(Whole[n - 1])
    <3>1. n \in 0 .. N /\ n # 0
      BY <1>1
    <3> QED BY <1>11, <3>1
  <2> QED BY <2>1, <2>2
<1>13. 0 .. N \subseteq {n \in 0 .. N : Whole[n] \in Inners}
  <2> DEFINE T == {n \in 0 .. N : Whole[n] \in Inners}
  <2> HIDE DEF up
  <2>1. 0 \in T
    BY <1>1, <1>12
  <2>2. ASSUME NEW n \in 0 .. N - 1, n \in T PROVE n + 1 \in T
    <3>1. n + 1 \in 1 .. N /\ (n + 1) - 1 = n
      BY <1>1
    <3>2. Whole[n + 1] = up(Whole[n])
      BY <1>12, <3>1
    <3> QED BY <1>2, <2>2, <3>1, <3>2
  <2> HIDE DEF T
  <2> QED BY <1>1, <2>1, <2>2, InductionUpTo DEF T
<1>14. Whole \in [0 .. N -> Inners]
  <2> HIDE DEF Body
  <2> QED BY <1>10, <1>13
<1>15. \A f \in DOMAIN Script : Whole[0][f] = <<>>
  BY ONLY <1>12
<1>16. ASSUME NEW n \in 1 .. N, NEW f \in DOMAIN Script
       PROVE  Whole[n][f] = Amount(Script[f], Whole[n - 1])
  <2>1. Whole[n] = up(Whole[n - 1])
    BY ONLY <1>12
  <2> QED BY ONLY <2>1
<1> QED BY ONLY <1>14, <1>15, <1>16

LEMMA ExpandMore ==
  ASSUME NEW lines \in LineLists, NEW l \in Written, \A i \in 1 .. Len(lines) : ~Exits(lines[i])
  PROVE  Expand(Append(lines, l)) = Expand(lines) \o One(l, Whole[MaxOpen])
<1>1. Whole[MaxOpen] \in Inners
  BY WholeAre, CliNumbers
<1> QED BY <1>1, AmountMore DEF Expand

-----------------------------------------------------------------------------
(***************************************************************************)
(* The stack of readers.  What an open script still amounts to, and with   *)
(* it what all of them do, the innermost first; the terminal is the first  *)
(* reader.                                                                 *)
(***************************************************************************)
Reader == [file : DOMAIN Script \union {"terminal"}, next : Nat]
InScriptAt(r) == r.file \in DOMAIN Script /\ r.next \in 1 .. Len(Script[r.file]) + 1
Stack(ls) ==
  ls \in Seq(Reader) /\ Len(ls) <= MaxOpen + 1 /\ \A k \in 2 .. Len(ls) : InScriptAt(ls[k])

\* The scripts that reader k opens have this to come of each.
Below(k) == Whole[MaxOpen - k + 1]
Rest(r, k) == LastOnes(Script[r.file], Below(k))[Len(Script[r.file]) - r.next + 1]
Continues(ls, p) ==
  /\ p \in [1 .. Len(ls) -> LineLists] /\ p[1] = <<>>
  /\ \A k \in 2 .. Len(ls) : p[k] = Rest(ls[k], k) \o p[k - 1]
Awaited(ls, x) == \E p : Continues(ls, p) /\ p[Len(ls)] = x

LEMMA BelowTyped == \A k \in 1 .. MaxOpen + 1 : Below(k) \in Inners
<1> SUFFICES ASSUME NEW k \in 1 .. MaxOpen + 1 PROVE Below(k) \in Inners
  OBVIOUS
<1>1. MaxOpen - k + 1 \in 0 .. MaxOpen
  BY CliNumbers
<1> QED BY <1>1, WholeAre DEF Below

LEMMA RestTyped ==
  ASSUME NEW k \in 1 .. MaxOpen + 1, NEW r \in Reader, InScriptAt(r)
  PROVE  Rest(r, k) \in LineLists
<1>1. Script[r.file] \in LineLists
  BY ScriptsTyped DEF InScriptAt, LineLists
<1>2. Len(Script[r.file]) - r.next + 1 \in 0 .. Len(Script[r.file])
  BY <1>1 DEF InScriptAt, LineLists
<1>3. LastOnes(Script[r.file], Below(k)) \in [0 .. Len(Script[r.file]) -> LineLists]
  BY <1>1, BelowTyped, LastOnesAre
<1> QED BY <1>2, <1>3 DEF Rest

\* Reading a line of a script; its end; its begin.
LEMMA RestNext ==
  ASSUME NEW k \in 1 .. MaxOpen + 1, NEW f \in DOMAIN Script, NEW n \in 1 .. Len(Script[f])
  PROVE  Rest([file |-> f, next |-> n], k)
         = Then(Script[f][n], Below(k), Rest([file |-> f, next |-> n + 1], k))
<1> DEFINE lines == Script[f]
           N == Len(lines)
           F == LastOnes(lines, Below(k))
           m == N - n + 1
<1>1. lines \in LineLists /\ N \in Nat
  BY ScriptsTyped DEF LineLists
<1>2. \A i \in 1 .. N : F[i] = Then(lines[N - i + 1], Below(k), F[i - 1])
  BY <1>1, BelowTyped, LastOnesAre
<1>3. m \in 1 .. N /\ N - m + 1 = n /\ m - 1 = N - (n + 1) + 1
  BY <1>1
<1>4. Rest([file |-> f, next |-> n], k) = F[m] /\ Rest([file |-> f, next |-> n + 1], k) = F[N - (n + 1) + 1]
  BY DEF Rest
<1> HIDE DEF lines, N, F, m
<1>5. F[m] = Then(lines[n], Below(k), F[m - 1])
  BY <1>2, <1>3
<1> QED BY <1>3, <1>4, <1>5 DEF lines

LEMMA RestEnd ==
  ASSUME NEW k \in 1 .. MaxOpen + 1, NEW f \in DOMAIN Script
  PROVE  Rest([file |-> f, next |-> Len(Script[f]) + 1], k) = <<>>
<1>1. Script[f] \in LineLists /\ Len(Script[f]) \in Nat
  BY ScriptsTyped DEF LineLists
<1>2. Len(Script[f]) - (Len(Script[f]) + 1) + 1 = 0
  BY <1>1
<1>3. LastOnes(Script[f], Below(k))[0] = <<>>
  BY <1>1, BelowTyped, LastOnesAre
<1> QED BY <1>2, <1>3 DEF Rest

LEMMA RestStart ==
  ASSUME NEW k \in 1 .. MaxOpen, NEW f \in DOMAIN Script
  PROVE  Rest([file |-> f, next |-> 1], k + 1) = Below(k)[f]
<1>1. Script[f] \in LineLists /\ Len(Script[f]) \in Nat /\ Len(Script[f]) - 1 + 1 = Len(Script[f])
  BY ScriptsTyped DEF LineLists
<1> DEFINE n == MaxOpen - k + 1
<1>2. n \in 1 .. MaxOpen /\ MaxOpen - (k + 1) + 1 = n - 1
  BY CliNumbers
<1>3. Whole[n][f] = Amount(Script[f], Whole[n - 1])
  <2> HIDE DEF n
  <2> QED BY <1>2, WholeAre
<1>4. Below(k + 1) = Whole[n - 1] /\ Below(k) = Whole[n]
  BY <1>2 DEF Below
<1> HIDE DEF n
<1>5. Rest([file |-> f, next |-> 1], k + 1) = LastOnes(Script[f], Below(k + 1))[Len(Script[f]) - 1 + 1]
  BY DEF Rest
<1> QED BY <1>1, <1>3, <1>4, <1>5 DEF Amount

LEMMA AwaitedOfOne ==
  ASSUME NEW ls, Len(ls) = 1
  PROVE  Awaited(ls, <<>>) /\ \A x : Awaited(ls, x) => x = <<>>
<1>1. Continues(ls, [k \in 1 .. 1 |-> <<>>])
  BY JoinedNothing DEF Continues
<1> QED BY <1>1 DEF Awaited, Continues

LEMMA AwaitedPush ==
  ASSUME NEW ls, Stack(ls), Len(ls) \in 1 .. MaxOpen, NEW x, Awaited(ls, x),
         NEW r \in Reader, InScriptAt(r)
  PROVE  /\ Stack(Append(ls, r)) /\ Len(Append(ls, r)) = Len(ls) + 1
         /\ Awaited(Append(ls, r), Rest(r, Len(ls) + 1) \o x)
<1> DEFINE n == Len(ls)
           more == Append(ls, r)
<1>1. /\ n \in 1 .. MaxOpen /\ more \in Seq(Reader) /\ Len(more) = n + 1 /\ more[n + 1] = r
      /\ \A k \in 1 .. n : more[k] = ls[k]
  BY DEF Stack
<1>2. MaxOpen \in Nat
  BY CliNumbers
<1>3. PICK p : Continues(ls, p) /\ p[n] = x
  BY DEF Awaited
<1>4. \A k \in 2 .. n : InScriptAt(ls[k])
  BY DEF Stack
<1> DEFINE y == Rest(r, n + 1) \o x
           q == [k \in 1 .. n + 1 |-> IF k = n + 1 THEN y ELSE p[k]]
<1>5. p \in [1 .. n -> LineLists] /\ p[1] = <<>> /\ \A k \in 2 .. n : p[k] = Rest(ls[k], k) \o p[k - 1]
  BY <1>3 DEF Continues
<1> HIDE DEF n, more
<1>6. y \in LineLists
  <2>1. n + 1 \in 1 .. MaxOpen + 1 /\ n \in 1 .. n
    BY <1>1, <1>2
  <2>2. Rest(r, n + 1) \in LineLists
    BY <2>1, RestTyped
  <2> QED BY <1>3, <1>5, <2>1, <2>2, Joined
<1>7. Stack(more)
  <2>1. \A k \in 2 .. n + 1 : InScriptAt(more[k])
    <3> SUFFICES ASSUME NEW k \in 2 .. n + 1 PROVE InScriptAt(more[k])
      OBVIOUS
    <3>1. k = n + 1 \/ k \in 2 .. n
      BY <1>1
    <3>2. k \in 2 .. n => k \in 1 .. n
      OBVIOUS
    <3> QED BY <1>1, <1>4, <3>1, <3>2
  <2> QED BY <1>1, <1>2, <2>1 DEF Stack
<1>8. Continues(more, q) /\ q[n + 1] = y
  <2> HIDE DEF y
  <2>1. \A k \in 1 .. n : q[k] = p[k]
    BY <1>1
  <2>2. q[n + 1] = y
    BY <1>1
  <2>3. q \in [1 .. n + 1 -> LineLists] /\ q[1] = <<>>
    BY <1>1, <1>5, <1>6, <2>1
  <2>4. ASSUME NEW k \in 2 .. n + 1 PROVE q[k] = Rest(more[k], k) \o q[k - 1]
    <3>1. CASE k = n + 1
      <4>1. q[k - 1] = x /\ more[k] = r
        BY <1>1, <1>3, <2>1, <3>1
      <4> QED BY <2>2, <3>1, <4>1 DEF y
    <3>2. CASE k # n + 1
      <4>1. k \in 2 .. n /\ k \in 1 .. n /\ k - 1 \in 1 .. n
        BY <1>1, <3>2
      <4> HIDE DEF q
      <4> QED BY <1>1, <1>5, <2>1, <4>1
    <3> QED BY <3>1, <3>2
  <2> HIDE DEF q
  <2> QED BY <1>1, <2>2, <2>3, <2>4 DEF Continues
<1>9. Awaited(more, y)
  <2> HIDE DEF q, y
  <2> QED BY <1>1, <1>8 DEF Awaited
<1> QED BY <1>1, <1>7, <1>9 DEF n, more

LEMMA AwaitedPop ==
  ASSUME NEW ls, Stack(ls), Len(ls) > 1, NEW x, Awaited(ls, x)
  PROVE  /\ Stack(Front(ls)) /\ Len(Front(ls)) = Len(ls) - 1 /\ Len(Front(ls)) \in 1 .. MaxOpen
         /\ Last(ls) \in Reader /\ InScriptAt(Last(ls))
         /\ \E y \in LineLists : Awaited(Front(ls), y) /\ x = Rest(Last(ls), Len(ls)) \o y
<1> DEFINE n == Len(ls)
           less == Front(ls)
<1>1. /\ n \in Nat /\ n > 1 /\ n <= MaxOpen + 1 /\ ls[n] \in Reader /\ InScriptAt(ls[n]) /\ Last(ls) = ls[n]
      /\ less \in Seq(Reader) /\ Len(less) = n - 1 /\ \A k \in 1 .. n - 1 : less[k] = ls[k]
  <2>1. ls \in Seq(Reader)
    BY DEF Stack
  <2> QED BY <2>1 DEF Stack, Front, Last
<1>2. \A k \in 2 .. n - 1 : InScriptAt(ls[k])
  BY <1>1 DEF Stack
<1>3. PICK p : Continues(ls, p) /\ p[n] = x
  BY DEF Awaited
<1>4. p \in [1 .. n -> LineLists] /\ p[1] = <<>> /\ \A k \in 2 .. n : p[k] = Rest(ls[k], k) \o p[k - 1]
  BY <1>3 DEF Continues
<1> DEFINE q == [k \in 1 .. n - 1 |-> p[k]]
<1> HIDE DEF n, less
<1>5. Stack(less) /\ n - 1 \in 1 .. MaxOpen
  <2>1. \A k \in 2 .. n - 1 : InScriptAt(less[k])
    <3> SUFFICES ASSUME NEW k \in 2 .. n - 1 PROVE InScriptAt(less[k])
      OBVIOUS
    <3>1. k \in 1 .. n - 1
      BY <1>1
    <3> QED BY <1>1, <1>2, <3>1
  <2> QED BY <1>1, <2>1, CliNumbers DEF Stack
<1>6. Continues(less, q) /\ q[n - 1] = p[n - 1] /\ p[n - 1] \in LineLists
  <2>1. \A k \in 1 .. n - 1 : q[k] = p[k] /\ k \in 1 .. n
    BY <1>1
  <2>2. q \in [1 .. n - 1 -> LineLists] /\ 1 \in 1 .. n - 1 /\ n - 1 \in 1 .. n - 1
    BY <1>1, <1>4, <2>1
  <2>3. ASSUME NEW k \in 2 .. n - 1 PROVE q[k] = Rest(less[k], k) \o q[k - 1]
    <3>1. k \in 1 .. n - 1 /\ k - 1 \in 1 .. n - 1 /\ k \in 2 .. n
      BY <1>1
    <3> HIDE DEF q
    <3> QED BY <1>1, <1>4, <2>1, <3>1
  <2> HIDE DEF q
  <2> QED BY <1>1, <1>4, <2>1, <2>2, <2>3 DEF Continues
<1>7. x = Rest(ls[n], n) \o p[n - 1]
  <2>1. n \in 2 .. n
    BY <1>1
  <2> QED BY <1>3, <1>4, <2>1
<1>8. Awaited(less, p[n - 1])
  <2> HIDE DEF q
  <2> QED BY <1>1, <1>6 DEF Awaited
<1> QED BY <1>1, <1>5, <1>6, <1>7, <1>8 DEF n, less

-----------------------------------------------------------------------------
\* A line that was read opens a script, if it can, over the readers there are.
LEMMA LineOpens ==
  ASSUME NEW here, Stack(here), Len(here) \in 1 .. MaxOpen + 1, Len(levels) = Len(here),
         NEW x \in LineLists, Awaited(here, x), NEW l \in Written, ~Exits(l)
  PROVE  Stack(AfterLine(l, here)) /\ Awaited(AfterLine(l, here), Deeper(l, Below(Len(here))) \o x)
<1> DEFINE n == Len(here)
<1>1. n \in 1 .. MaxOpen + 1 /\ MaxOpen \in Nat
  BY CliNumbers
<1>2. CASE Opens(l)
  <2> DEFINE r == [file |-> l.file, next |-> 1]
  <2>1. n \in 1 .. MaxOpen /\ l.file \in DOMAIN Script /\ l.cmd = "do"
    BY <1>1, <1>2 DEF Opens
  <2>2. r \in Reader /\ InScriptAt(r)
    <3>1. Script[l.file] \in Seq(Written)
      BY <2>1, ScriptsTyped
    <3>2. Len(Script[l.file]) \in Nat
      BY <3>1
    <3> QED BY <2>1, <3>2 DEF Reader, InScriptAt
  <2>3. AfterLine(l, here) = Append(here, r)
    BY <1>2 DEF AfterLine
  <2>4. Rest(r, n + 1) = Deeper(l, Below(n))
    <3>1. Rest(r, n + 1) = Below(n)[l.file]
      <4> HIDE DEF n
      <4> QED BY <2>1, RestStart
    <3> HIDE DEF n, r
    <3> QED BY <2>1, <3>1 DEF Deeper
  <2>5. Stack(Append(here, r)) /\ Awaited(Append(here, r), Rest(r, n + 1) \o x)
    <3> HIDE DEF r
    <3> QED BY <2>1, <2>2, AwaitedPush
  <2> HIDE DEF r, n
  <2> QED BY <2>3, <2>4, <2>5 DEF n
<1>3. CASE ~Opens(l)
  <2>1. AfterLine(l, here) = here
    BY <1>3 DEF AfterLine
  <2>2. Deeper(l, Below(n)) = <<>>
    <3>1. CASE l.cmd = "do" /\ l.file \in DOMAIN Script
      <4>1. n = MaxOpen + 1
        BY <1>1, <1>3, <3>1 DEF Opens
      <4>2. MaxOpen - n + 1 = 0
        BY <1>1, <4>1
      <4>3. Below(n) = Whole[0]
        BY <4>2 DEF Below
      <4> HIDE DEF n
      <4> QED BY <3>1, <4>3, WholeAre DEF Deeper
    <3>2. CASE ~(l.cmd = "do" /\ l.file \in DOMAIN Script)
      BY <3>2 DEF Deeper
    <3> QED BY <3>1, <3>2
  <2> HIDE DEF n
  <2> QED BY <2>1, <2>2, JoinedNothing DEF n
<1> QED BY <1>2, <1>3

\* The inductive invariant of the readers: what was run and what is awaited is
\* what the typed lines amount to; nobody who types has quit.
ReadersIInv ==
  /\ Stack(levels) /\ done \in LineLists /\ typedLines \in LineLists
  /\ levels = <<>> => done = Expand(typedLines)
  /\ levels # <<>> =>
       /\ \A i \in 1 .. Len(typedLines) : ~Exits(typedLines[i])
       /\ \E x \in LineLists : Awaited(levels, x) /\ done \o x = Expand(typedLines)

LEMMA ReadTerminalReads ==
  ASSUME ReadersIInv, NEW l \in Typed, ReadTerminal(l) PROVE ReadersIInv'
<1>1. /\ Len(levels) = 1 /\ Stack(levels) /\ levels \in Seq(Reader) /\ levels # <<>>
      /\ typedLines' = Append(typedLines, l) /\ done' = Append(done, l) /\ levels' = AfterLine(l, levels)
  <2>1. Len(levels) = 1 /\ Stack(levels) /\ levels \in Seq(Reader)
    BY DEF ReadersIInv, ReadTerminal, AtPrompt, Stack
  <2>2. levels # <<>>
    BY <2>1
  <2> QED BY <2>1, <2>2 DEF ReadTerminal, Evaluate
<1>2. l \in Written /\ done \in LineLists /\ typedLines \in LineLists /\ MaxOpen \in Nat
  BY CliNumbers DEF Written, ReadersIInv
<1>3. done' \in LineLists /\ typedLines' \in LineLists /\ <<l>> \in LineLists /\ done' = done \o <<l>>
  BY <1>1, <1>2, AppendIsConcat DEF LineLists
<1>4. /\ \A i \in 1 .. Len(typedLines) : ~Exits(typedLines[i])
      /\ done = Expand(typedLines)
  <2>1. PICK x \in LineLists : Awaited(levels, x) /\ done \o x = Expand(typedLines)
    BY <1>1 DEF ReadersIInv
  <2>2. x = <<>>
    BY <1>1, <2>1, AwaitedOfOne
  <2> QED BY <1>1, <1>2, <2>1, <2>2, JoinedNothing DEF ReadersIInv
<1>5. Expand(typedLines') = done \o One(l, Below(1))
  <2>1. MaxOpen - 1 + 1 = MaxOpen
    BY <1>2
  <2> QED BY <1>1, <1>2, <1>4, <2>1, ExpandMore DEF Below
<1>6. Below(1) \in Inners
  BY <1>2, BelowTyped
<1>7. CASE Exits(l)
  <2>1. levels' = Front(levels)
    BY <1>1, <1>7 DEF AfterLine
  <2>2. levels' = <<>>
    BY <1>1, <2>1 DEF Front
  <2>3. Expand(typedLines') = done'
    <3>1. Deeper(l, Below(1)) = <<>>
      BY <1>7, ExitRunsNothing
    <3> QED BY <1>3, <1>5, <3>1, JoinedNothing DEF One
  <2>4. Stack(<<>>)
    BY <1>2 DEF Stack
  <2> QED BY <1>3, <2>2, <2>3, <2>4 DEF ReadersIInv
<1>8. CASE ~Exits(l)
  <2> DEFINE x == Deeper(l, Below(1))
  <2>1. x \in LineLists /\ x \o <<>> = x
    BY <1>2, <1>6, DeeperTyped, JoinedNothing
  <2>2. Stack(levels') /\ Awaited(levels', x)
    <3>1. Len(levels) \in 1 .. MaxOpen + 1 /\ Awaited(levels, <<>>) /\ <<>> \in LineLists
      BY <1>1, <1>2, AwaitedOfOne, JoinedNothing
    <3>2. Stack(AfterLine(l, levels)) /\ Awaited(AfterLine(l, levels), Deeper(l, Below(Len(levels))) \o <<>>)
      BY <1>1, <1>2, <1>8, <3>1, LineOpens
    <3> QED BY <1>1, <2>1, <3>2
  <2>3. done' \o x = Expand(typedLines')
    <3>1. (done \o <<l>>) \o x = done \o (<<l>> \o x)
      <4> DEFINE e == <<l>>
      <4>1. done \in LineLists /\ e \in LineLists /\ x \in LineLists
        BY <1>2, <1>3, <2>1
      <4> HIDE DEF x, e
      <4>2. (done \o e) \o x = done \o (e \o x)
        BY ONLY <4>1, JoinedThree
      <4> QED BY <4>2 DEF e
    <3> QED BY <1>3, <1>5, <3>1 DEF One
  <2>4. levels' # <<>>
    BY <1>1, <1>8 DEF AfterLine
  <2>5. \A i \in 1 .. Len(typedLines') : ~Exits(typedLines'[i])
    BY <1>1, <1>2, <1>4, <1>8 DEF LineLists
  <2> HIDE DEF x
  <2> QED BY <1>3, <2>1, <2>2, <2>3, <2>4, <2>5 DEF ReadersIInv
<1> QED BY <1>7, <1>8

\* The reader on top has read its line.
LEMMA TopMoves ==
  ASSUME NEW ls \in Seq(Reader), Len(ls) > 1
  PROVE  [ls EXCEPT ![Len(ls)].next = @ + 1]
         = Append(Front(ls), [file |-> Last(ls).file, next |-> Last(ls).next + 1])
<1> DEFINE n == Len(ls)
           r == ls[n]
           s == [file |-> r.file, next |-> r.next + 1]
<1>1. n \in Nat /\ n > 1 /\ r \in Reader /\ s \in Reader
  <2>1. n \in Nat /\ n > 1 /\ n \in 1 .. n
    OBVIOUS
  <2>2. r \in Reader
    BY <2>1
  <2> QED BY <2>1, <2>2 DEF Reader
<1>2. [ls EXCEPT ![n].next = @ + 1] = [ls EXCEPT ![n] = s]
  <2>1. [r EXCEPT !.next = @ + 1] = s
    BY <1>1 DEF Reader
  <2> QED BY <2>1
<1> HIDE DEF s
<1>3. [ls EXCEPT ![n] = s] = Append(Front(ls), s)
  <2>1. /\ Front(ls) \in Seq(Reader) /\ Len(Front(ls)) = n - 1
        /\ \A k \in 1 .. n - 1 : Front(ls)[k] = ls[k]
    BY <1>1 DEF Front
  <2> DEFINE a == [ls EXCEPT ![n] = s]
             b == Append(Front(ls), s)
  <2>2. a \in Seq(Reader) /\ Len(a) = n /\ a[n] = s /\ \A k \in 1 .. n - 1 : a[k] = ls[k]
    BY <1>1
  <2>3. b \in Seq(Reader) /\ Len(b) = n /\ b[n] = s /\ \A k \in 1 .. n - 1 : b[k] = ls[k]
    BY <1>1, <2>1
  <2> HIDE DEF a, b
  <2>4. \A k \in 1 .. n : a[k] = b[k]
    <3> SUFFICES ASSUME NEW k \in 1 .. n PROVE a[k] = b[k]
      OBVIOUS
    <3>1. k = n \/ k \in 1 .. n - 1
      BY <1>1
    <3> QED BY <2>2, <2>3, <3>1
  <2>5. a = [k \in 1 .. n |-> a[k]] /\ b = [k \in 1 .. n |-> b[k]]
    BY <2>2, <2>3
  <2>6. a = b
    BY <2>4, <2>5
  <2> QED BY <2>6 DEF a, b
<1> QED BY <1>2, <1>3 DEF Last, s

LEMMA ReadScriptReads == ASSUME ReadersIInv, ReadScript PROVE ReadersIInv'
<1> DEFINE n == Len(levels)
           f == Last(levels).file
           i == Last(levels).next
           l == Script[f][i]
           top == [file |-> f, next |-> i + 1]
           here == Append(Front(levels), top)
           W == Below(n)
<1>1. /\ n > 1 /\ Stack(levels) /\ levels \in Seq(Reader) /\ levels # <<>> /\ i <= Len(Script[f])
      /\ done' = Append(done, l) /\ levels' = AfterLine(l, [levels EXCEPT ![Len(levels)].next = @ + 1])
      /\ typedLines' = typedLines
  BY DEF ReadersIInv, ReadScript, InScript, Evaluate, Lines, Stack
<1>2. levels' = AfterLine(l, here)
  BY <1>1, TopMoves
<1>3. PICK x \in LineLists : Awaited(levels, x) /\ done \o x = Expand(typedLines)
  BY <1>1 DEF ReadersIInv
<1>4. /\ Stack(Front(levels)) /\ Len(Front(levels)) = n - 1 /\ n - 1 \in 1 .. MaxOpen
      /\ Last(levels) \in Reader /\ InScriptAt(Last(levels))
  BY <1>1, <1>3, AwaitedPop
<1>5. PICK y \in LineLists : Awaited(Front(levels), y) /\ x = Rest(Last(levels), n) \o y
  BY <1>1, <1>3, AwaitedPop
<1>6. /\ f \in DOMAIN Script /\ i \in 1 .. Len(Script[f]) /\ n \in 1 .. MaxOpen + 1 /\ n \in Nat
      /\ Last(levels) = [file |-> f, next |-> i] /\ MaxOpen \in Nat
  <2>1. Last(levels) = [file |-> f, next |-> i]
    BY <1>4 DEF Reader
  <2>2. i \in 1 .. Len(Script[f]) + 1 /\ f \in DOMAIN Script
    BY <1>4 DEF InScriptAt
  <2>3. Len(Script[f]) \in Nat
    <3>1. Script[f] \in Seq(Written)
      BY <2>2, ScriptsTyped
    <3> QED BY <3>1
  <2>4. n \in Nat /\ MaxOpen \in Nat
    BY <1>1, CliNumbers
  <2> QED BY <1>1, <1>4, <2>1, <2>2, <2>3, <2>4
<1>7. l \in Written /\ done \in LineLists /\ typedLines \in LineLists
  <2>1. Script[f] \in Seq(Written)
    BY <1>6, ScriptsTyped
  <2> QED BY <1>6, <2>1 DEF ReadersIInv
<1>8. top \in Reader /\ InScriptAt(top) /\ Rest(top, n) \in LineLists
  <2>1. i + 1 \in Nat /\ i + 1 \in 1 .. Len(Script[f]) + 1
    BY <1>6
  <2>2. top \in Reader /\ InScriptAt(top)
    BY <1>6, <2>1 DEF Reader, InScriptAt
  <2> HIDE DEF top, n
  <2> QED BY <1>6, <2>2, RestTyped
<1>9. Rest(Last(levels), n) = Then(l, W, Rest(top, n))
  <2>1. Rest([file |-> f, next |-> i], n) = Then(Script[f][i], Below(n), Rest([file |-> f, next |-> i + 1], n))
    <3> HIDE DEF f, i, n
    <3> QED BY <1>6, RestNext
  <2>2. Rest(Last(levels), n) = Rest([file |-> f, next |-> i], n)
    <3> HIDE DEF f, i, n
    <3> QED BY <1>6
  <2> QED BY <2>1, <2>2
<1>10. W \in Inners
  <2> HIDE DEF n
  <2> QED BY <1>6, BelowTyped
<1> HIDE DEF n, f, i, l, top, W
<1>11. done' \in LineLists /\ <<l>> \in LineLists /\ done' = done \o <<l>> /\ Deeper(l, W) \in LineLists
  <2>1. <<l>> \in LineLists /\ Deeper(l, W) \in LineLists
    BY <1>7, <1>10, DeeperTyped
  <2>2. done' = done \o <<l>>
    BY <1>1, <1>7, AppendIsConcat DEF LineLists
  <2> QED BY <1>7, <2>1, <2>2, Joined
<1>12. \A j \in 1 .. Len(typedLines) : ~Exits(typedLines[j])
  BY <1>1 DEF ReadersIInv
<1>13. CASE Exits(l)
  <2>1. levels' = Front(here)
    BY <1>2, <1>13 DEF AfterLine
  <2>2. levels' = Front(levels)
    <3> DEFINE fr == Front(levels)
    <3>1. fr \in Seq(Reader)
      BY <1>4 DEF Stack
    <3> HIDE DEF fr
    <3>2. Front(Append(fr, top)) = fr
      BY <1>8, <3>1 DEF Front
    <3> QED BY <2>1, <3>2 DEF fr
  <2>3. x = <<l>> \o y
    BY <1>5, <1>9, <1>13 DEF Then
  <2>4. done' \o y = done \o x
    <3> DEFINE e == <<l>>
    <3>1. done \in LineLists /\ e \in LineLists /\ y \in LineLists
      BY <1>5, <1>7, <1>11
    <3>2. done' = done \o e /\ x = e \o y
      BY <1>11, <2>3
    <3> HIDE DEF e
    <3>3. (done \o e) \o y = done \o (e \o y)
      BY ONLY <3>1, JoinedThree
    <3> QED BY <3>2, <3>3
  <2>5. levels' # <<>>
    BY <1>4, <1>6, <2>2
  <2> QED BY <1>1, <1>3, <1>4, <1>5, <1>7, <1>11, <1>12, <2>2, <2>4, <2>5 DEF ReadersIInv
<1>14. CASE ~Exits(l)
  <2> DEFINE d == Deeper(l, W)
             t == Rest(top, n)
             z == d \o (t \o y)
  <2>1. /\ Stack(here) /\ Len(here) = n /\ Awaited(here, t \o y)
    <3>1. (n - 1) + 1 = n
      BY <1>6
    <3> QED BY <1>4, <1>5, <1>8, <3>1, AwaitedPush
  <2>2. t \o y \in LineLists /\ d \in LineLists /\ t \in LineLists
    BY <1>5, <1>8, <1>11, Joined
  <2> HIDE DEF t, d, here
  <2>3. Stack(levels') /\ Awaited(levels', z)
    <3>1. Len(levels) = Len(here) /\ Len(here) \in 1 .. MaxOpen + 1
      BY <1>6, <2>1 DEF n
    <3>2. Stack(AfterLine(l, here)) /\ Awaited(AfterLine(l, here), Deeper(l, Below(Len(here))) \o (t \o y))
      BY <1>7, <1>14, <2>1, <2>2, <3>1, LineOpens
    <3> QED BY <1>2, <2>1, <3>2 DEF d, W
  <2>4. done' \o z = done \o x
    <3> DEFINE e == <<l>>
    <3>1. x = ((e \o d) \o t) \o y
      BY <1>5, <1>9, <1>14 DEF Then, d, t
    <3>2. done \in LineLists /\ e \in LineLists /\ d \in LineLists /\ t \in LineLists /\ y \in LineLists
      BY <1>5, <1>7, <1>11, <2>2
    <3>4. done' = done \o e
      BY <1>11
    <3> HIDE DEF e, z
    <3>3. Join(Join(done, e), Join(d, Join(t, y))) = Join(done, Join(Join(Join(e, d), t), y))
      BY <3>2, JoinedFive
    <3> QED BY <3>1, <3>3, <3>4 DEF z, Join
  <2>5. levels' # <<>>
    <3>1. here # <<>>
      BY <1>6, <2>1
    <3>2. levels' = here \/ levels' = Append(here, [file |-> l.file, next |-> 1])
      BY <1>2, <1>14 DEF AfterLine
    <3>3. here \in Seq(Reader)
      BY <2>1 DEF Stack
    <3> QED BY <3>1, <3>2, <3>3
  <2>6. z \in LineLists
    BY <2>2, Joined
  <2> HIDE DEF z
  <2> QED BY <1>1, <1>3, <1>7, <1>11, <1>12, <2>3, <2>4, <2>5, <2>6 DEF ReadersIInv
<1> QED BY <1>13, <1>14

LEMMA ScriptEndsReads == ASSUME ReadersIInv, ScriptEnds PROVE ReadersIInv'
<1> DEFINE n == Len(levels)
           f == Last(levels).file
           i == Last(levels).next
<1>1. /\ n > 1 /\ Stack(levels) /\ levels \in Seq(Reader) /\ levels # <<>> /\ i > Len(Script[f])
      /\ levels' = Front(levels) /\ done' = done /\ typedLines' = typedLines
  BY DEF ReadersIInv, ScriptEnds, InScript, Lines, Stack
<1>2. PICK x \in LineLists : Awaited(levels, x) /\ done \o x = Expand(typedLines)
  BY <1>1 DEF ReadersIInv
<1>3. /\ Stack(Front(levels)) /\ Len(Front(levels)) = n - 1 /\ n - 1 \in 1 .. MaxOpen
      /\ Last(levels) \in Reader /\ InScriptAt(Last(levels))
  BY <1>1, <1>2, AwaitedPop
<1>4. PICK y \in LineLists : Awaited(Front(levels), y) /\ x = Rest(Last(levels), n) \o y
  BY <1>1, <1>2, AwaitedPop
<1>5. Rest(Last(levels), n) = <<>>
  <2>1. f \in DOMAIN Script /\ i \in 1 .. Len(Script[f]) + 1 /\ Last(levels) = [file |-> f, next |-> i]
    BY <1>3 DEF Reader, InScriptAt
  <2>2. Script[f] \in Seq(Written)
    BY <2>1, ScriptsTyped
  <2>3. i = Len(Script[f]) + 1
    BY <1>1, <2>1, <2>2
  <2>4. n \in 1 .. MaxOpen + 1
    BY <1>1, <1>3, CliNumbers
  <2> HIDE DEF n, f, i
  <2> QED BY <2>1, <2>3, <2>4, RestEnd
<1>6. x = y
  BY <1>4, <1>5, JoinedNothing
<1>7. levels' # <<>>
  BY <1>1, <1>3
<1> QED BY <1>1, <1>2, <1>3, <1>4, <1>6, <1>7 DEF ReadersIInv

LEMMA EndOfInputReads == ASSUME ReadersIInv, EndOfInput PROVE ReadersIInv'
<1>1. /\ Len(levels) = 1 /\ levels # <<>> /\ levels' = <<>> /\ done' = done /\ typedLines' = typedLines
  BY DEF EndOfInput, AtPrompt
<1>2. PICK x \in LineLists : Awaited(levels, x) /\ done \o x = Expand(typedLines)
  BY <1>1 DEF ReadersIInv
<1>3. x = <<>>
  BY <1>1, <1>2, AwaitedOfOne
<1>4. Stack(<<>>)
  BY CliNumbers DEF Stack
<1> QED BY <1>1, <1>2, <1>3, <1>4, JoinedNothing DEF ReadersIInv

LEMMA ReadersSame == ASSUME ReadersIInv, UNCHANGED <<levels, typedLines, done>> PROVE ReadersIInv'
BY DEF ReadersIInv

-----------------------------------------------------------------------------
CliIInv == MachineIInv /\ ReadersIInv

LEMMA CliInitInv == CliInit => CliIInv
<1> SUFFICES ASSUME CliInit PROVE CliIInv
  OBVIOUS
<1>1. MachineIInv
  <2> DEFINE n == DefaultRam
             m == Zeros(n)
             none == <<>>
             file == "bios"
             place == 0
             x == [file |-> file, at |-> place]
  <2>1. n \in 0 .. Space - 1 /\ n \in 0 .. MaxAlloc /\ n < Space /\ place \in 0 .. Space - 1
    BY CliNumbers
  <2>2. DOMAIN m = 0 .. n - 1 /\ \A a \in 0 .. n - 1 : m[a] = Cell(none, a)
    BY CellOfNone DEF Zeros, ZeroCell
  <2>3. file \in DOMAIN Size /\ none \in Seq(Placed)
    BY SizesTyped
  <2>4. Append(none, x) = <<x>>
    OBVIOUS
  <2>5. mem = Laid(m, file, place) /\ placed = <<x>>
    BY DEF CliInit
  <2> HIDE DEF m, n, none, file, place
  <2>6. /\ DOMAIN Laid(m, file, place) = 0 .. n - 1 /\ Append(none, x) \in Seq(Placed)
        /\ \A a \in 0 .. n - 1 : Laid(m, file, place)[a] = Cell(Append(none, x), a)
    BY <2>1, <2>2, <2>3, LoadLays
  <2>7. Memory /\ Layers
    <3> HIDE DEF x
    <3> QED BY <2>1, <2>4, <2>5, <2>6 DEF Memory, Layers
  <2>8. DebugSet
    <3>1. Exprs["NONE"] \in Items /\ "NONE" \in DOMAIN Exprs
      BY ExprsTyped, ExprNone
    <3>2. ParseDebug(Exprs["NONE"]) = {}
      <4>1. /\ ParseDebug(Exprs["NONE"]) \subseteq Flags
            /\ \A g \in Flags : g \in ParseDebug(Exprs["NONE"]) <=> Says(Exprs["NONE"], Len(Exprs["NONE"]), g)
        BY <3>1, ParseDebugIs
      <4>2. \A g : ~Says(Exprs["NONE"], Len(Exprs["NONE"]), g)
        BY ExprNone DEF Says
      <4> QED BY <4>1, <4>2
    <3> QED BY <3>1, <3>2 DEF CliInit, DebugSet
  <2>9. mode \in Guest!Modes /\ keys \in 0 .. Fifo /\ trace \in BOOLEAN /\ busy \in Loops
    <3>1. Fifo \in Nat /\ Space \in Nat \ {0}
      BY CliNumbers
    <3>2. mode = "ready" /\ keys = 0 /\ trace = FALSE /\ busy = [loop |-> "none", at |-> 0, upto |-> 0]
      BY DEF CliInit, Reading
    <3>3. 0 \in 0 .. Fifo /\ 0 \in 0 .. Space - 1 /\ 0 \in Int
      BY <3>1
    <3> QED BY <3>2, <3>3 DEF Guest!Modes, Loops
  <2> QED BY <2>7, <2>8, <2>9 DEF MachineIInv
<1>2. ReadersIInv
  <2>1. levels = <<Terminal>> /\ typedLines = <<>> /\ done = <<>>
    BY DEF CliInit
  <2>2. Stack(levels)
    BY <2>1, CliNumbers DEF Stack, Reader, Terminal
  <2>3. Awaited(levels, <<>>) /\ levels # <<>>
    BY <2>1, AwaitedOfOne
  <2>4. Expand(<<>>) = <<>>
    <3>1. Whole[MaxOpen] \in Inners
      BY WholeAre, CliNumbers
    <3> QED BY <3>1, LastOnesAre, JoinedNothing DEF Expand, Amount
  <2> QED BY <2>1, <2>2, <2>3, <2>4, JoinedNothing DEF ReadersIInv
<1> QED BY <1>1, <1>2 DEF CliIInv

LEMMA CliNextInv == CliIInv /\ [CliNext]_cliVars => CliIInv'
<1> SUFFICES ASSUME CliIInv, [CliNext]_cliVars PROVE CliIInv'
  OBVIOUS
<1> USE DEF CliIInv
<1>1. ASSUME NEW l \in Typed, ReadTerminal(l) PROVE CliIInv'
  <2>1. l \in Written
    BY DEF Written
  <2> QED BY <1>1, <2>1, CommandInv, ReadTerminalReads DEF ReadTerminal, Evaluate
<1>2. CASE ReadScript
  <2> DEFINE l == Lines[Last(levels).next]
  <2>1. l \in Written
    <3>1. Len(levels) > 1 /\ Stack(levels) /\ Last(levels).next <= Len(Lines)
      BY <1>2 DEF ReadersIInv, ReadScript, InScript
    <3>2. InScriptAt(Last(levels))
      <4>1. Len(levels) \in 2 .. Len(levels)
        BY <3>1 DEF Stack
      <4> QED BY <3>1, <4>1 DEF Stack, Last
    <3>3. Lines \in Seq(Written)
      BY <3>2, ScriptsTyped DEF InScriptAt, Lines
    <3>4. Last(levels).next \in 1 .. Len(Lines)
      BY <3>1, <3>2, <3>3 DEF InScriptAt, Lines
    <3> QED BY <3>3, <3>4
  <2>2. IF l.cmd = "do" THEN Quiet ELSE CliCommand(l)
    BY <1>2 DEF ReadScript, Evaluate
  <2> HIDE DEF l
  <2> QED BY <1>2, <2>1, <2>2, CommandInv, ReadScriptReads
<1>3. CASE ScriptEnds
  <2>1. MachineIInv'
    BY <1>3, MachineSame DEF ScriptEnds, MachineIInv
  <2> QED BY <1>3, <2>1, ScriptEndsReads
<1>4. CASE EndOfInput
  <2>1. MachineIInv'
    BY <1>4, MachineSame DEF EndOfInput, MachineIInv
  <2> QED BY <1>4, <2>1, EndOfInputReads
<1>5. CASE StepLoop \/ RunLoop \/ ExamineLoop
  <2>1. UNCHANGED <<levels, typedLines, done>>
    BY <1>5 DEF StepLoop, RunLoop, ExamineLoop, Still
  <2> QED BY <1>5, <2>1, GuestStepInv, ReadersSame
<1>6. CASE UNCHANGED cliVars
  <2>1. UNCHANGED <<levels, typedLines, done>> /\ UNCHANGED <<mode, cliMachine, busy>>
    BY <1>6 DEF cliVars, cliMachine
  <2>2. MachineIInv'
    BY <2>1, MachineSame DEF MachineIInv
  <2> QED BY <2>1, <2>2, ReadersSame
<1> QED BY <1>1, <1>2, <1>3, <1>4, <1>5, <1>6 DEF CliNext, Work

LEMMA CliAlwaysInv == CliSpec => []CliIInv
BY CliInitInv, CliNextInv, PTL DEF CliSpec

LEMMA CliKeeps == CliIInv => CliInv
<1> SUFFICES ASSUME CliIInv PROVE CliInv
  OBVIOUS
<1>1. MachineIInv /\ Stack(levels)
  BY DEF CliIInv, ReadersIInv
<1>2. applied \in DOMAIN Exprs /\ debug = ParseDebug(Exprs[applied]) /\ Exprs[applied] \in Items
  BY <1>1, ExprsTyped DEF MachineIInv, DebugSet
<1>3. CliTypeOK
  <2>1. debug \subseteq Flags
    BY <1>2, ParseDebugIs
  <2> QED BY <1>1, <2>1 DEF CliTypeOK, MachineIInv, Stack, Memory, Loops
<1>4. LastLoaded
  BY <1>1, LastLoadedIs DEF MachineIInv, Layers
<1>5. LastItemDecides
  <2> DEFINE list == Exprs[applied]
             speaks(g) == {i \in DOMAIN list : g \in Bits(list[i].flag) \/ list[i].flag = "NONE"}
  <2> SUFFICES ASSUME NEW g \in Flags
               PROVE  g \in debug <=>
                        \E i \in speaks(g) : /\ \A j \in speaks(g) : j <= i
                                             /\ list[i].add <=> list[i].flag # "NONE"
    BY DEF LastItemDecides
  <2>1. g \in debug <=> Says(list, Len(list), g)
    <3> HIDE DEF list
    <3> QED BY <1>2, ParseDebugIs DEF list
  <2>2. DOMAIN list = 1 .. Len(list)
    BY <1>2 DEF Items
  <2>3. \A i : i \in speaks(g) <=> i \in 1 .. Len(list) /\ Speaks(list[i], g)
    BY <2>2 DEF Speaks
  <2> HIDE DEF list, speaks
  <2> QED BY <2>1, <2>3 DEF Says
<1> QED BY <1>3, <1>4, <1>5 DEF CliInv

\* Whatever is typed and loaded: memory is of the last file laid over it, the
\* debug flags are what the last expression says, and the rest keeps its type.
THEOREM SettingsLast == CliSpec => []CliInv
BY CliAlwaysInv, CliKeeps, PTL

\* Running scripts is typing their lines, for every set of scripts, however deep
\* they run each other and wherever they quit.
THEOREM ScriptsAreTyping == CliSpec => []DoIsTyping
<1>1. CliIInv => DoIsTyping
  <2> SUFFICES ASSUME CliIInv, Len(levels) <= 1 PROVE done = Expand(typedLines)
    BY DEF DoIsTyping
  <2>1. ReadersIInv /\ levels \in Seq(Reader)
    BY DEF CliIInv, ReadersIInv, Stack
  <2>2. CASE levels = <<>>
    BY <2>1, <2>2 DEF ReadersIInv
  <2>3. CASE levels # <<>>
    <3>1. PICK x \in LineLists : Awaited(levels, x) /\ done \o x = Expand(typedLines)
      BY <2>1, <2>3 DEF ReadersIInv
    <3>2. Len(levels) = 1
      <4>1. levels \in Seq(Reader) /\ Len(levels) <= 1 /\ levels # <<>>
        BY <2>1, <2>3
      <4>2. Len(levels) \in Nat /\ Len(levels) # 0
        BY ONLY <4>1, LenProperties, EmptySeq
      <4> DEFINE depth == Len(levels)
      <4>3. depth \in Nat /\ depth # 0 /\ depth <= 1
        BY ONLY <4>1, <4>2
      <4>4. depth = 1
        <5> HIDE DEF depth
        <5> QED BY ONLY <4>3
      <4> QED BY ONLY <4>4
    <3>3. x = <<>>
      BY <3>1, <3>2, AwaitedOfOne
    <3> QED BY <2>1, <3>1, <3>3, JoinedNothing DEF ReadersIInv
  <2> QED BY <2>2, <2>3
<1> QED BY <1>1, CliAlwaysInv, PTL
=============================================================================
