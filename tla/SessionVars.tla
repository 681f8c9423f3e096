------------------------------ MODULE SessionVars ------------------------------
(***************************************************************************)
(* The variables of an arm7-run session (vm/arm7-run/src/session.c): an    *)
(* array of pointers to keys and values on the heap, which grows by        *)
(* doubling and is kept dense by moving the last entry into a hole.  Any   *)
(* allocation may fail.  Nothing in the program sets a variable yet.       *)
(*                                                                         *)
(* A string is its content; a block of the heap is a number, 0 is NULL.    *)
(* freed, a history variable, says of a free that it was of no block.      *)
(***************************************************************************)
EXTENDS Naturals, FiniteSetsExt

CONSTANTS Settings,  \* what is set: pairs of a name and a value
          FirstCap, MaxCap  \* 16; bound
ASSUME SessionAssumption == FirstCap \in Nat \ {0} /\ MaxCap \in Nat

Names == {s[1] : s \in Settings}

VARIABLES items, count, cap, heap, freed
tableVars == <<items, count, cap, heap, freed>>

NullItem == [key |-> 0, val |-> 0]
Empty == [b \in {} |-> "none"]

\* session_init
TableInit ==
  /\ items = [i \in {} |-> NullItem] /\ count = 0 /\ cap = 0
  /\ heap = Empty /\ freed = "all blocks"

-----------------------------------------------------------------------------
\* xstrdup: a block of its own.
Block(h) == Min(1 .. Cardinality(DOMAIN h) + 1 \ DOMAIN h)
With(h, s) == [b \in DOMAIN h \union {Block(h)} |-> IF b \in DOMAIN h THEN h[b] ELSE s]
Without(h, bs) == [b \in DOMAIN h \ bs |-> h[b]]
Freeing(bs) == freed' = IF bs \subseteq DOMAIN heap THEN freed ELSE "a stray pointer"

Live == 0 .. count - 1
At(k) == {i \in Live : items[i].key # 0 /\ heap[items[i].key] = k}

\* kv_reserve: room for one more, the new slots NULL; it may fail.
NextCap == IF cap = 0 THEN FirstCap ELSE 2 * cap
Reserved == IF cap > count THEN items
            ELSE [i \in 0 .. NextCap - 1 |-> IF i < cap THEN items[i] ELSE NullItem]

\* session_set of a key that is there: the new value before the old is freed.
SetOld(k, v) ==
  \E i \in At(k) :
    /\ heap' = Without(With(heap, v), {items[i].val})
    /\ items' = [items EXCEPT ![i].val = Block(heap)]
    /\ Freeing({items[i].val}) /\ UNCHANGED <<count, cap>>

SetNew(k, v) ==
  /\ At(k) = {} /\ (cap > count \/ NextCap <= MaxCap)
  /\ cap' = IF cap > count THEN cap ELSE NextCap
  /\ LET withKey == With(heap, k)
     IN  /\ heap' = With(withKey, v)
         /\ items' = [Reserved EXCEPT ![count] = [key |-> Block(heap), val |-> Block(withKey)]]
  /\ count' = count + 1 /\ UNCHANGED freed

\* Out of memory: for the array nothing happens; for the key or the value the
\* array has grown, and the slot after the last is NULL again.
SetFails(k) ==
  /\ At(k) = {}
  /\ \/ UNCHANGED <<items, cap>>
     \/ /\ cap > count \/ NextCap <= MaxCap
        /\ cap' = IF cap > count THEN cap ELSE NextCap
        /\ items' = [Reserved EXCEPT ![count] = NullItem]
  /\ UNCHANGED <<count, heap, freed>>

\* Mutant: the last entry's pointers are copied, and freed with the old ones.
UnsetFreesLast(k) ==
  \E i \in At(k) :
    LET last == items[count - 1]
    IN  /\ Freeing({last.key, last.val})
        /\ heap' = Without(heap, {last.key, last.val})
        /\ items' = IF i = count - 1 THEN items
                    ELSE [items EXCEPT ![i] = last, ![count - 1] = NullItem]
        /\ count' = count - 1 /\ UNCHANGED cap
\* Mutant: the entries stay in their order, but the count goes down.
UnsetLeavesHole(k) ==
  \E i \in At(k) :
    /\ Freeing({items[i].key, items[i].val})
    /\ heap' = Without(heap, {items[i].key, items[i].val})
    /\ items' = [items EXCEPT ![i] = NullItem]
    /\ count' = count - 1 /\ UNCHANGED cap
\* session_unset; of the last entry the freed pointers stay, behind the count.
Unset(k) ==
  \E i \in At(k) :
    /\ Freeing({items[i].key, items[i].val})
    /\ heap' = Without(heap, {items[i].key, items[i].val})
    /\ items' = IF i = count - 1 THEN items
                ELSE [items EXCEPT ![i] = items[count - 1], ![count - 1] = NullItem]
    /\ count' = count - 1 /\ UNCHANGED cap

Pointers == {items[i].key : i \in Live} \union {items[i].val : i \in Live}

\* session_shutdown
Shutdown ==
  /\ Freeing(Pointers) /\ heap' = Without(heap, Pointers)
  /\ items' = [i \in {} |-> NullItem] /\ count' = 0 /\ cap' = 0

TableNext ==
  \/ \E s \in Settings : SetOld(s[1], s[2]) \/ SetNew(s[1], s[2])
  \/ \E k \in Names : SetFails(k) \/ Unset(k)
  \/ Shutdown

TableSpec == TableInit /\ [][TableNext]_tableVars

-----------------------------------------------------------------------------
\* The count never passes the array, and nothing is freed that is no block.
TableTypeOK ==
  /\ DOMAIN items = 0 .. cap - 1 /\ count <= cap /\ cap <= MaxCap
  /\ freed = "all blocks"

\* Every block is owned by exactly one live entry, and every pointer of a live
\* entry is a block: whichever calls fail and in whatever order entries go,
\* nothing leaks, dangles or is shared.
OwnedOnce ==
  /\ DOMAIN heap = Pointers
  /\ Cardinality(Pointers) = 2 * count

\* What the table's memory keeps at every moment.
TableInv == TableTypeOK /\ OwnedOnce

\* The table is a map: a key has one value, the last it was set to.
Entry(k) == CHOOSE i \in At(k) : \A j \in At(k) : i <= j
Map == INSTANCE VarMap WITH
         map <- [k \in {x \in Names : At(x) # {}} |-> heap[items[Entry(k)].val]]
ImplementsMap == Map!Spec
=============================================================================
