------------------------------ MODULE K12Decode ------------------------------
(***************************************************************************)
(* The instruction decoder (src/cpu/execute.c): the sorted candidate list  *)
(* that k12_build_table makes of the rule table for each 12-bit key, and   *)
(* the choice of a handler by k12_decode_ctx.  A bit pattern is the set of *)
(* its one bits.  The lists of different keys are independent, so a        *)
(* behaviour builds the list of one key and decodes instructions with it.  *)
(***************************************************************************)
EXTENDS Integers, FiniteSets, SequencesExt

CONSTANTS Table,  \* the rule table: K12_TABLE is the program's
          Keys    \* the keys looked at

MAX_PER_KEY == 16

\* k12_entry_t without the name.
Rules == [mask : SUBSET (0 .. 11), value : SUBSET (0 .. 11),
          xmask : SUBSET (0 .. 31), xvalue : SUBSET (0 .. 31), cond : BOOLEAN, fn : STRING]

KeyMatches(i, k) == k \intersect Table[i].mask = Table[i].value

\* What the table means for instructions that run whatever their condition.
Unconditional == {"nop", "wfi", "bkpt", "dsb", "dmb", "isb", "blx_imm", "mcrr2", "mrrc2", "deadbeef"}

\* Rows of the right type, with unconditional handlers as above, and for no
\* key more candidates than its list has room.
ASSUME TableAssumption ==
  /\ Table \in Seq(Rules)
  /\ \A i \in DOMAIN Table :
       Table[i].fn # "none" /\ (Table[i].cond \/ Table[i].fn \in Unconditional)
  /\ \A k \in SUBSET (0 .. 11) :
       Cardinality({i \in DOMAIN Table : KeyMatches(i, k)}) <= MAX_PER_KEY

ASSUME KeysAssumption == Keys \subseteq SUBSET (0 .. 11)  \* 12 bits

Priority(i) == Cardinality(Table[i].mask) + Cardinality(Table[i].xmask)

\* Bits 27:20 and 7:4 of an instruction.
Key12(w) == {b - 16 : b \in w \intersect 20 .. 27} \union {b - 4 : b \in w \intersect 4 .. 7}

ExtraMatches(i, w) ==
  Table[i].xmask # {} => w \intersect Table[i].xmask = Table[i].xvalue

VARIABLES key,       \* the key of this behaviour
          ei,        \* the rows before this one were considered
          list,      \* g_keylist[key]: row numbers
          word, holds, ran  \* the last instruction, whether its condition held, what it ran
decodeVars == <<key, ei, list, word, holds, ran>>

DecodeInit ==
  /\ key \in Keys
  /\ ei = 1 /\ list = <<>>
  /\ word = {} /\ holds = FALSE /\ ran = "none"

-----------------------------------------------------------------------------
\* From the back, the rows of a lower priority move on by one; a full list
\* loses its last.
Place(l, i) ==
  LET Stays(n) == \E m \in n .. Len(l) : Priority(l[m]) >= Priority(i)
      len == IF Len(l) < MAX_PER_KEY THEN Len(l) + 1 ELSE MAX_PER_KEY
  IN  [n \in 1 .. len |-> CASE Stays(n) -> l[n]
                            [] ~Stays(n) /\ (n = 1 \/ Stays(n - 1)) -> i
                            [] OTHER -> l[n - 1]]

Remaining == {i \in ei .. Len(Table) : KeyMatches(i, key)}
Built == Remaining = {}

Build ==
  /\ ~Built
  /\ LET i == CHOOSE i \in Remaining : \A j \in Remaining : i <= j
     IN  list' = Place(list, i) /\ ei' = i + 1
  /\ UNCHANGED <<key, word, holds, ran>>

AL == {31, 30, 29}
NV == {31, 30, 29, 28}
Cond(w) == w \intersect 28 .. 31

\* arm_condition_holds, h being what the flags say of other conditions.
ConditionHolds(w, h) == Cond(w) # NV /\ h

\* What one matching candidate makes of the instruction.
Handler(i, w, h) ==
  IF Table[i].cond /\ Cond(w) # AL /\ ~ConditionHolds(w, h) THEN "nop" ELSE Table[i].fn

\* Mutant: the last candidate that fits decides.
DecodeWithLast(l, w, h) ==
  LET Fits == {n \in DOMAIN l : ExtraMatches(l[n], w)}
  IN  IF Fits = {} THEN "unknown"
      ELSE Handler(l[CHOOSE n \in Fits : \A m \in Fits : n >= m], w, h)

\* The first candidate whose extra mask fits decides; none is an unknown instruction.
DecodeWith(l, w, h) ==
  LET Fits == {n \in DOMAIN l : ExtraMatches(l[n], w)}
  IN  IF Fits = {} THEN "unknown"
      ELSE Handler(l[CHOOSE n \in Fits : \A m \in Fits : n <= m], w, h)

\* Instructions with this key: for each row that could match, its own extra
\* bits and some filling of the others; and one with no other bit.
Samples ==
  LET InKey == {b + 16 : b \in key \intersect 4 .. 11} \union {b + 4 : b \in key \intersect 0 .. 3}
      Free == (0 .. 3) \union (8 .. 19)
      Fill(i, ones) == Free \intersect (Table[i].xvalue \union (ones \ Table[i].xmask))
  IN  {InKey \union AL} \union {InKey \union Fill(i, ones) \union c :
         i \in ToSet(list), ones \in {{}, Free, 12 .. 15}, c \in {AL, NV, {}}}

Decode ==
  /\ Built
  /\ \E w \in Samples, h \in BOOLEAN :
       /\ ran' = DecodeWith(list, w, h)
       /\ word' = w /\ holds' = h
  /\ UNCHANGED <<key, ei, list>>

DecodeNext == Build \/ Decode
DecodeSpec == DecodeInit /\ [][DecodeNext]_decodeVars

-----------------------------------------------------------------------------
\* The list under construction holds the rows considered so far, by falling
\* priority and in the table's order where priorities are equal.
BestFirst ==
  \A m, n \in DOMAIN list : m < n =>
    \/ Priority(list[m]) > Priority(list[n])
    \/ Priority(list[m]) = Priority(list[n]) /\ list[m] < list[n]

\* No key has more candidates than its list has room: every row that matches
\* the key is in it in the end.
NothingLost == Built => ToSet(list) = {i \in DOMAIN Table : KeyMatches(i, key)}

\* r is what the most specific row of the whole table that matches the word
\* makes of it, the first of several.
IsBest(w, h, r) ==
  LET Fits == {i \in DOMAIN Table : KeyMatches(i, Key12(w)) /\ ExtraMatches(i, w)}
      Better(i, j) == \/ Priority(i) > Priority(j)
                      \/ Priority(i) = Priority(j) /\ i <= j
  IN  \/ Fits = {} /\ r = "unknown"
      \/ \E i \in Fits : (\A j \in Fits : Better(i, j)) /\ r = Handler(i, w, h)

\* The decoder is the rule "the best row of the whole table decides",
\* whatever the key's list left out.
DecodeIsBest == ran # "none" => IsBest(word, holds, ran)

\* An instruction whose condition fails runs nothing but the handlers that
\* the table means for the unconditional space.
ConditionGates ==
  Cond(word) # AL /\ ~ConditionHolds(word, holds) =>
    ran \in Unconditional \union {"none", "unknown"}

\* What the decoder promises at every moment.
DecoderInv == BestFirst /\ NothingLost /\ DecodeIsBest /\ ConditionGates
=============================================================================
