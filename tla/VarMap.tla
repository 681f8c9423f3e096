-------------------------------- MODULE VarMap --------------------------------
(***************************************************************************)
(* What the session's variables promise: a finite map.  A call that runs   *)
(* out of memory changes nothing.  SessionVars implements it.              *)
(***************************************************************************)
CONSTANT Settings  \* what is set: pairs of a name and a value
VARIABLE map

Init == map = [k \in {} |-> {}]

Set(k, v) == map' = [x \in DOMAIN map \union {k} |-> IF x = k THEN v ELSE map[x]]
Unset(k)  == k \in DOMAIN map /\ map' = [x \in DOMAIN map \ {k} |-> map[x]]
Shutdown  == map' = [k \in {} |-> {}]

Next ==
  \/ \E s \in Settings : Set(s[1], s[2])
  \/ \E k \in DOMAIN map : Unset(k)
  \/ Shutdown
Spec == Init /\ [][Next]_map
=============================================================================
