------------------------------- MODULE KeyMap -------------------------------
(***************************************************************************)
(* What a dictionary promises: a map from keys to values.  Setting a key   *)
(* replaces its value or adds the key, removing a key that is not there    *)
(* changes nothing, a new dictionary is empty.                             *)
(***************************************************************************)
CONSTANTS Keys, Values

VARIABLE map

Init == map = [k \in {} |-> 0]

Put(k, v) ==
  map' = [j \in DOMAIN map \cup {k} |-> IF j = k THEN v ELSE map[j]]

Remove(k) == map' = [j \in DOMAIN map \ {k} |-> map[j]]

Next ==
  \/ \E k \in Keys, v \in Values : Put(k, v)
  \/ \E k \in Keys : Remove(k)

Spec == Init /\ [][Next]_map
=============================================================================
