----------------------------- MODULE Dictionary -----------------------------
(***************************************************************************)
(* What a user of hash_table relies on: a map from keys to values.         *)
(***************************************************************************)
CONSTANTS Key, Value

VARIABLE map

Init == map = [k \in {} |-> CHOOSE v \in Value : TRUE]

Put(k, v) == map' = [q \in DOMAIN map \cup {k} |-> IF q = k THEN v ELSE map[q]]

Clear == map' = [k \in {} |-> CHOOSE v \in Value : TRUE]

Next == Clear \/ \E k \in Key, v \in Value : Put(k, v)

Spec == Init /\ [][Next]_map
=============================================================================
