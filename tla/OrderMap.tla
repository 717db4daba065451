------------------------------ MODULE OrderMap ------------------------------
(***************************************************************************)
(* What the index of resting orders promises: a map from reference numbers *)
(* to pool nodes.  Module OrderIndex implements it; module L3BookOps uses  *)
(* a map of this kind as the book's index.                                 *)
(***************************************************************************)
CONSTANTS Key, Value, NPOS

VARIABLE map   \* [key -> value or NPOS]

Init == map = [k \in Key |-> NPOS]

Insert(k, v) == map' = [map EXCEPT ![k] = v]

Erase(k) == map' = [map EXCEPT ![k] = NPOS]

Clear == map' = [k \in Key |-> NPOS]

Next ==
  \/ \E k \in Key, v \in Value : Insert(k, v)
  \/ \E k \in Key : Erase(k)
  \/ Clear

Spec == Init /\ [][Next]_map
=============================================================================
