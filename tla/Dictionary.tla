------------------------------ MODULE Dictionary ------------------------------
(***************************************************************************)
(* What a hash table promises its clients: a partial map from keys to      *)
(* elements in which an insertion never replaces, a lookup answers what    *)
(* the map holds, and a deletion removes one key.  Growing the table,      *)
(* copying it and walking through it change nothing.                       *)
(***************************************************************************)
CONSTANTS Keys,     \* the keys
          Types,    \* what an element carries
          None      \* no element

VARIABLES map,      \* key -> element or None
          result    \* the answer of the last lookup, insertion or deletion

vars == <<map, result>>

Init == /\ map = [k \in Keys |-> None]
        /\ result = None

Find(k) == /\ result' = map[k]
           /\ UNCHANGED map

(* The element in the way is the answer, and stays. *)
Insert(k, t) == /\ result' = map[k]
                /\ map' = IF map[k] = None THEN [map EXCEPT ![k] = t] ELSE map

Delete(k) == /\ result' = map[k]
             /\ map' = [map EXCEPT ![k] = None]

Clear == /\ map' = [k \in Keys |-> None]
         /\ result' = None

Next == \/ \E k \in Keys : Find(k) \/ Delete(k) \/ \E t \in Types : Insert(k, t)
        \/ Clear

Spec == Init /\ [][Next]_vars
===============================================================================
