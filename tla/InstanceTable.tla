----------------------------- MODULE InstanceTable -----------------------------
(***************************************************************************)
(* What the instance manager promises: an ordered table of instances, each *)
(* in it at most once, numbered when it enters, with a number no other has *)
(* and that it keeps, like its place relative to the others, until it      *)
(* leaves.                                                                 *)
(***************************************************************************)
EXTENDS Integers

CONSTANTS Instances, Numbers, NoNumber

VARIABLES
    size,     \* how many instances are in the table
    at,       \* the instance at each place
    number    \* the number of each instance, NoNumber outside the table

vars == <<size, at, number>>

Places == 0..(size - 1)
In(i)  == \E k \in Places : at[k] = i
Used   == {number[at[k]] : k \in Places}

Init == size = 0 /\ at = [k \in Places |-> 0] /\ number = [i \in Instances |-> NoNumber]

Enter(i, n) ==
    /\ ~In(i) /\ n \notin Used
    /\ size' = size + 1
    /\ at' = [k \in 0..size |-> IF k = size THEN i ELSE at[k]]
    /\ number' = [number EXCEPT ![i] = n]

Leave(p) ==
    /\ size' = size - 1
    /\ at' = [k \in 0..(size - 2) |-> IF k < p THEN at[k] ELSE at[k + 1]]
    /\ number' = [number EXCEPT ![at[p]] = NoNumber]

Empty == /\ size' = 0 /\ at' = [k \in Places' |-> 0]
         /\ number' = [i \in Instances |-> NoNumber]

Next == \/ \E i \in Instances, n \in Numbers : Enter(i, n)
        \/ \E p \in Places : Leave(p)
        \/ Empty

Spec == Init /\ [][Next]_vars

==============================================================================
