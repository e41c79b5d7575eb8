---------------------------- MODULE CommandLists ----------------------------
(***************************************************************************)
(* What the editor's lists of instances promise: each list is a sequence   *)
(* of nodes, a node is on at most one list of a family (its state, or its  *)
(* display), and a command moves one node and disturbs no other.           *)
(***************************************************************************)
EXTENDS Sequences, SequencesExt

CONSTANTS Nodes,        \* the nodes
          StateLists,   \* the lists of states
          DisplayLists  \* the lists of displays

VARIABLE order          \* list -> its nodes, first to last

Families == {StateLists, DisplayLists}

Without(s, n) == IF \E i \in DOMAIN s : s[i] = n
                 THEN RemoveAt(s, CHOOSE i \in DOMAIN s : s[i] = n)
                 ELSE s

(* Node n leaves the list of family F it is on, if any. *)
Left(now, F, n) == [l \in DOMAIN now |-> IF l \in F THEN Without(now[l], n) ELSE now[l]]

Init == order = [l \in UNION Families |-> <<>>]

Move(n, F) ==
    LET left == Left(order, F, n)
    IN \E l \in F : \E i \in 1..(Len(left[l]) + 1) :
           order' = [left EXCEPT ![l] = InsertAt(@, i, n)]

Leave(n, F) == order' = Left(order, F, n)

Clear(l) == order' = [order EXCEPT ![l] = <<>>]

Forget(n) == order' = [l \in UNION Families |-> Without(order[l], n)]

Next == \/ \E n \in Nodes, F \in Families : Move(n, F) \/ Leave(n, F)
        \/ \E n \in Nodes : Forget(n)
        \/ \E l \in UNION Families : Clear(l)

Spec == Init /\ [][Next]_order
===============================================================================
