---------------------------- MODULE GenNodeList ----------------------------
(***************************************************************************)
(* The intrusive doubly linked lists of clutils: every node carries its    *)
(* own next and prev, and a list is a ring through a head node.  A heap h  *)
(* holds the links of all nodes and heads of one kind.                     *)
(***************************************************************************)
EXTENDS Naturals, FiniteSets

CONSTANT Null   \* the null pointer

Heap(C) == [next : [C -> C \cup {Null}], prev : [C -> C \cup {Null}]]

Cells(h) == DOMAIN h.next

Linked(h, c) == h.next[c] # Null

(* A node is made with null links, a list with a head linked to itself. *)
NewHeap(N, H) ==
    LET links == [c \in N \cup H |-> IF c \in H THEN c ELSE Null]
    IN [next |-> links, prev |-> links]

(* Fault: the successor keeps pointing back at the node. *)
UnlinkForward(h, c) ==
    [next |-> [d \in Cells(h) |-> IF d = c THEN Null
                                  ELSE IF d = h.prev[c] THEN h.next[c] ELSE h.next[d]],
     prev |-> [h.prev EXCEPT ![c] = Null]]

(* GenericNode::Remove: the neighbours, where there are any, meet. *)
Unlink(h, c) ==
    [next |-> [d \in Cells(h) |-> IF d = c THEN Null
                                  ELSE IF d = h.prev[c] THEN h.next[c] ELSE h.next[d]],
     prev |-> [d \in Cells(h) |-> IF d = c THEN Null
                                  ELSE IF d = h.next[c] THEN h.prev[c] ELSE h.prev[d]]]

LinkBefore(h, c, e) ==
    [next |-> [h.next EXCEPT ![h.prev[e]] = c, ![c] = e],
     prev |-> [h.prev EXCEPT ![c] = h.prev[e], ![e] = c]]

LinkAfter(h, c, e) ==
    [next |-> [h.next EXCEPT ![c] = h.next[e], ![e] = c],
     prev |-> [h.prev EXCEPT ![h.next[e]] = c, ![c] = e]]

(* A node that is on a list is taken off it first. *)
Freed(h, c) == IF Linked(h, c) THEN Unlink(h, c) ELSE h

(* Fault: a node on a list is linked into another one as it is. *)
InsertBeforeLinked(h, c, e) == LinkBefore(h, c, e)

InsertBefore(h, c, e) == LinkBefore(Freed(h, c), c, e)

InsertAfter(h, c, e) == LinkAfter(Freed(h, c), c, e)

(* The cells that following next from hd reaches: what every set that holds *)
(* hd and what follows each of its cells must hold.                         *)
Closed(h, S) == \A c \in S : h.next[c] \in S

Rounds(h, hd) == {S \in SUBSET Cells(h) : hd \in S /\ Closed(h, S)}

Ring(h, hd) == LET rounds == Rounds(h, hd)
               IN {c \in Cells(h) : \A S \in rounds : c \in S}

(* Fault: the nodes keep their links, and only the head forgets them. *)
ClearHead(h, hd) == [next |-> [h.next EXCEPT ![hd] = hd], prev |-> [h.prev EXCEPT ![hd] = hd]]

ClearEntries(h, hd) ==
    LET cleared(f) == [c \in Cells(h) |-> IF c = hd THEN hd
                                          ELSE IF c \in Ring(h, hd) THEN Null ELSE f[c]]
    IN [next |-> cleared(h.next), prev |-> cleared(h.prev)]

(* The links agree both ways, heads stay linked, no head is on another's    *)
(* ring, and whoever is linked is on a ring.                                *)
LinksAgree(h) ==
    \A c \in Cells(h) :
        /\ Linked(h, c) <=> h.prev[c] # Null
        /\ Linked(h, c) => h.prev[h.next[c]] = c /\ h.next[h.prev[c]] = c

HeadsLinked(h, H) == \A hd \in H : Linked(h, hd)

HeadsApart(h, H) == \A hd, other \in H : other \in Ring(h, hd) => other = hd

NoneStray(h, H) == \A c \in Cells(h) : Linked(h, c) => \E hd \in H : c \in Ring(h, hd)

WellLinked(h, H) == LinksAgree(h) /\ HeadsLinked(h, H) /\ HeadsApart(h, H) /\ NoneStray(h, H)
===============================================================================
