---------------------------- MODULE EditorProofs ----------------------------
(***************************************************************************)
(* Every list of the editor stays a ring of its own, and the commands on   *)
(* the rings are those of CommandLists on sequences, for any number of     *)
(* nodes and lists.                                                        *)
(***************************************************************************)
EXTENDS Editor, FiniteSetTheorems, InductionLemmas

-----------------------------------------------------------------------------
(* Rings.                                                                  *)

(* The ring of a head is closed, holds the head and nothing but linked     *)
(* cells, and is the smallest closed set that holds the head.              *)
LEMMA RingProperties ==
    ASSUME NEW C, NEW h \in Heap(C), Null \notin C, LinksAgree(h),
           NEW hd \in C, Linked(h, hd)
    PROVE  /\ hd \in Ring(h, hd)
           /\ Ring(h, hd) \subseteq C
           /\ \A c \in Ring(h, hd) : Linked(h, c) /\ h.next[c] \in Ring(h, hd)
           /\ \A S \in SUBSET C : hd \in S /\ Closed(h, S) => Ring(h, hd) \subseteq S
<1>1. Cells(h) = C
  BY DEF Cells, Heap
<1> DEFINE L == {c \in C : Linked(h, c)}
<1>2. L \in Rounds(h, hd)
  <2>1. ASSUME NEW c \in L PROVE h.next[c] \in L
    <3>1. h.next[c] \in C /\ h.prev[h.next[c]] = c
      BY <1>1, <2>1 DEF LinksAgree, Linked, Heap
    <3>2. h.prev[h.next[c]] # Null
      BY <3>1
    <3> QED BY <1>1, <3>1, <3>2 DEF LinksAgree
  <2> QED BY <1>1, <2>1 DEF Rounds, Closed
<1>3. ASSUME NEW c \in Ring(h, hd) PROVE h.next[c] \in Ring(h, hd)
  <2>1. \A S \in Rounds(h, hd) : h.next[c] \in S
    BY <1>3 DEF Ring, Rounds, Closed
  <2>2. h.next[c] \in C
    BY <1>2, <2>1
  <2> QED BY <1>1, <2>1, <2>2 DEF Ring
<1>4. \A S \in SUBSET C : hd \in S /\ Closed(h, S) => Ring(h, hd) \subseteq S
  BY <1>1 DEF Ring, Rounds
<1>5. Ring(h, hd) \subseteq L
  BY <1>2 DEF Ring
<1> QED BY <1>1, <1>3, <1>4, <1>5 DEF Ring, Rounds

(* A finite ring is closed backwards too.                                  *)
LEMMA RingBackwards ==
    ASSUME NEW C, IsFiniteSet(C), NEW h \in Heap(C), Null \notin C, LinksAgree(h),
           NEW hd \in C, Linked(h, hd), NEW c \in Ring(h, hd)
    PROVE  h.prev[c] \in Ring(h, hd)
<1> DEFINE R == Ring(h, hd)
           f == [d \in R |-> h.next[d]]
<1>1. /\ hd \in R /\ R \subseteq C
      /\ \A d \in R : Linked(h, d) /\ h.next[d] \in R
  BY RingProperties
<1>2. IsFiniteSet(R)
  BY <1>1, FS_Subset
<1>3. \A d \in R : h.prev[h.next[d]] = d
  BY <1>1 DEF LinksAgree, Linked, Cells, Heap
<1>4. f \in Injection(R, R)
  BY <1>1, <1>3 DEF Injection, IsInjective
<1>5. f \in Surjection(R, R)
  BY <1>2, <1>4, FS_Injection
<1>6. PICK d \in R : f[d] = c
  BY <1>5 DEF Surjection
<1> QED BY <1>3, <1>6

(* Two rings whose heads are apart have nothing in common.                 *)
LEMMA RingsDisjoint ==
    ASSUME NEW C, IsFiniteSet(C), NEW h \in Heap(C), Null \notin C, NEW H \in SUBSET C,
           LinksAgree(h), HeadsLinked(h, H), HeadsApart(h, H),
           NEW hd \in H, NEW other \in H, NEW c \in Ring(h, hd), c \in Ring(h, other)
    PROVE  hd = other
<1> DEFINE R == Ring(h, hd)
           O == Ring(h, other)
           S == R \ O
<1> SUFFICES ASSUME hd # other PROVE FALSE
  OBVIOUS
<1>1. Linked(h, hd) /\ Linked(h, other)
  BY DEF HeadsLinked
<1>2. hd \in R /\ R \subseteq C /\ \A d \in R : Linked(h, d) /\ h.next[d] \in R
  BY <1>1, RingProperties
<1>3. hd \notin O
  BY DEF HeadsApart
<1>4. \A d \in O : h.prev[d] \in O
  BY <1>1, RingBackwards
<1>5. \A d \in R : h.prev[h.next[d]] = d
  BY <1>2 DEF LinksAgree, Linked, Cells, Heap
<1>6. Closed(h, S)
  BY <1>2, <1>4, <1>5 DEF Closed
<1>7. hd \in S /\ S \in SUBSET C
  BY <1>2, <1>3
<1> HIDE DEF S
<1>8. R \subseteq S
  BY <1>1, <1>6, <1>7, RingProperties
<1> QED BY <1>8 DEF S

-----------------------------------------------------------------------------
(* Taking a node off, putting it on, clearing.                             *)

(* Unlink leaves a well linked heap without the node, and changes who is   *)
(* linked for nobody else.                                                 *)
LEMMA UnlinkKeeps ==
    ASSUME NEW C, IsFiniteSet(C), Null \notin C, NEW H \in SUBSET C,
           NEW h \in Heap(C), WellLinked(h, H), NEW c \in C \ H
    PROVE  /\ Unlink(h, c) \in Heap(C)
           /\ WellLinked(Unlink(h, c), H)
           /\ \A d \in C : Linked(Unlink(h, c), d) <=> d # c /\ Linked(h, d)
<1> DEFINE u == Unlink(h, c)
<1>1. Cells(h) = C
  BY DEF Cells, Heap
<1>2. /\ u \in Heap(C)
      /\ \A d \in C : /\ u.next[d] = IF d = c THEN Null
                                     ELSE IF d = h.prev[c] THEN h.next[c] ELSE h.next[d]
                      /\ u.prev[d] = IF d = c THEN Null
                                     ELSE IF d = h.next[c] THEN h.prev[c] ELSE h.prev[d]
  BY <1>1 DEF Unlink, Heap
<1>3. Cells(u) = C
  BY <1>2 DEF Cells, Heap
<1> HIDE DEF u
<1>4. /\ \A d \in C : h.next[d] \in C \cup {Null} /\ h.prev[d] \in C \cup {Null}
      /\ \A d \in C : h.next[d] # Null <=> h.prev[d] # Null
      /\ \A d \in C : h.next[d] # Null => h.prev[h.next[d]] = d /\ h.next[h.prev[d]] = d
  BY <1>1 DEF WellLinked, LinksAgree, Linked, Heap
<1>5. \A d \in C : Linked(u, d) <=> d # c /\ Linked(h, d)
  BY <1>2, <1>4 DEF Linked
<1>6. \A d \in C : u.next[d] # Null <=> u.prev[d] # Null
  BY <1>2, <1>4
<1>7. ASSUME NEW d \in C, u.next[d] # Null
      PROVE  u.prev[u.next[d]] = d /\ u.next[u.prev[d]] = d
  <2>1. d # c /\ u.prev[d] # Null
    BY <1>2, <1>6, <1>7
  <2>2. u.prev[u.next[d]] = d
    BY <1>2, <1>4, <1>7, <2>1
  <2>3. u.next[u.prev[d]] = d
    BY <1>2, <1>4, <1>7, <2>1
  <2> QED BY <2>2, <2>3
<1>8. LinksAgree(u)
  BY <1>3, <1>6, <1>7 DEF LinksAgree, Linked
<1>9. HeadsLinked(u, H) /\ HeadsLinked(h, H)
  BY <1>5 DEF WellLinked, HeadsLinked
<1>10. LinksAgree(h)
  BY DEF WellLinked
<1>11. ASSUME NEW hd \in H PROVE Ring(u, hd) = Ring(h, hd) \ {c}
  <2> DEFINE R == Ring(h, hd)
             U == Ring(u, hd)
  <2>1. Linked(h, hd) /\ Linked(u, hd)
    BY <1>9 DEF HeadsLinked
  <2>2. /\ hd \in R /\ R \subseteq C /\ \A d \in R : Linked(h, d) /\ h.next[d] \in R
        /\ \A S \in SUBSET C : hd \in S /\ Closed(h, S) => R \subseteq S
    BY <2>1, <1>10, RingProperties
  <2>3. /\ hd \in U /\ U \subseteq C /\ \A d \in U : Linked(u, d) /\ u.next[d] \in U
        /\ \A S \in SUBSET C : hd \in S /\ Closed(u, S) => U \subseteq S
    BY <2>1, <1>2, <1>8, RingProperties
  <2> HIDE DEF R, U
  <2>4. U \subseteq R \ {c}
    <3>1. ASSUME NEW d \in R \ {c} PROVE u.next[d] \in R \ {c}
      <4>1. Linked(h, d) /\ h.next[d] \in R /\ d \in C
        BY <2>2, <3>1
      <4>2. CASE d = h.prev[c]
        <5>1. h.next[d] = c
          BY <1>4, <4>1, <4>2 DEF Linked
        <5>2. u.next[d] = h.next[c] /\ h.next[c] \in R /\ c \in R
          BY <1>2, <2>2, <3>1, <4>1, <4>2, <5>1
        <5>3. h.next[c] # c
          BY <1>4, <4>2, <3>1, <5>2, <2>2 DEF Linked
        <5> QED BY <5>2, <5>3
      <4>3. CASE d # h.prev[c]
        <5>1. u.next[d] = h.next[d] /\ h.next[d] # c
          BY <1>2, <1>4, <3>1, <4>1, <4>3 DEF Linked
        <5> QED BY <4>1, <5>1
      <4> QED BY <4>2, <4>3
    <3>2. hd \in R \ {c} /\ R \ {c} \in SUBSET C
      BY <2>2
    <3> QED BY <2>3, <3>1, <3>2 DEF Closed
  <2>5. R \subseteq U \cup {c}
    <3>1. CASE h.prev[c] \in U
      <4>1. ASSUME NEW d \in U \cup {c} PROVE h.next[d] \in U \cup {c}
        <5>1. CASE d = c
          <6>1. u.next[h.prev[c]] = h.next[c]
            BY <1>2, <2>3, <3>1, <2>4
          <6> QED BY <2>3, <3>1, <5>1, <6>1
        <5>2. CASE d # c /\ d = h.prev[c]
          <6>1. d \in C /\ Linked(u, d)
            BY <2>3, <4>1, <5>2
          <6>2. h.prev[c] # Null
            BY <6>1, <5>2
          <6>3. h.next[d] = c
            BY <1>4, <5>2, <6>2
          <6> QED BY <6>3
        <5>3. CASE d # c /\ d # h.prev[c]
          <6>1. d \in U /\ u.next[d] = h.next[d]
            BY <1>2, <2>3, <4>1, <5>3
          <6> QED BY <2>3, <6>1
        <5> QED BY <5>1, <5>2, <5>3
      <4>2. Closed(h, U \cup {c})
        BY <4>1 DEF Closed
      <4>3. hd \in U \cup {c} /\ U \cup {c} \in SUBSET C
        BY <2>3
      <4> QED BY <2>2, <4>2, <4>3
    <3>2. CASE h.prev[c] \notin U
      <4>1. \A d \in U : d # c /\ d # h.prev[c] /\ u.next[d] = h.next[d]
        BY <1>2, <2>3, <2>4, <3>2
      <4>2. Closed(h, U)
        BY <2>3, <4>1 DEF Closed
      <4> QED BY <2>2, <2>3, <4>2
    <3> QED BY <3>1, <3>2
  <2>6. U = R \ {c}
    BY <2>4, <2>5
  <2> QED BY <2>6 DEF R, U
<1>12. HeadsApart(u, H)
  BY <1>11 DEF WellLinked, HeadsApart
<1>13. NoneStray(u, H)
  BY <1>1, <1>3, <1>5, <1>11 DEF WellLinked, NoneStray
<1> QED BY <1>2, <1>5, <1>8, <1>9, <1>12, <1>13 DEF u, WellLinked

(* A node linked nowhere, put before a cell that is linked, is on the ring *)
(* of that cell, and nothing else changes.                                 *)
LEMMA LinkBeforeKeeps ==
    ASSUME NEW C, IsFiniteSet(C), Null \notin C, NEW H \in SUBSET C,
           NEW h \in Heap(C), WellLinked(h, H), NEW c \in C \ H, ~Linked(h, c),
           NEW e \in C, Linked(h, e)
    PROVE  /\ LinkBefore(h, c, e) \in Heap(C)
           /\ WellLinked(LinkBefore(h, c, e), H)
           /\ \A d \in C : Linked(LinkBefore(h, c, e), d) <=> d = c \/ Linked(h, d)
<1> DEFINE b == LinkBefore(h, c, e)
           p == h.prev[e]
<1>1. Cells(h) = C
  BY DEF Cells, Heap
<1>2. /\ \A d \in C : h.next[d] \in C \cup {Null} /\ h.prev[d] \in C \cup {Null}
      /\ \A d \in C : h.next[d] # Null <=> h.prev[d] # Null
      /\ \A d \in C : h.next[d] # Null => h.prev[h.next[d]] = d /\ h.next[h.prev[d]] = d
  BY <1>1 DEF WellLinked, LinksAgree, Linked, Heap
<1>3. p \in C /\ p # c /\ h.next[p] = e /\ e # c
  BY <1>2 DEF Linked
<1>4. /\ b \in Heap(C)
      /\ \A d \in C : /\ b.next[d] = IF d = c THEN e ELSE IF d = p THEN c ELSE h.next[d]
                      /\ b.prev[d] = IF d = e THEN c ELSE IF d = c THEN p ELSE h.prev[d]
  BY <1>3 DEF LinkBefore, Heap
<1>5. Cells(b) = C
  BY <1>4 DEF Cells, Heap
<1> HIDE DEF b, p
<1>6. \A d \in C : Linked(b, d) <=> d = c \/ Linked(h, d)
  BY <1>2, <1>3, <1>4 DEF Linked
<1>7. \A d \in C : b.next[d] # Null <=> b.prev[d] # Null
  BY <1>2, <1>3, <1>4 DEF Linked
<1>8. ASSUME NEW d \in C, b.next[d] # Null
      PROVE  b.prev[b.next[d]] = d /\ b.next[b.prev[d]] = d
  <2>1. b.prev[b.next[d]] = d
    <3>1. CASE d = c \/ d = p
      BY <1>3, <1>4, <3>1
    <3>2. CASE d # c /\ d # p
      <4>1. b.next[d] = h.next[d] /\ h.next[d] \in C /\ h.prev[h.next[d]] = d
        BY <1>2, <1>4, <1>8, <3>2
      <4>2. h.next[d] # e /\ h.next[d] # c
        BY <1>2, <1>8, <3>2, <4>1 DEF p, Linked
      <4> QED BY <1>4, <4>1, <4>2
    <3> QED BY <3>1, <3>2
  <2>2. b.next[b.prev[d]] = d
    <3>1. CASE d = c \/ d = e
      BY <1>3, <1>4, <3>1
    <3>2. CASE d # c /\ d # e
      <4>1. b.prev[d] = h.prev[d] /\ h.prev[d] \in C /\ h.next[h.prev[d]] = d
        BY <1>2, <1>4, <1>7, <1>8, <3>2
      <4>2. h.prev[d] # p /\ h.prev[d] # c
        BY <1>3, <1>2, <1>8, <3>2, <4>1 DEF Linked
      <4> QED BY <1>4, <4>1, <4>2
    <3> QED BY <3>1, <3>2
  <2> QED BY <2>1, <2>2
<1>9. LinksAgree(b)
  BY <1>5, <1>7, <1>8 DEF LinksAgree, Linked
<1>10. HeadsLinked(b, H) /\ HeadsLinked(h, H) /\ LinksAgree(h)
  BY <1>6 DEF WellLinked, HeadsLinked
<1>11. ASSUME NEW hd \in H
       PROVE  /\ Ring(b, hd) \subseteq Ring(h, hd) \cup {c}
              /\ Ring(h, hd) \subseteq Ring(b, hd)
              /\ e \in Ring(h, hd) => c \in Ring(b, hd)
  <2> DEFINE R == Ring(h, hd)
             B == Ring(b, hd)
  <2>1. Linked(h, hd) /\ Linked(b, hd)
    BY <1>10 DEF HeadsLinked
  <2>2. /\ hd \in R /\ R \subseteq C /\ \A d \in R : Linked(h, d) /\ h.next[d] \in R
        /\ \A S \in SUBSET C : hd \in S /\ Closed(h, S) => R \subseteq S
    BY <2>1, <1>10, RingProperties
  <2>3. /\ hd \in B /\ B \subseteq C /\ \A d \in B : Linked(b, d) /\ b.next[d] \in B
        /\ \A S \in SUBSET C : hd \in S /\ Closed(b, S) => B \subseteq S
    BY <2>1, <1>4, <1>9, RingProperties
  <2>4. \A d \in R : h.prev[d] \in R
    BY <2>1, <1>10, RingBackwards
  <2> HIDE DEF R, B
  <2>5. B \subseteq R \cup {c}
    <3>1. CASE e \in R
      <4>1. Closed(b, R \cup {c})
        BY <1>4, <2>2, <3>1 DEF Closed
      <4>2. hd \in R \cup {c} /\ R \cup {c} \in SUBSET C
        BY <2>2
      <4> QED BY <2>3, <4>1, <4>2
    <3>2. CASE e \notin R
      <4>1. \A d \in R : d # p /\ d # c
        BY <1>3, <2>2, <3>2
      <4>2. Closed(b, R)
        BY <1>4, <2>2, <4>1 DEF Closed
      <4> QED BY <2>2, <2>3, <4>2
    <3> QED BY <3>1, <3>2
  <2>6. R \subseteq B
    <3>1. ASSUME NEW d \in B \ {c} PROVE h.next[d] \in B \ {c}
      <4>1. d \in C /\ Linked(h, d)
        BY <1>6, <2>3, <3>1
      <4>2. h.next[d] # c
        BY <1>2, <4>1 DEF Linked
      <4>3. CASE d = p
        <5>1. c \in B
          BY <1>4, <2>3, <4>1, <4>3, <3>1
        <5> QED BY <1>3, <1>4, <2>3, <4>3, <5>1
      <4>4. CASE d # p
        BY <1>4, <2>3, <3>1, <4>1, <4>2, <4>4
      <4> QED BY <4>3, <4>4
    <3>2. Closed(h, B \ {c})
      BY <3>1 DEF Closed
    <3>3. hd \in B \ {c} /\ B \ {c} \in SUBSET C
      BY <2>3
    <3> QED BY <2>2, <3>2, <3>3
  <2>7. ASSUME e \in R PROVE c \in B
    <3>1. p \in R
      BY <2>4, <2>7 DEF p
    <3>2. p \in B /\ b.next[p] = c
      BY <1>3, <1>4, <2>6, <3>1
    <3> QED BY <2>3, <3>2
  <2> QED BY <2>5, <2>6, <2>7 DEF R, B
<1>12. HeadsApart(b, H)
  BY <1>11 DEF WellLinked, HeadsApart
<1>13. NoneStray(b, H)
  <2>1. \A d \in C : Linked(h, d) => \E hd \in H : d \in Ring(h, hd)
    BY <1>1 DEF WellLinked, NoneStray
  <2>2. ASSUME NEW d \in C, Linked(b, d) PROVE \E hd \in H : d \in Ring(b, hd)
    BY <1>6, <1>11, <2>1, <2>2
  <2> QED BY <1>5, <2>2 DEF NoneStray
<1> QED BY <1>4, <1>6, <1>9, <1>10, <1>12, <1>13 DEF b, WellLinked

(* After e is before what follows e.                                       *)
LEMMA LinkAfterKeeps ==
    ASSUME NEW C, IsFiniteSet(C), Null \notin C, NEW H \in SUBSET C,
           NEW h \in Heap(C), WellLinked(h, H), NEW c \in C \ H, ~Linked(h, c),
           NEW e \in C, Linked(h, e)
    PROVE  /\ LinkAfter(h, c, e) \in Heap(C)
           /\ WellLinked(LinkAfter(h, c, e), H)
           /\ \A d \in C : Linked(LinkAfter(h, c, e), d) <=> d = c \/ Linked(h, d)
<1> DEFINE f == h.next[e]
<1>1. /\ \A d \in C : h.next[d] # Null <=> h.prev[d] # Null
      /\ \A d \in C : h.next[d] # Null => h.prev[h.next[d]] = d /\ h.next[h.prev[d]] = d
  BY DEF WellLinked, LinksAgree, Linked, Heap, Cells
<1>2. f \in C /\ h.prev[f] = e /\ e # c /\ f # c /\ Linked(h, f)
  BY <1>1 DEF Linked, Heap
<1>3. LinkAfter(h, c, e) = LinkBefore(h, c, f)
  BY <1>2 DEF LinkAfter, LinkBefore, Heap
<1> HIDE DEF f
<1> QED BY <1>2, <1>3, LinkBeforeKeeps

(* A node goes from wherever it is to its place next to e.                 *)
LEMMA InsertKeeps ==
    ASSUME NEW C, IsFiniteSet(C), Null \notin C, NEW H \in SUBSET C,
           NEW h \in Heap(C), WellLinked(h, H), NEW c \in C \ H,
           NEW e \in C, Linked(h, e), e # c,
           NEW k \in {InsertBefore(h, c, e), InsertAfter(h, c, e)}
    PROVE  /\ k \in Heap(C) /\ WellLinked(k, H)
           /\ \A d \in C : Linked(k, d) <=> d = c \/ Linked(h, d)
<1> DEFINE f == Freed(h, c)
<1>1. /\ f \in Heap(C) /\ WellLinked(f, H)
      /\ \A d \in C : Linked(f, d) <=> d # c /\ Linked(h, d)
  <2>1. CASE Linked(h, c)
    BY <2>1, UnlinkKeeps DEF Freed
  <2>2. CASE ~Linked(h, c)
    BY <2>2 DEF Freed
  <2> QED BY <2>1, <2>2
<1>2. k = LinkBefore(f, c, e) \/ k = LinkAfter(f, c, e)
  BY DEF InsertBefore, InsertAfter
<1> HIDE DEF f
<1>3. ~Linked(f, c) /\ Linked(f, e)
  BY <1>1
<1>4. CASE k = LinkBefore(f, c, e)
  BY <1>1, <1>3, <1>4, LinkBeforeKeeps
<1>5. CASE k = LinkAfter(f, c, e)
  BY <1>1, <1>3, <1>5, LinkAfterKeeps
<1> QED BY <1>2, <1>4, <1>5

(* MgrNode::ChangeList takes the node off by itself before the list does.  *)
LEMMA ChangeListKeeps ==
    ASSUME NEW C, IsFiniteSet(C), Null \notin C, NEW H \in SUBSET C,
           NEW h \in Heap(C), WellLinked(h, H), NEW c \in C \ H, NEW hd \in H
    PROVE  /\ InsertBefore(Unlink(h, c), c, hd) \in Heap(C)
           /\ WellLinked(InsertBefore(Unlink(h, c), c, hd), H)
           /\ \A d \in C : Linked(InsertBefore(Unlink(h, c), c, hd), d) <=> d = c \/ Linked(h, d)
<1> DEFINE u == Unlink(h, c)
<1>1. /\ u \in Heap(C) /\ WellLinked(u, H)
      /\ \A d \in C : Linked(u, d) <=> d # c /\ Linked(h, d)
  BY UnlinkKeeps
<1> HIDE DEF u
<1>2. Linked(u, hd) /\ hd # c
  BY <1>1 DEF WellLinked, HeadsLinked
<1>3. /\ InsertBefore(u, c, hd) \in Heap(C) /\ WellLinked(InsertBefore(u, c, hd), H)
      /\ \A d \in C : Linked(InsertBefore(u, c, hd), d) <=> d = c \/ Linked(u, d)
  BY <1>1, <1>2, InsertKeeps
<1> QED BY <1>1, <1>3 DEF u

(* Clearing a list leaves its nodes linked nowhere and the other lists as  *)
(* they are.                                                               *)
LEMMA ClearKeeps ==
    ASSUME NEW C, IsFiniteSet(C), Null \notin C, NEW H \in SUBSET C,
           NEW h \in Heap(C), WellLinked(h, H), NEW hd \in H
    PROVE  /\ ClearEntries(h, hd) \in Heap(C)
           /\ WellLinked(ClearEntries(h, hd), H)
           /\ \A d \in C : Linked(ClearEntries(h, hd), d) => Linked(h, d)
<1> DEFINE k == ClearEntries(h, hd)
           R == Ring(h, hd)
<1>1. Cells(h) = C
  BY DEF Cells, Heap
<1>2. /\ k \in Heap(C)
      /\ \A d \in C : /\ k.next[d] = IF d = hd THEN hd ELSE IF d \in R THEN Null ELSE h.next[d]
                      /\ k.prev[d] = IF d = hd THEN hd ELSE IF d \in R THEN Null ELSE h.prev[d]
  BY <1>1 DEF ClearEntries, Heap
<1>3. Cells(k) = C
  BY <1>2 DEF Cells, Heap
<1> HIDE DEF k
<1>4. LinksAgree(h) /\ HeadsLinked(h, H) /\ HeadsApart(h, H)
  BY DEF WellLinked
<1>5. Linked(h, hd)
  BY <1>4 DEF HeadsLinked
<1>6. hd \in R /\ R \subseteq C /\ \A d \in R : h.next[d] \in R /\ h.prev[d] \in R
  BY <1>4, <1>5, RingProperties, RingBackwards
<1> HIDE DEF R
<1>7. /\ \A d \in C : h.next[d] \in C \cup {Null} /\ h.prev[d] \in C \cup {Null}
      /\ \A d \in C : h.next[d] # Null <=> h.prev[d] # Null
      /\ \A d \in C : h.next[d] # Null => h.prev[h.next[d]] = d /\ h.next[h.prev[d]] = d
  BY <1>1, <1>4 DEF LinksAgree, Linked, Heap
<1>8. \A d \in C : Linked(k, d) <=> d = hd \/ (d \notin R /\ Linked(h, d))
  BY <1>2 DEF Linked
<1>9. LinksAgree(k)
  <2>1. \A d \in C : k.next[d] # Null <=> k.prev[d] # Null
    BY <1>2, <1>7
  <2>2. ASSUME NEW d \in C, k.next[d] # Null
        PROVE  k.prev[k.next[d]] = d /\ k.next[k.prev[d]] = d
    <3>1. CASE d = hd
      BY <1>2, <3>1
    <3>2. CASE d # hd
      <4>1. d \notin R /\ k.next[d] = h.next[d] /\ k.prev[d] = h.prev[d] /\ h.next[d] # Null
        BY <1>2, <2>2, <3>2
      <4>2. h.next[d] \in C \ R /\ h.prev[d] \in C \ R
        BY <1>6, <1>7, <4>1
      <4> QED BY <1>2, <1>6, <1>7, <4>1, <4>2
    <3> QED BY <3>1, <3>2
  <2> QED BY <1>3, <2>1, <2>2 DEF LinksAgree, Linked
<1>10. ASSUME NEW other \in H, other # hd
       PROVE  Linked(k, other) /\ Ring(k, other) = Ring(h, other)
  <2> DEFINE O == Ring(h, other)
             K == Ring(k, other)
  <2>1. \A d \in O : d \notin R
    BY <1>4, <1>10, RingsDisjoint DEF R
  <2>2. Linked(h, other)
    BY <1>4 DEF HeadsLinked
  <2>3. /\ other \in O /\ O \subseteq C /\ \A d \in O : h.next[d] \in O
        /\ \A S \in SUBSET C : other \in S /\ Closed(h, S) => O \subseteq S
    BY <1>4, <2>2, RingProperties
  <2>4. Linked(k, other)
    BY <1>8, <2>1, <2>2, <2>3
  <2>5. /\ other \in K /\ K \subseteq C /\ \A d \in K : k.next[d] \in K
        /\ \A S \in SUBSET C : other \in S /\ Closed(k, S) => K \subseteq S
    BY <1>2, <1>9, <2>4, RingProperties
  <2> HIDE DEF O, K
  <2>6. \A d \in O : k.next[d] = h.next[d]
    BY <1>2, <1>6, <2>1, <2>3
  <2>7. K \subseteq O
    <3>1. Closed(k, O)
      BY <2>3, <2>6 DEF Closed
    <3> QED BY <2>3, <2>5, <3>1
  <2>8. O \subseteq K
    <3>1. Closed(h, K)
      BY <2>5, <2>6, <2>7 DEF Closed
    <3> QED BY <2>3, <2>5, <3>1
  <2> QED BY <2>4, <2>7, <2>8 DEF O, K
<1>11. Linked(k, hd) /\ Ring(k, hd) = {hd}
  <2>1. k.next[hd] = hd /\ Linked(k, hd)
    BY <1>2 DEF Linked
  <2>2. hd \in Ring(k, hd) /\ \A S \in SUBSET C : hd \in S /\ Closed(k, S) => Ring(k, hd) \subseteq S
    BY <1>2, <1>9, <2>1, RingProperties
  <2>3. Closed(k, {hd}) /\ {hd} \in SUBSET C
    BY <2>1 DEF Closed
  <2>4. Ring(k, hd) \subseteq {hd}
    BY <2>2, <2>3
  <2> QED BY <2>1, <2>2, <2>4
<1>12. HeadsLinked(k, H)
  BY <1>10, <1>11 DEF HeadsLinked
<1>13. HeadsApart(k, H)
  BY <1>4, <1>10, <1>11 DEF HeadsApart
<1>14. NoneStray(k, H)
  <2>1. \A d \in C : Linked(h, d) => \E other \in H : d \in Ring(h, other)
    BY <1>1 DEF WellLinked, NoneStray
  <2>2. ASSUME NEW d \in C, Linked(k, d) PROVE \E other \in H : d \in Ring(k, other)
    <3>1. CASE d = hd
      BY <1>11, <3>1
    <3>2. CASE d # hd
      <4>1. d \notin R /\ Linked(h, d)
        BY <1>8, <2>2, <3>2
      <4>2. PICK other \in H : d \in Ring(h, other)
        BY <2>1, <4>1
      <4>3. other # hd
        BY <4>1, <4>2 DEF R
      <4> QED BY <1>10, <4>2, <4>3
    <3> QED BY <3>1, <3>2
  <2> QED BY <1>3, <2>2 DEF NoneStray
<1>15. \A d \in C : Linked(k, d) => Linked(h, d)
  BY <1>5, <1>8
<1> QED BY <1>2, <1>9, <1>12, <1>13, <1>14, <1>15 DEF k, WellLinked

(* Heads alone, nodes linked nowhere.                                      *)
LEMMA NewHeapWellLinked ==
    ASSUME NEW N, NEW H, Null \notin N \cup H, N \cap H = {}
    PROVE  /\ NewHeap(N, H) \in Heap(N \cup H)
           /\ WellLinked(NewHeap(N, H), H)
           /\ \A n \in N : ~Linked(NewHeap(N, H), n)
<1> DEFINE h == NewHeap(N, H)
           C == N \cup H
<1>1. /\ h \in Heap(C)
      /\ \A c \in C : /\ h.next[c] = IF c \in H THEN c ELSE Null
                      /\ h.prev[c] = IF c \in H THEN c ELSE Null
  BY DEF NewHeap, Heap
<1>2. Cells(h) = C
  BY <1>1 DEF Cells, Heap
<1> HIDE DEF h
<1>3. LinksAgree(h) /\ HeadsLinked(h, H)
  BY <1>1, <1>2 DEF LinksAgree, HeadsLinked, Linked
<1>4. ASSUME NEW hd \in H PROVE Ring(h, hd) = {hd}
  <2>1. Linked(h, hd)
    BY <1>3 DEF HeadsLinked
  <2>2. hd \in Ring(h, hd) /\ \A S \in SUBSET C : hd \in S /\ Closed(h, S) => Ring(h, hd) \subseteq S
    BY <1>1, <1>3, <2>1, RingProperties
  <2>3. Closed(h, {hd}) /\ {hd} \in SUBSET C
    BY <1>1 DEF Closed
  <2> QED BY <2>2, <2>3
<1>5. HeadsApart(h, H)
  BY <1>4 DEF HeadsApart
<1>6. NoneStray(h, H)
  BY <1>1, <1>2, <1>4 DEF NoneStray, Linked
<1>7. \A n \in N : ~Linked(h, n)
  BY <1>1 DEF Linked
<1> QED BY <1>1, <1>3, <1>5, <1>6, <1>7 DEF h, WellLinked

-----------------------------------------------------------------------------
(* The editor.                                                             *)

StateCells == Nodes \cup StateLists

DisplayCells == Nodes \cup DisplayLists

LinkTypes == /\ live \subseteq Nodes
             /\ states \in Heap(StateCells)
             /\ displays \in Heap(DisplayCells)
             /\ displayState \in [Nodes -> DisplayStates \cup {Null}]

IInv == LinkTypes /\ ListsWellLinked /\ DestroyedIsOffLists

(* What the assumption on the constants says of the cells.                 *)
LEMMA CellsAreFinite ==
    /\ IsFiniteSet(StateCells) /\ Null \notin StateCells
    /\ StateLists \in SUBSET StateCells
    /\ IsFiniteSet(DisplayCells) /\ Null \notin DisplayCells
    /\ DisplayLists \in SUBSET DisplayCells
    /\ \A n \in Nodes : n \in StateCells \ StateLists /\ n \in DisplayCells \ DisplayLists
    /\ Null \notin DisplayStates
  BY NodesAssumption, FS_Union DEF StateCells, DisplayCells, DisplayStates

(* The editor starts with empty lists.                                     *)
LEMMA InitKeeps == ASSUME Init PROVE IInv
<1>1. /\ NewHeap(Nodes, StateLists) \in Heap(StateCells)
      /\ WellLinked(NewHeap(Nodes, StateLists), StateLists)
      /\ \A n \in Nodes : ~Linked(NewHeap(Nodes, StateLists), n)
  BY NodesAssumption, NewHeapWellLinked DEF StateCells
<1>2. /\ NewHeap(Nodes, DisplayLists) \in Heap(DisplayCells)
      /\ WellLinked(NewHeap(Nodes, DisplayLists), DisplayLists)
      /\ \A n \in Nodes : ~Linked(NewHeap(Nodes, DisplayLists), n)
  BY NodesAssumption, NewHeapWellLinked DEF DisplayCells
<1> QED BY <1>1, <1>2 DEF Init, IInv, LinkTypes, ListsWellLinked, DestroyedIsOffLists

(* A step that moves nodes on lists of states only.                        *)
LEMMA StatesKeep ==
    ASSUME IInv, UNCHANGED <<live, displays, displayState>>,
           states' \in Heap(StateCells), WellLinked(states', StateLists),
           \A n \in Nodes : Linked(states', n) => n \in live \/ Linked(states, n)
    PROVE  IInv'
  BY DEF IInv, LinkTypes, ListsWellLinked, DestroyedIsOffLists

(* Commands on the lists of states.                                        *)
LEMMA StateStepKeeps == ASSUME IInv, StateStep PROVE IInv'
<1>1. /\ states \in Heap(StateCells) /\ WellLinked(states, StateLists)
      /\ \A n \in Nodes : n \in StateCells
  BY DEF IInv, LinkTypes, ListsWellLinked, StateCells
<1>2. ASSUME NEW n \in Nodes, NEW l \in StateLists, ChangeStateList(n, l) PROVE IInv'
  <2>1. /\ states' \in Heap(StateCells) /\ WellLinked(states', StateLists)
        /\ \A d \in StateCells : Linked(states', d) <=> d = n \/ Linked(states, d)
    <3>1. states' = InsertBefore(Unlink(states, n), n, l)
      BY <1>2 DEF ChangeStateList
    <3>2. n \in StateCells \ StateLists /\ StateLists \in SUBSET StateCells
      BY CellsAreFinite
    <3> QED BY <1>1, <3>1, <3>2, CellsAreFinite, ChangeListKeeps
  <2> QED BY <1>1, <1>2, <2>1, StatesKeep DEF ChangeStateList, Idle
<1>3. ASSUME NEW n \in Nodes, NEW e \in Nodes \cup StateLists, InsertState(n, e) PROVE IInv'
  <2>1. e \in StateCells
    BY <1>3 DEF StateCells
  <2>2. /\ states' \in Heap(StateCells) /\ WellLinked(states', StateLists)
        /\ \A d \in StateCells : Linked(states', d) <=> d = n \/ Linked(states, d)
    BY <1>1, <1>3, <2>1, CellsAreFinite, InsertKeeps DEF InsertState
  <2> QED BY <1>1, <1>3, <2>2, StatesKeep DEF InsertState, Idle
<1>4. ASSUME NEW n \in Nodes, RemoveState(n) PROVE IInv'
  <2>1. /\ states' \in Heap(StateCells) /\ WellLinked(states', StateLists)
        /\ \A d \in StateCells : Linked(states', d) <=> d # n /\ Linked(states, d)
    BY <1>1, <1>4, CellsAreFinite, UnlinkKeeps DEF RemoveState
  <2> QED BY <1>1, <1>4, <2>1, StatesKeep DEF RemoveState
<1>5. ASSUME NEW l \in StateLists, ClearStates(l) PROVE IInv'
  <2>1. /\ states' \in Heap(StateCells) /\ WellLinked(states', StateLists)
        /\ \A d \in StateCells : Linked(states', d) => Linked(states, d)
    BY <1>1, <1>5, CellsAreFinite, ClearKeeps DEF ClearStates
  <2> QED BY <1>1, <1>5, <2>1, StatesKeep DEF ClearStates
<1> QED BY <1>2, <1>3, <1>4, <1>5 DEF StateStep

(* A step that moves display nodes only.                                   *)
LEMMA DisplaysKeep ==
    ASSUME IInv, UNCHANGED <<live, states>>,
           displayState' \in [Nodes -> DisplayStates \cup {Null}],
           displays' \in Heap(DisplayCells), WellLinked(displays', DisplayLists),
           \A n \in Nodes : Linked(displays', n) => displayState'[n] # Null \/ Linked(displays, n),
           \A n \in Nodes : displayState'[n] # displayState[n] => n \in live /\ displayState'[n] # Null
    PROVE  IInv'
  BY DEF IInv, LinkTypes, ListsWellLinked, DestroyedIsOffLists

(* Commands on the lists of displays.                                      *)
LEMMA DisplayStepKeeps == ASSUME IInv, DisplayStep PROVE IInv'
<1>1. /\ displays \in Heap(DisplayCells) /\ WellLinked(displays, DisplayLists)
      /\ displayState \in [Nodes -> DisplayStates \cup {Null}]
      /\ \A n \in Nodes : n \in DisplayCells
      /\ "noMapState" \in DisplayStates
  BY DEF IInv, LinkTypes, ListsWellLinked, DisplayCells, DisplayStates
<1>2. ASSUME NEW n \in Nodes, NEW l \in DisplayLists, Idle(n), ChangeDisplayList(n, l) PROVE IInv'
  <2>1. /\ displays' \in Heap(DisplayCells) /\ WellLinked(displays', DisplayLists)
        /\ \A d \in DisplayCells : Linked(displays', d) <=> d = n \/ Linked(displays, d)
    BY <1>1, <1>2, CellsAreFinite, ChangeListKeeps DEF ChangeDisplayList
  <2>2. /\ displayState' \in [Nodes -> DisplayStates \cup {Null}]
        /\ displayState'[n] # Null
        /\ \A m \in Nodes : displayState'[m] # displayState[m] => m = n
    BY <1>1, <1>2, CellsAreFinite DEF ChangeDisplayList
  <2> QED BY <1>1, <1>2, <2>1, <2>2, DisplaysKeep DEF ChangeDisplayList, Idle
<1>3. ASSUME NEW n \in Nodes, NEW s \in DisplayStates, ChangeDisplayState(n, s) PROVE IInv'
  <2>1. /\ displayState' \in [Nodes -> DisplayStates \cup {Null}]
        /\ displayState'[n] # Null
        /\ \A m \in Nodes : displayState'[m] # displayState[m] => m = n
    BY <1>1, <1>3, CellsAreFinite DEF ChangeDisplayState
  <2> QED BY <1>1, <1>3, <2>1, DisplaysKeep DEF ChangeDisplayState, Idle
<1>4. ASSUME NEW l \in DisplayLists, ClearDisplays(l) PROVE IInv'
  <2>1. /\ displays' \in Heap(DisplayCells) /\ WellLinked(displays', DisplayLists)
        /\ \A d \in DisplayCells : Linked(displays', d) => Linked(displays, d)
    BY <1>1, <1>4, CellsAreFinite, ClearKeeps DEF ClearDisplays
  <2> QED BY <1>1, <1>4, <2>1, DisplaysKeep DEF ClearDisplays
<1>5. Shown \subseteq DisplayLists /\ "notMapped" \in DisplayLists
  BY NodesAssumption DEF Shown
<1> QED BY <1>2, <1>3, <1>4, <1>5 DEF DisplayStep, ShowCmdList, CloseCmdList

(* The destructor of a MgrNode.                                            *)
LEMMA DestroyKeeps == ASSUME IInv, NEW n \in Nodes, Destroy(n) PROVE IInv'
<1>1. /\ states' \in Heap(StateCells) /\ WellLinked(states', StateLists)
      /\ \A d \in StateCells : Linked(states', d) <=> d # n /\ Linked(states, d)
  BY CellsAreFinite, UnlinkKeeps DEF IInv, LinkTypes, ListsWellLinked, Destroy
<1>2. /\ displays' \in Heap(DisplayCells) /\ WellLinked(displays', DisplayLists)
      /\ \A d \in DisplayCells : Linked(displays', d) <=> d # n /\ Linked(displays, d)
  BY CellsAreFinite, UnlinkKeeps DEF IInv, LinkTypes, ListsWellLinked, Destroy
<1>3. \A m \in Nodes : m \in StateCells /\ m \in DisplayCells
  BY DEF StateCells, DisplayCells
<1>4. /\ live' = live \ {n}
      /\ displayState' = [displayState EXCEPT ![n] = Null]
  BY DEF Destroy
<1> QED BY <1>1, <1>2, <1>3, <1>4 DEF IInv, LinkTypes, ListsWellLinked, DestroyedIsOffLists

(* Making and deleting nodes.                                              *)
LEMMA LifeStepKeeps == ASSUME IInv, LifeStep PROVE IInv'
<1>1. ASSUME NEW n \in Nodes, NewNode(n) PROVE IInv'
  BY <1>1 DEF NewNode, IInv, LinkTypes, ListsWellLinked, DestroyedIsOffLists
<1>2. ASSUME NEW n \in Nodes, DeleteNode(n) PROVE IInv'
  BY <1>2, DestroyKeeps DEF DeleteNode
<1>3. ASSUME UNCHANGED <<live, states, displays, displayState>> PROVE IInv'
  BY <1>3 DEF IInv, LinkTypes, ListsWellLinked, DestroyedIsOffLists
<1>4. ASSUME NEW l \in StateLists, DeleteEntries(l) PROVE IInv'
  BY <1>3, <1>4 DEF DeleteEntries
<1>5. ASSUME DeleteFirst PROVE IInv'
  BY <1>3, <1>5, DestroyKeeps DEF DeleteFirst
<1> QED BY <1>1, <1>2, <1>4, <1>5 DEF LifeStep

(* The replicate list has no links of nodes.                               *)
LEMMA ReplicateStepKeeps ==
    ASSUME IInv, ReplicateStep \/ UNCHANGED vars
    PROVE  IInv'
<1>1. UNCHANGED <<live, states, displays, displayState>>
  BY DEF ReplicateStep, ReplicateCmdList, RemoveReplicate, ClearReplicateEntries, vars
<1> QED BY <1>1 DEF IInv, LinkTypes, ListsWellLinked, DestroyedIsOffLists

(* The invariant the two theorems follow from.                             *)
LEMMA Inductive == Spec => []IInv
<1>1. IInv /\ [Next]_vars => IInv'
  BY StateStepKeeps, DisplayStepKeeps, LifeStepKeeps, ReplicateStepKeeps DEF Next
<1> QED BY InitKeeps, <1>1, PTL DEF Spec

(* However many nodes and lists there are, whatever is inserted, removed,  *)
(* cleared and destroyed, every list is a ring of its own with links that  *)
(* agree both ways, and every node with links is on one of them.           *)
THEOREM EveryListIsARing == Spec => []ListsWellLinked
  BY Inductive, PTL DEF IInv

(* No list leads to a node that was destroyed.                             *)
THEOREM NoListLeadsToDestroyed == Spec => []DestroyedIsOffLists
  BY Inductive, PTL DEF IInv
-----------------------------------------------------------------------------
(* Walks.  A thread is the sequence of the nodes of a ring, from its head;  *)
(* a command does to it what the abstract lists do to theirs.               *)

(* The stops of a walk from a head that finds the nodes of s and is back. *)
Stop(s, hd, i) == IF i \in 1..Len(s) THEN s[i] ELSE hd

Threads(h, hd, s) ==
    /\ s \in Seq(Cells(h) \ {hd})
    /\ \A i, j \in 1..Len(s) : s[i] = s[j] => i = j
    /\ \A i \in 0..Len(s) : h.next[Stop(s, hd, i)] = Stop(s, hd, i + 1)

(* The stops are different cells. *)
Round(C, hd, s) ==
    /\ s \in Seq(C \ {hd}) /\ Len(s) \in Nat
    /\ \A i \in Nat : Stop(s, hd, i) \in C
    /\ \A i, j \in 0..Len(s) : Stop(s, hd, i) = Stop(s, hd, j) => i = j
    /\ Stop(s, hd, 0) = hd /\ Stop(s, hd, Len(s) + 1) = hd
    /\ \A i \in 1..Len(s) : Stop(s, hd, i) = s[i] /\ s[i] \in C /\ s[i] # hd

LEMMA StopsDiffer ==
    ASSUME NEW C, NEW h \in Heap(C), NEW hd \in C, NEW s, Threads(h, hd, s)
    PROVE  Round(C, hd, s)
<1>1. Cells(h) = C
  BY DEF Cells, Heap
<1>2. s \in Seq(C \ {hd}) /\ Len(s) \in Nat /\ \A i \in 1..Len(s) : s[i] \in C /\ s[i] # hd
  BY <1>1 DEF Threads
<1>3. \A i, j \in 1..Len(s) : s[i] = s[j] => i = j
  BY DEF Threads
<1>4. /\ Stop(s, hd, 0) = hd /\ Stop(s, hd, Len(s) + 1) = hd
      /\ \A i \in 1..Len(s) : Stop(s, hd, i) = s[i]
      /\ \A i \in Nat : i \notin 1..Len(s) => Stop(s, hd, i) = hd
  BY <1>2 DEF Stop
<1>5. ASSUME NEW i \in 0..Len(s), NEW j \in 0..Len(s), Stop(s, hd, i) = Stop(s, hd, j)
      PROVE  i = j
  <2>1. CASE i \in 1..Len(s) /\ j \in 1..Len(s)
    BY <1>3, <1>4, <1>5, <2>1
  <2>2. CASE i = 0 \/ j = 0
    BY <1>2, <1>4, <1>5, <2>2
  <2> QED BY <1>2, <2>1, <2>2
<1> QED BY <1>2, <1>4, <1>5 DEF Round

(* A thread has no more nodes than there are cells besides its head. *)
LEMMA ThreadFits ==
    ASSUME NEW C, IsFiniteSet(C), NEW h \in Heap(C), NEW hd \in C, NEW s, Threads(h, hd, s)
    PROVE  Cardinality(C) \in Nat /\ Len(s) + 1 <= Cardinality(C)
<1> DEFINE f == [i \in 0..Len(s) |-> Stop(s, hd, i)]
<1>1. /\ Len(s) \in Nat /\ \A i \in Nat : Stop(s, hd, i) \in C
      /\ \A i, j \in 0..Len(s) : Stop(s, hd, i) = Stop(s, hd, j) => i = j
  <2>1. Round(C, hd, s)
    BY StopsDiffer
  <2> QED BY <2>1 DEF Round
<1>2. f \in Injection(0..Len(s), C)
  BY <1>1 DEF Injection, IsInjective
<1>3. Cardinality(0..Len(s)) <= Cardinality(C)
  <2> HIDE DEF f
  <2> QED BY <1>2, FS_Injection
<1>4. Cardinality(0..Len(s)) = Len(s) + 1
  BY <1>1, FS_Interval
<1>5. Cardinality(C) \in Nat
  BY FS_CardinalityType
<1> QED BY <1>3, <1>4, <1>5

(* A walk from the head finds the nodes of the thread, and no others. *)
LEMMA ThreadIsForward ==
    ASSUME NEW C, IsFiniteSet(C), NEW h \in Heap(C), NEW hd \in C, NEW s, Threads(h, hd, s)
    PROVE  Forward(h, hd) = s
<1> DEFINE n == Len(s)
           V == {Stop(s, hd, i) : i \in 0..n}
           step == [p \in Nat \X V |-> h.next[p[2]]]
           rule(f) == [i \in Nat |-> IF i = 0 THEN hd ELSE h.next[f[i - 1]]]
           reached == CHOOSE f : f = rule(f)
<1>1. /\ s \in Seq(C \ {hd}) /\ n \in Nat
      /\ \A i \in Nat : Stop(s, hd, i) \in C
      /\ \A i, j \in 0..n : Stop(s, hd, i) = Stop(s, hd, j) => i = j
      /\ Stop(s, hd, 0) = hd /\ Stop(s, hd, n + 1) = hd
      /\ \A i \in 1..n : Stop(s, hd, i) = s[i] /\ s[i] # hd
  <2>1. Round(C, hd, s)
    BY StopsDiffer
  <2> QED BY <2>1 DEF Round
<1>2. \A i \in 0..n : h.next[Stop(s, hd, i)] = Stop(s, hd, i + 1)
  BY DEF Threads
<1>3. \A i \in 0..n : Stop(s, hd, i + 1) \in V
  <2> SUFFICES ASSUME NEW i \in 0..n PROVE \E j \in 0..n : Stop(s, hd, i + 1) = Stop(s, hd, j)
    OBVIOUS
  <2>1. CASE i = n
    BY <1>1, <2>1
  <2>2. CASE i # n
    <3>1. i + 1 \in 0..n
      BY <1>1, <2>2
    <3> QED BY <3>1
  <2> QED BY <2>1, <2>2
<1>4. step \in StepFunctions(V)
  BY <1>2, <1>3 DEF StepFunctions
<1>5. hd \in V
  BY <1>1
<1>6. \E f : f = rule(f)
  <2> HIDE DEF V
  <2>1. GoesOn(V, hd, step)
    <3> HIDE DEF step
    <3> QED BY <1>4, <1>5, Recursion
  <2>2. PICK g \in [Nat -> V] : g[0] = hd /\ \A i \in Nat : g[i + 1] = step[<<i, g[i]>>]
    BY <2>1 DEF GoesOn
  <2>3. \A i \in Nat : g[i + 1] = h.next[g[i]]
    BY <2>2
  <2>4. ASSUME NEW i \in Nat PROVE g[i] = IF i = 0 THEN hd ELSE h.next[g[i - 1]]
    <3>1. CASE i = 0
      BY <2>2, <3>1
    <3>2. CASE i # 0
      <4>1. i - 1 \in Nat /\ (i - 1) + 1 = i
        BY <3>2
      <4> QED BY <2>3, <3>2, <4>1
    <3> QED BY <3>1, <3>2
  <2>5. g = rule(g)
    BY <2>2, <2>4
  <2> QED BY <2>5
<1>7. reached = rule(reached)
  BY <1>6
<1>8. Forward(h, hd) =
      LET back == CHOOSE k \in 1..Cardinality(Cells(h)) :
                      reached[k] = hd /\ \A i \in 1..(k - 1) : reached[i] # hd
      IN [i \in 1..(back - 1) |-> reached[i]]
  BY Zenon DEF Forward
<1> HIDE DEF reached
<1>9. reached[0] = hd /\ \A i \in Nat : i # 0 => reached[i] = h.next[reached[i - 1]]
  BY <1>7
<1>10. \A i \in Nat : i <= n + 1 => reached[i] = Stop(s, hd, i)
  <2> DEFINE S == {i \in Nat : i <= n + 1 => reached[i] = Stop(s, hd, i)}
  <2>1. 0 \in S
    BY <1>1, <1>9
  <2>2. ASSUME NEW i \in Nat, i \in S PROVE i + 1 \in S
    <3> SUFFICES ASSUME i + 1 <= n + 1 PROVE reached[i + 1] = Stop(s, hd, i + 1)
      OBVIOUS
    <3>1. i \in 0..n /\ reached[i] = Stop(s, hd, i)
      BY <1>1, <2>2
    <3>2. reached[i + 1] = h.next[reached[i]]
      BY <1>9
    <3> QED BY <1>2, <3>1, <3>2
  <2>3. Nat \subseteq S
    <3> HIDE DEF S
    <3> QED BY <2>1, <2>2, Induction
  <2> QED BY <2>3
<1>11. /\ reached[n + 1] = hd /\ n + 1 \in Nat
       /\ \A i \in 1..n : reached[i] = s[i] /\ reached[i] # hd
  BY <1>1, <1>10
<1>12. n + 1 \in 1..Cardinality(Cells(h)) /\ Cardinality(Cells(h)) \in Nat
  <2>1. Cells(h) = C
    BY DEF Cells, Heap
  <2> QED BY <1>1, <2>1, ThreadFits
<1> DEFINE back == CHOOSE k \in 1..Cardinality(Cells(h)) :
                       reached[k] = hd /\ \A i \in 1..(k - 1) : reached[i] # hd
<1>13. /\ back \in 1..Cardinality(Cells(h))
       /\ reached[back] = hd /\ \A i \in 1..(back - 1) : reached[i] # hd
  <2>1. \A i \in 1..((n + 1) - 1) : reached[i] # hd
    BY <1>1, <1>11
  <2> HIDE DEF n
  <2> QED BY <1>11, <1>12, <2>1
<1>14. back = n + 1
  <2> HIDE DEF back, n
  <2>1. ~(back < n + 1)
    BY <1>1, <1>11, <1>12, <1>13
  <2>2. ~(n + 1 < back)
    BY <1>1, <1>11, <1>12, <1>13
  <2> QED BY <1>1, <1>12, <1>13, <2>1, <2>2
<1>15. Forward(h, hd) = [i \in 1..(back - 1) |-> reached[i]]
  BY <1>8, Zenon
<1>16. Forward(h, hd) = [i \in 1..n |-> s[i]]
  <2> HIDE DEF back, n
  <2>1. back - 1 = n
    BY <1>1, <1>14
  <2> QED BY <1>11, <1>15, <2>1
<1>17. s = [i \in 1..n |-> s[i]]
  BY <1>1
<1> QED BY <1>16, <1>17

(* What the links of a well linked heap are good for. *)
LEMMA BackAndForth ==
    ASSUME NEW C, Null \notin C, NEW h \in Heap(C), LinksAgree(h)
    PROVE  /\ \A d \in C : h.next[d] \in C \cup {Null} /\ h.prev[d] \in C \cup {Null}
           /\ \A d \in C : Linked(h, d) <=> h.next[d] # Null
           /\ \A d \in C : h.next[d] # Null <=> h.prev[d] # Null
           /\ \A d \in C : h.next[d] # Null => h.prev[h.next[d]] = d /\ h.next[h.prev[d]] = d
<1>1. Cells(h) = C
  BY DEF Cells, Heap
<1> QED BY <1>1 DEF LinksAgree, Linked, Heap

LEMMA Joined ==
    ASSUME NEW X, NEW a \in Seq(X), NEW b \in Seq(X)
    PROVE  /\ a \o b \in Seq(X) /\ Len(a \o b) = Len(a) + Len(b)
           /\ \A i \in 1..Len(a) : (a \o b)[i] = a[i]
           /\ \A i \in (Len(a) + 1)..(Len(a) + Len(b)) : (a \o b)[i] = b[i - Len(a)]
  OBVIOUS

LEMMA RemovedAt ==
    ASSUME NEW X, NEW s \in Seq(X), NEW k \in 1..Len(s)
    PROVE  /\ RemoveAt(s, k) \in Seq(X)
           /\ Len(RemoveAt(s, k)) = Len(s) - 1
           /\ \A i \in 1..(Len(s) - 1) : RemoveAt(s, k)[i] = IF i < k THEN s[i] ELSE s[i + 1]
<1> DEFINE a == SubSeq(s, 1, k - 1)
           b == SubSeq(s, k + 1, Len(s))
<1>1. a \in Seq(X) /\ Len(a) = k - 1 /\ \A i \in 1..(k - 1) : a[i] = s[i]
  OBVIOUS
<1>2. b \in Seq(X) /\ Len(b) = Len(s) - k /\ \A i \in 1..(Len(s) - k) : b[i] = s[k + i]
  OBVIOUS
<1>3. RemoveAt(s, k) = a \o b
  BY DEF RemoveAt
<1> HIDE DEF a, b
<1>4. a \o b \in Seq(X) /\ Len(a \o b) = Len(s) - 1
  BY <1>1, <1>2, Joined
<1>5. ASSUME NEW i \in 1..(Len(s) - 1) PROVE (a \o b)[i] = IF i < k THEN s[i] ELSE s[i + 1]
  <2>1. CASE i < k
    BY <1>1, <1>2, <2>1
  <2>2. CASE ~(i < k)
    <3>1. (a \o b)[i] = b[i - Len(a)]
      BY <1>1, <1>2, <2>2
    <3>2. i - Len(a) \in 1..(Len(s) - k) /\ k + (i - Len(a)) = i + 1
      BY <1>1, <2>2
    <3> QED BY <1>2, <2>2, <3>1, <3>2
  <2> QED BY <2>1, <2>2
<1> QED BY <1>3, <1>4, <1>5

LEMMA InsertedAt ==
    ASSUME NEW X, NEW s \in Seq(X), NEW k \in 1..(Len(s) + 1), NEW c \in X
    PROVE  /\ InsertAt(s, k, c) \in Seq(X)
           /\ Len(InsertAt(s, k, c)) = Len(s) + 1
           /\ \A i \in 1..(Len(s) + 1) :
                  InsertAt(s, k, c)[i] = IF i < k THEN s[i] ELSE IF i = k THEN c ELSE s[i - 1]
<1> DEFINE a == SubSeq(s, 1, k - 1)
           b == SubSeq(s, k, Len(s))
           d == a \o <<c>>
<1>1. a \in Seq(X) /\ Len(a) = k - 1 /\ \A i \in 1..(k - 1) : a[i] = s[i]
  OBVIOUS
<1>2. b \in Seq(X) /\ Len(b) = Len(s) - k + 1 /\ \A i \in 1..(Len(s) - k + 1) : b[i] = s[k + i - 1]
  OBVIOUS
<1>3. InsertAt(s, k, c) = d \o b
  BY DEF InsertAt
<1> HIDE DEF a, b
<1>4. /\ d \in Seq(X) /\ Len(d) = k
      /\ \A i \in 1..(k - 1) : d[i] = s[i]
      /\ d[k] = c
  BY <1>1
<1> HIDE DEF d
<1> DEFINE e == d \o b
<1>5. /\ e \in Seq(X) /\ Len(e) = Len(d) + Len(b)
      /\ \A i \in 1..Len(d) : e[i] = d[i]
      /\ \A i \in (Len(d) + 1)..(Len(d) + Len(b)) : e[i] = b[i - Len(d)]
  BY <1>4, <1>2, Joined
<1> HIDE DEF e
<1>6. e \in Seq(X) /\ Len(e) = Len(s) + 1
  BY <1>4, <1>2, <1>5
<1>7. ASSUME NEW i \in 1..(Len(s) + 1)
      PROVE  e[i] = IF i < k THEN s[i] ELSE IF i = k THEN c ELSE s[i - 1]
  <2>1. CASE i <= k
    BY <1>4, <1>5, <2>1
  <2>2. CASE ~(i <= k)
    <3>1. e[i] = b[i - k]
      BY <1>4, <1>2, <1>5, <2>2
    <3>2. i - k \in 1..(Len(s) - k + 1) /\ k + (i - k) - 1 = i - 1
      BY <2>2
    <3>3. b[i - k] = s[i - 1]
      BY <1>2, <3>2
    <3> QED BY <2>2, <3>1, <3>3
  <2> QED BY <2>1, <2>2
<1> QED BY <1>3, <1>6, <1>7 DEF e

(* A thread without the node that is taken off. *)
LEMMA UnlinkThread ==
    ASSUME NEW C, Null \notin C, NEW h \in Heap(C), LinksAgree(h), NEW hd \in C,
           NEW c \in C, c # hd, NEW s, Threads(h, hd, s)
    PROVE  Threads(Unlink(h, c), hd, Lists!Without(s, c))
<1> DEFINE u == Unlink(h, c)
           n == Len(s)
<1>1. Round(C, hd, s)
  BY StopsDiffer
<1>2. /\ s \in Seq(C \ {hd}) /\ n \in Nat
      /\ \A i \in Nat : Stop(s, hd, i) \in C
      /\ \A i, j \in 0..n : Stop(s, hd, i) = Stop(s, hd, j) => i = j
      /\ Stop(s, hd, 0) = hd /\ Stop(s, hd, n + 1) = hd
      /\ \A i \in 1..n : Stop(s, hd, i) = s[i] /\ s[i] \in C /\ s[i] # hd
  BY <1>1 DEF Round
<1>3. /\ \A i \in 0..n : h.next[Stop(s, hd, i)] = Stop(s, hd, i + 1)
      /\ \A i, j \in 1..n : s[i] = s[j] => i = j
  BY DEF Threads
<1>4. /\ \A d \in C : h.next[d] \in C \cup {Null} /\ h.prev[d] \in C \cup {Null}
      /\ \A d \in C : h.next[d] # Null <=> h.prev[d] # Null
      /\ \A d \in C : h.next[d] # Null => h.prev[h.next[d]] = d /\ h.next[h.prev[d]] = d
  BY BackAndForth
<1>5. Cells(h) = C
  BY DEF Cells, Heap
<1>6. /\ Cells(u) = C
      /\ \A d \in C : u.next[d] = IF d = c THEN Null
                                  ELSE IF d = h.prev[c] THEN h.next[c] ELSE h.next[d]
  BY <1>5 DEF Unlink, Cells
<1> HIDE DEF u
<1>7. \A i \in 0..n : Stop(s, hd, i) = h.prev[c] => Stop(s, hd, i + 1) = c
  <2> SUFFICES ASSUME NEW i \in 0..n, Stop(s, hd, i) = h.prev[c] PROVE Stop(s, hd, i + 1) = c
    OBVIOUS
  <2>1. Stop(s, hd, i) \in C /\ h.next[Stop(s, hd, i)] = Stop(s, hd, i + 1)
    BY <1>2, <1>3
  <2>2. h.prev[c] # Null
    BY <2>1
  <2>3. h.next[h.prev[c]] = c
    BY <1>4, <2>2
  <2> QED BY <2>1, <2>3
<1>8. ASSUME \E k \in DOMAIN s : s[k] = c PROVE Threads(u, hd, Lists!Without(s, c))
  <2> DEFINE k == CHOOSE i \in DOMAIN s : s[i] = c
             t == RemoveAt(s, k)
  <2>1. k \in 1..n /\ s[k] = c
    BY <1>2, <1>8
  <2>2. Lists!Without(s, c) = t
    BY <1>8, Zenon DEF Lists!Without, Lists!RemoveAt, RemoveAt
  <2> HIDE DEF k
  <2>3. /\ t \in Seq(C \ {hd}) /\ Len(t) = n - 1
        /\ \A i \in 1..(n - 1) : t[i] = IF i < k THEN s[i] ELSE s[i + 1]
    BY <1>2, <2>1, RemovedAt
  <2> HIDE DEF t, n
  <2>4. \A i, j \in 1..Len(t) : t[i] = t[j] => i = j
    <3> SUFFICES ASSUME NEW i \in 1..Len(t), NEW j \in 1..Len(t), t[i] = t[j] PROVE i = j
      OBVIOUS
    <3>1. i \in 1..n /\ j \in 1..n /\ i + 1 \in 1..n /\ j + 1 \in 1..n
      BY <1>2, <2>3
    <3>2. t[i] = (IF i < k THEN s[i] ELSE s[i + 1]) /\ t[j] = (IF j < k THEN s[j] ELSE s[j + 1])
      BY <2>3
    <3>3. (IF i < k THEN i ELSE i + 1) = (IF j < k THEN j ELSE j + 1)
      BY <1>3, <3>1, <3>2
    <3> QED BY <2>1, <3>1, <3>3
  <2>5. \A i \in 0..n : Stop(t, hd, i) = IF i < k THEN Stop(s, hd, i) ELSE Stop(s, hd, i + 1)
    <3> SUFFICES ASSUME NEW i \in 0..n
                 PROVE  Stop(t, hd, i) = IF i < k THEN Stop(s, hd, i) ELSE Stop(s, hd, i + 1)
      OBVIOUS
    <3>1. CASE i \in 1..(n - 1)
      <4>1. Stop(t, hd, i) = t[i]
        BY <1>2, <2>3, <3>1 DEF Stop
      <4>2. i \in 1..n /\ i + 1 \in 1..n
        BY <1>2, <3>1
      <4> QED BY <1>2, <2>3, <3>1, <4>1, <4>2
    <3>2. CASE i = 0
      <4>1. Stop(t, hd, i) = hd
        BY <1>2, <2>3, <3>2 DEF Stop
      <4> QED BY <1>2, <2>1, <3>2, <4>1
    <3>3. CASE i = n
      <4>1. Stop(t, hd, i) = hd
        BY <1>2, <2>3, <3>3 DEF Stop
      <4> QED BY <1>2, <2>1, <3>3, <4>1
    <3> QED BY <1>2, <3>1, <3>2, <3>3
  <2>6. Stop(s, hd, k) = c /\ h.next[c] = Stop(s, hd, k + 1) /\ h.prev[c] = Stop(s, hd, k - 1)
    <3>1. k \in 0..n /\ k - 1 \in 0..n /\ (k - 1) + 1 = k
      BY <1>2, <2>1
    <3>2. Stop(s, hd, k) = c /\ h.next[c] = Stop(s, hd, k + 1)
      BY <1>2, <1>3, <2>1, <3>1
    <3>3. h.next[Stop(s, hd, k - 1)] = c /\ Stop(s, hd, k - 1) \in C
      BY <1>2, <1>3, <3>1, <3>2
    <3> QED BY <1>4, <3>2, <3>3
  <2>7. ASSUME NEW i \in 0..(n - 1) PROVE u.next[Stop(t, hd, i)] = Stop(t, hd, i + 1)
    <3>1. /\ i \in 0..n /\ i + 1 \in 0..n /\ i + 1 \in Nat /\ (i + 1) + 1 \in Nat
          /\ Stop(t, hd, i) = IF i < k THEN Stop(s, hd, i) ELSE Stop(s, hd, i + 1)
          /\ Stop(t, hd, i + 1) = IF i + 1 < k THEN Stop(s, hd, i + 1) ELSE Stop(s, hd, (i + 1) + 1)
      BY <1>2, <2>5
    <3>2. k \in 0..n /\ k - 1 \in 0..n
      BY <1>2, <2>1
    <3>3. CASE i + 1 < k
      <4>1. Stop(s, hd, i) # c /\ Stop(s, hd, i) # h.prev[c] /\ Stop(s, hd, i) \in C
        BY <1>2, <2>1, <2>6, <3>1, <3>2, <3>3
      <4> QED BY <1>3, <1>6, <2>1, <3>1, <3>3, <4>1
    <3>4. CASE i + 1 = k
      <4>1. i = k - 1 /\ Stop(s, hd, i) # c /\ Stop(s, hd, i) = h.prev[c] /\ Stop(s, hd, i) \in C
        BY <1>2, <2>1, <2>6, <3>1, <3>2, <3>4
      <4>2. Stop(t, hd, i) = Stop(s, hd, i) /\ Stop(t, hd, i + 1) = Stop(s, hd, k + 1)
        BY <2>1, <3>1, <3>4
      <4> QED BY <1>6, <2>6, <4>1, <4>2
    <3>5. CASE k < i + 1
      <4>1. Stop(s, hd, i + 1) # c /\ Stop(s, hd, i + 1) # h.prev[c] /\ Stop(s, hd, i + 1) \in C
        BY <1>2, <2>1, <2>6, <3>1, <3>2, <3>5
      <4>2. ~(i < k) /\ ~(i + 1 < k)
        BY <2>1, <3>5
      <4> QED BY <1>3, <1>6, <3>1, <4>1, <4>2
    <3> QED BY <2>1, <3>3, <3>4, <3>5
  <2> QED BY <1>6, <2>2, <2>3, <2>4, <2>7 DEF Threads
<1>9. ASSUME ~ \E k \in DOMAIN s : s[k] = c PROVE Threads(u, hd, Lists!Without(s, c))
  <2>1. Lists!Without(s, c) = s
    BY <1>9, Zenon DEF Lists!Without
  <2>2. ASSUME NEW i \in 0..n PROVE u.next[Stop(s, hd, i)] = Stop(s, hd, i + 1)
    <3>1. \A j \in 0..(n + 1) : Stop(s, hd, j) # c
      <4>1. \A j \in 1..n : Stop(s, hd, j) # c
        BY <1>2, <1>9
      <4> HIDE DEF n
      <4>2. \A j \in 0..(n + 1) : j \in 1..n \/ j = 0 \/ j = n + 1
        BY <1>2
      <4> QED BY <1>2, <4>1, <4>2
    <3>2. i \in 0..(n + 1) /\ i + 1 \in 0..(n + 1) /\ i \in Nat
      BY <1>2
    <3>3. Stop(s, hd, i) # c /\ Stop(s, hd, i) # h.prev[c] /\ Stop(s, hd, i) \in C
      BY <1>2, <1>7, <3>1, <3>2
    <3> QED BY <1>3, <1>6, <3>3
  <2> QED BY <1>2, <1>3, <1>6, <2>1, <2>2 DEF Threads
<1> QED BY <1>8, <1>9 DEF u

(* A node that is put on another ring leaves a thread as it is. *)
LEMMA LinkElsewhere ==
    ASSUME NEW C, Null \notin C, NEW h \in Heap(C), LinksAgree(h), NEW hd \in C,
           NEW c \in C, ~Linked(h, c), NEW e \in C, Linked(h, e),
           NEW s, Threads(h, hd, s), \A i \in 0..Len(s) : Stop(s, hd, i) # e
    PROVE  Threads(LinkBefore(h, c, e), hd, s)
<1> DEFINE b == LinkBefore(h, c, e)
           n == Len(s)
           p == h.prev[e]
<1>1. Round(C, hd, s)
  BY StopsDiffer
<1>2. /\ s \in Seq(C \ {hd}) /\ n \in Nat
      /\ \A i \in Nat : Stop(s, hd, i) \in C
      /\ Stop(s, hd, 0) = hd /\ Stop(s, hd, n + 1) = hd
  BY <1>1 DEF Round
<1>3. /\ \A i \in 0..n : h.next[Stop(s, hd, i)] = Stop(s, hd, i + 1)
      /\ \A i, j \in 1..n : s[i] = s[j] => i = j
  BY DEF Threads
<1>4. /\ h.next[c] = Null /\ p \in C /\ h.next[p] = e
  BY BackAndForth DEF Linked
<1>5. Cells(h) = C
  BY DEF Cells, Heap
<1>6. /\ Cells(b) = C
      /\ \A d \in C : b.next[d] = IF d = c THEN e ELSE IF d = p THEN c ELSE h.next[d]
  BY <1>4, <1>5 DEF LinkBefore, Cells, Heap
<1> HIDE DEF b, p
<1>7. ASSUME NEW i \in 0..n PROVE b.next[Stop(s, hd, i)] = Stop(s, hd, i + 1)
  <2>1. i \in Nat /\ i + 1 \in Nat /\ (i + 1 \in 0..n \/ i + 1 = n + 1)
    BY <1>2
  <2>2. Stop(s, hd, i + 1) # e /\ Stop(s, hd, i + 1) # Null
    <3>1. Stop(s, hd, 0) # e
      BY <1>2
    <3> QED BY <1>2, <2>1, <3>1
  <2>3. Stop(s, hd, i) \in C /\ h.next[Stop(s, hd, i)] = Stop(s, hd, i + 1)
    BY <1>2, <1>3, <2>1
  <2>4. Stop(s, hd, i) # c /\ Stop(s, hd, i) # p
    BY <1>4, <2>2, <2>3
  <2> QED BY <1>6, <2>3, <2>4
<1>8. Threads(b, hd, s)
  BY <1>2, <1>3, <1>6, <1>7 DEF Threads
<1> QED BY <1>8 DEF b

(* A node that is put before a stop of a thread is there on the thread. *)
LEMMA LinkHere ==
    ASSUME NEW C, Null \notin C, NEW h \in Heap(C), LinksAgree(h), NEW hd \in C,
           NEW c \in C, ~Linked(h, c), NEW s, Threads(h, hd, s),
           NEW k \in 1..(Len(s) + 1)
    PROVE  Threads(LinkBefore(h, c, Stop(s, hd, k)), hd, InsertAt(s, k, c))
<1> DEFINE e == Stop(s, hd, k)
           b == LinkBefore(h, c, e)
           n == Len(s)
           t == InsertAt(s, k, c)
<1>1. Round(C, hd, s)
  BY StopsDiffer
<1>2. /\ s \in Seq(C \ {hd}) /\ n \in Nat
      /\ \A i \in Nat : Stop(s, hd, i) \in C
      /\ \A i, j \in 0..n : Stop(s, hd, i) = Stop(s, hd, j) => i = j
      /\ Stop(s, hd, 0) = hd /\ Stop(s, hd, n + 1) = hd
      /\ \A i \in 1..n : Stop(s, hd, i) = s[i] /\ s[i] \in C /\ s[i] # hd
  BY <1>1 DEF Round
<1>3. /\ \A i \in 0..n : h.next[Stop(s, hd, i)] = Stop(s, hd, i + 1)
      /\ \A i, j \in 1..n : s[i] = s[j] => i = j
  BY DEF Threads
<1>4. /\ h.next[c] = Null
      /\ \A d \in C : h.next[d] \in C \cup {Null} /\ h.prev[d] \in C \cup {Null}
      /\ \A d \in C : h.next[d] # Null <=> h.prev[d] # Null
      /\ \A d \in C : h.next[d] # Null => h.prev[h.next[d]] = d /\ h.next[h.prev[d]] = d
  BY BackAndForth DEF Linked
<1>5. \A i \in 0..n : Stop(s, hd, i) # c
  <2> SUFFICES ASSUME NEW i \in 0..n PROVE Stop(s, hd, i) # c
    OBVIOUS
  <2>1. h.next[Stop(s, hd, i)] = Stop(s, hd, i + 1) /\ Stop(s, hd, i + 1) \in C
    BY <1>2, <1>3
  <2> QED BY <1>4, <2>1
<1>6. k \in Nat /\ k - 1 \in 0..n /\ k - 1 \in Nat /\ (k - 1) + 1 = k
  BY <1>2
<1>7. h.prev[e] = Stop(s, hd, k - 1) /\ e \in C
  <2>1. h.next[Stop(s, hd, k - 1)] = e /\ Stop(s, hd, k - 1) \in C /\ e \in C
    BY <1>2, <1>3, <1>6
  <2> QED BY <1>4, <2>1
<1>8. Cells(h) = C
  BY DEF Cells, Heap
<1>9. /\ Cells(b) = C
      /\ \A d \in C : b.next[d] = IF d = c THEN e ELSE IF d = Stop(s, hd, k - 1) THEN c ELSE h.next[d]
  <2> HIDE DEF e
  <2> QED BY <1>2, <1>6, <1>7, <1>8 DEF LinkBefore, Cells, Heap
<1>10. /\ c \in C \ {hd}
  BY <1>2, <1>5
<1>11. /\ t \in Seq(C \ {hd}) /\ Len(t) = n + 1
       /\ \A i \in 1..(n + 1) : t[i] = IF i < k THEN s[i] ELSE IF i = k THEN c ELSE s[i - 1]
  BY <1>2, <1>10, InsertedAt
<1> HIDE DEF t, b, e, n
<1>12. \A i, j \in 1..Len(t) : t[i] = t[j] => i = j
  <2> SUFFICES ASSUME NEW i \in 1..Len(t), NEW j \in 1..Len(t), t[i] = t[j] PROVE i = j
    OBVIOUS
  <2>1. /\ i \in 1..(n + 1) /\ j \in 1..(n + 1) /\ k \in 1..(n + 1)
        /\ i < k => i \in 1..n
        /\ j < k => j \in 1..n
        /\ k < i => i - 1 \in 1..n
        /\ k < j => j - 1 \in 1..n
    BY <1>2, <1>11 DEF n
  <2>2. /\ t[i] = IF i < k THEN s[i] ELSE IF i = k THEN c ELSE s[i - 1]
        /\ t[j] = IF j < k THEN s[j] ELSE IF j = k THEN c ELSE s[j - 1]
    BY <1>11, <2>1
  <2>3. \A m \in 1..n : s[m] # c
    <3> SUFFICES ASSUME NEW m \in 1..n PROVE s[m] # c
      OBVIOUS
    <3>1. m \in 0..n
      BY <1>2
    <3> QED BY <1>2, <1>5, <3>1
  <2>4. (i < k \/ k < i) => t[i] # c
    BY <2>1, <2>2, <2>3
  <2>5. (j < k \/ k < j) => t[j] # c
    BY <2>1, <2>2, <2>3
  <2>6. (i = k => t[i] = c) /\ (j = k => t[j] = c)
    <3>1. ~(k < k)
      BY <1>6
    <3> QED BY <2>2, <3>1
  <2>7. CASE i < k \/ k < i
    <3>1. CASE j < k \/ k < j
      <4>1. (IF i < k THEN i ELSE i - 1) = (IF j < k THEN j ELSE j - 1)
        BY <1>3, <2>1, <2>2, <2>7, <3>1
      <4> QED BY <2>1, <2>7, <3>1, <4>1
    <3>2. CASE j = k
      BY <2>7, <2>4, <2>6, <3>2
    <3> QED BY <2>1, <3>1, <3>2
  <2>8. CASE i = k
    BY <2>1, <2>8, <2>5, <2>6
  <2> QED BY <2>1, <2>7, <2>8
<1>13. \A i \in 0..(n + 2) :
           Stop(t, hd, i) = IF i < k THEN Stop(s, hd, i) ELSE IF i = k THEN c ELSE Stop(s, hd, i - 1)
  <2> SUFFICES ASSUME NEW i \in 0..(n + 2)
               PROVE  Stop(t, hd, i) = IF i < k THEN Stop(s, hd, i)
                                       ELSE IF i = k THEN c ELSE Stop(s, hd, i - 1)
    OBVIOUS
  <2>1. k \in 1..(n + 1)
    BY DEF n
  <2>2. CASE i \in 1..(n + 1)
    <3>1. Stop(t, hd, i) = t[i]
      BY <1>2, <1>11, <2>2 DEF Stop
    <3>2. (i < k => i \in 1..n) /\ (k < i => i - 1 \in 1..n)
      BY <1>2, <2>1, <2>2
    <3>3. t[i] = IF i < k THEN s[i] ELSE IF i = k THEN c ELSE s[i - 1]
      BY <1>11, <2>2
    <3> QED BY <1>2, <2>1, <2>2, <3>1, <3>2, <3>3
  <2>3. CASE i = 0
    <3>1. Stop(t, hd, i) = hd
      BY <1>2, <1>11, <2>3 DEF Stop
    <3> QED BY <1>2, <2>1, <2>3, <3>1
  <2>4. CASE i = n + 2
    <3>1. Stop(t, hd, i) = hd
      BY <1>2, <1>11, <2>4 DEF Stop
    <3>2. i - 1 = n + 1
      BY <1>2, <2>4
    <3> QED BY <1>2, <2>1, <2>4, <3>1, <3>2
  <2> QED BY <1>2, <2>2, <2>3, <2>4
<1>14. ASSUME NEW i \in 0..(n + 1) PROVE b.next[Stop(t, hd, i)] = Stop(t, hd, i + 1)
  <2>1. /\ i \in 0..(n + 2) /\ i + 1 \in 0..(n + 2) /\ k \in 1..(n + 1) /\ k \in Nat /\ n \in Nat
        /\ (i + 1) - 1 = i
    BY <1>2 DEF n
  <2>2. /\ Stop(t, hd, i) = IF i < k THEN Stop(s, hd, i) ELSE IF i = k THEN c ELSE Stop(s, hd, i - 1)
        /\ Stop(t, hd, i + 1) = IF i + 1 < k THEN Stop(s, hd, i + 1)
                                ELSE IF i + 1 = k THEN c ELSE Stop(s, hd, i)
    BY <1>13, <2>1
  <2>3. CASE i + 1 < k
    <3>1. i \in 0..n /\ i # k - 1
      BY <2>1, <2>3
    <3>2. Stop(s, hd, i) # c /\ Stop(s, hd, i) # Stop(s, hd, k - 1) /\ Stop(s, hd, i) \in C
      BY <1>2, <1>5, <1>6, <3>1
    <3>3. Stop(t, hd, i) = Stop(s, hd, i) /\ Stop(t, hd, i + 1) = Stop(s, hd, i + 1)
      BY <2>1, <2>2, <2>3
    <3> QED BY <1>3, <1>9, <3>1, <3>2, <3>3
  <2>4. CASE i + 1 = k
    <3>1. i = k - 1 /\ i \in 0..n
      BY <1>6, <2>1, <2>4
    <3>2. Stop(s, hd, i) # c /\ Stop(s, hd, i) \in C
      BY <1>2, <1>5, <3>1
    <3>3. Stop(t, hd, i) = Stop(s, hd, i) /\ Stop(t, hd, i + 1) = c
      BY <2>1, <2>2, <2>4
    <3> QED BY <1>9, <3>1, <3>2, <3>3
  <2>5. CASE i = k
    <3>1. Stop(t, hd, i) = c /\ Stop(t, hd, i + 1) = Stop(s, hd, k)
      BY <2>1, <2>2, <2>5
    <3> QED BY <1>9, <1>10, <3>1 DEF e
  <2>6. CASE k < i
    <3>1. i - 1 \in 0..n /\ i - 1 # k - 1 /\ (i - 1) + 1 = i
      BY <2>1, <2>6
    <3>2. Stop(s, hd, i - 1) # c /\ Stop(s, hd, i - 1) # Stop(s, hd, k - 1) /\ Stop(s, hd, i - 1) \in C
      BY <1>2, <1>5, <1>6, <3>1
    <3>3. Stop(t, hd, i) = Stop(s, hd, i - 1) /\ Stop(t, hd, i + 1) = Stop(s, hd, i)
      BY <2>1, <2>2, <2>6
    <3> QED BY <1>3, <1>9, <3>1, <3>2, <3>3
  <2> QED BY <2>1, <2>3, <2>4, <2>5, <2>6
<1>15. Threads(b, hd, t)
  BY <1>2, <1>9, <1>11, <1>12, <1>14 DEF Threads
<1> QED BY <1>15 DEF b, t, e

(* The ring of a head is the head and its thread. *)
LEMMA RingIsThread ==
    ASSUME NEW C, Null \notin C, NEW h \in Heap(C), LinksAgree(h), NEW hd \in C,
           Linked(h, hd), NEW s, Threads(h, hd, s)
    PROVE  Ring(h, hd) = {Stop(s, hd, i) : i \in 0..Len(s)}
<1> DEFINE n == Len(s)
           S == {Stop(s, hd, i) : i \in 0..n}
           R == Ring(h, hd)
<1>1. Round(C, hd, s)
  BY StopsDiffer
<1>2. /\ n \in Nat /\ \A i \in Nat : Stop(s, hd, i) \in C
      /\ Stop(s, hd, 0) = hd /\ Stop(s, hd, n + 1) = hd
  BY <1>1 DEF Round
<1>3. \A i \in 0..n : h.next[Stop(s, hd, i)] = Stop(s, hd, i + 1)
  BY DEF Threads
<1>4. /\ hd \in R /\ R \subseteq C /\ \A c \in R : h.next[c] \in R
      /\ \A T \in SUBSET C : hd \in T /\ Closed(h, T) => R \subseteq T
  BY RingProperties
<1>5. hd \in S /\ S \in SUBSET C
  BY <1>2
<1>6. Closed(h, S)
  <2> SUFFICES ASSUME NEW i \in 0..n PROVE h.next[Stop(s, hd, i)] \in S
    BY DEF Closed
  <2>1. h.next[Stop(s, hd, i)] = Stop(s, hd, i + 1)
    BY <1>3
  <2>2. CASE i + 1 \in 0..n
    BY <2>1, <2>2
  <2>3. CASE i + 1 = n + 1
    BY <1>2, <1>5, <2>1, <2>3
  <2> QED BY <1>2, <2>2, <2>3
<1>7. R \subseteq S
  <2> HIDE DEF S, R
  <2> QED BY <1>4, <1>5, <1>6
<1>8. \A i \in Nat : i \in 0..n => Stop(s, hd, i) \in R
  <2> DEFINE T == {i \in Nat : i \in 0..n => Stop(s, hd, i) \in R}
  <2>1. 0 \in T
    BY <1>2, <1>4
  <2>2. ASSUME NEW i \in Nat, i \in T PROVE i + 1 \in T
    <3> SUFFICES ASSUME i + 1 \in 0..n PROVE Stop(s, hd, i + 1) \in R
      OBVIOUS
    <3>1. i \in 0..n
      BY <1>2
    <3> QED BY <1>3, <1>4, <2>2, <3>1
  <2>3. Nat \subseteq T
    <3> HIDE DEF T
    <3> QED BY <2>1, <2>2, Induction
  <2> QED BY <2>3
<1> QED BY <1>2, <1>7, <1>8

Threaded(h, H) == \A hd \in H : Threads(h, hd, Forward(h, hd))

(* From heap h to heap k, the lists lose c; get c somewhere; lose it and   *)
(* get it somewhere; one list is emptied.                                  *)
Lose(h, k, H, c) ==
    /\ Threaded(k, H)
    /\ \A hd \in H : Forward(k, hd) = Lists!Without(Forward(h, hd), c)

Get(h, k, H, c) ==
    /\ Threaded(k, H)
    /\ \E hd \in H : \E i \in 1..(Len(Forward(h, hd)) + 1) :
           \A other \in H : Forward(k, other) = IF other = hd THEN InsertAt(Forward(h, hd), i, c)
                                                ELSE Forward(h, other)

Swap(h, k, H, c) ==
    /\ Threaded(k, H)
    /\ \E hd \in H : \E i \in 1..(Len(Lists!Without(Forward(h, hd), c)) + 1) :
           \A other \in H :
               Forward(k, other) = IF other = hd THEN InsertAt(Lists!Without(Forward(h, hd), c), i, c)
                                   ELSE Lists!Without(Forward(h, other), c)

Empty(h, k, H, hd) ==
    /\ Threaded(k, H)
    /\ \A other \in H : Forward(k, other) = IF other = hd THEN <<>> ELSE Forward(h, other)

(* A thread determines what the walk finds. *)
LEMMA ThreadedBy ==
    ASSUME NEW C, IsFiniteSet(C), NEW h \in Heap(C), NEW H \in SUBSET C,
           NEW f, \A hd \in H : Threads(h, hd, f[hd])
    PROVE  Threaded(h, H) /\ \A hd \in H : Forward(h, hd) = f[hd]
<1>1. ASSUME NEW hd \in H PROVE Forward(h, hd) = f[hd]
  <2>1. hd \in C /\ Threads(h, hd, f[hd])
    OBVIOUS
  <2> QED BY <2>1, ThreadIsForward
<1> QED BY <1>1 DEF Threaded

LEMMA UnlinkLoses ==
    ASSUME NEW C, IsFiniteSet(C), Null \notin C, NEW H \in SUBSET C,
           NEW h \in Heap(C), WellLinked(h, H), Threaded(h, H), NEW c \in C \ H
    PROVE  Lose(h, Unlink(h, c), H, c)
<1> DEFINE u == Unlink(h, c)
           f == [hd \in H |-> Lists!Without(Forward(h, hd), c)]
<1>1. u \in Heap(C)
  BY UnlinkKeeps
<1>2. ASSUME NEW hd \in H PROVE Threads(u, hd, f[hd])
  <2>1. hd \in C /\ c # hd /\ c \in C /\ LinksAgree(h) /\ Threads(h, hd, Forward(h, hd))
    BY DEF WellLinked, Threaded
  <2>2. Threads(u, hd, Lists!Without(Forward(h, hd), c))
    BY <2>1, UnlinkThread
  <2> QED BY <2>2
<1> HIDE DEF u
<1>3. Threaded(u, H) /\ \A hd \in H : Forward(u, hd) = f[hd]
  <2> HIDE DEF f
  <2> QED BY <1>1, <1>2, ThreadedBy
<1>4. Lose(h, u, H, c)
  BY <1>3 DEF Lose
<1> QED BY <1>4 DEF u

(* Who is linked is on the ring of one head, a stop of its thread. *)
LEMMA LinkedIsStop ==
    ASSUME NEW C, Null \notin C, NEW H \in SUBSET C,
           NEW h \in Heap(C), WellLinked(h, H), Threaded(h, H), NEW e \in C, Linked(h, e)
    PROVE  \E hd \in H : \E k \in 1..(Len(Forward(h, hd)) + 1) :
               e = Stop(Forward(h, hd), hd, k) /\ e \in Ring(h, hd)
<1>1. PICK hd \in H : e \in Ring(h, hd)
  BY DEF WellLinked, NoneStray, Cells, Heap
<1> DEFINE s == Forward(h, hd)
<1>2. hd \in C /\ Linked(h, hd) /\ LinksAgree(h) /\ Threads(h, hd, s)
  BY DEF WellLinked, HeadsLinked, Threaded
<1> HIDE DEF s
<1>3. Round(C, hd, s)
  BY <1>2, StopsDiffer
<1>4. Len(s) \in Nat /\ Stop(s, hd, 0) = hd /\ Stop(s, hd, Len(s) + 1) = hd
  BY <1>3 DEF Round
<1>5. Ring(h, hd) = {Stop(s, hd, i) : i \in 0..Len(s)}
  BY <1>2, RingIsThread
<1>6. PICK j \in 0..Len(s) : e = Stop(s, hd, j)
  BY <1>1, <1>5
<1>7. \E k \in 1..(Len(s) + 1) : e = Stop(s, hd, k)
  <2>1. CASE j = 0
    <3>1. Len(s) + 1 \in 1..(Len(s) + 1)
      BY <1>4
    <3> QED BY <1>4, <1>6, <2>1, <3>1
  <2>2. CASE j # 0
    <3>1. j \in 1..(Len(s) + 1)
      BY <1>4, <2>2
    <3> QED BY <1>6, <3>1
  <2> QED BY <2>1, <2>2
<1> QED BY <1>1, <1>7 DEF s

LEMMA LinkBeforeGets ==
    ASSUME NEW C, IsFiniteSet(C), Null \notin C, NEW H \in SUBSET C,
           NEW h \in Heap(C), WellLinked(h, H), Threaded(h, H),
           NEW c \in C \ H, ~Linked(h, c), NEW e \in C, Linked(h, e)
    PROVE  Get(h, LinkBefore(h, c, e), H, c)
<1> DEFINE b == LinkBefore(h, c, e)
<1>1. b \in Heap(C)
  BY LinkBeforeKeeps
<1>2. PICK hd \in H : \E k \in 1..(Len(Forward(h, hd)) + 1) :
                          e = Stop(Forward(h, hd), hd, k) /\ e \in Ring(h, hd)
  BY LinkedIsStop
<1>3. PICK k \in 1..(Len(Forward(h, hd)) + 1) :
               e = Stop(Forward(h, hd), hd, k) /\ e \in Ring(h, hd)
  BY <1>2
<1> DEFINE f == [other \in H |-> IF other = hd THEN InsertAt(Forward(h, hd), k, c)
                                 ELSE Forward(h, other)]
<1>4. /\ LinksAgree(h) /\ HeadsLinked(h, H) /\ HeadsApart(h, H)
      /\ \A other \in H : other \in C /\ Linked(h, other) /\ Threads(h, other, Forward(h, other))
  BY DEF WellLinked, Threaded, HeadsLinked
<1>5. ASSUME NEW other \in H PROVE Threads(b, other, f[other])
  <2>1. CASE other = hd
    <3>1. Threads(LinkBefore(h, c, Stop(Forward(h, hd), hd, k)), hd, InsertAt(Forward(h, hd), k, c))
      <4>1. hd \in C /\ c \in C /\ Threads(h, hd, Forward(h, hd))
        BY <1>4
      <4> QED BY <1>4, <4>1, LinkHere
    <3>2. f[other] = InsertAt(Forward(h, hd), k, c)
      BY <2>1
    <3> QED BY <1>3, <2>1, <3>1, <3>2
  <2>2. CASE other # hd
    <3> DEFINE s == Forward(h, other)
    <3>1. f[other] = s
      BY <2>2
    <3>2. Threads(h, other, s) /\ other \in C /\ Linked(h, other) /\ c \in C
      BY <1>4
    <3> HIDE DEF s
    <3>3. Ring(h, other) = {Stop(s, other, i) : i \in 0..Len(s)}
      BY <1>4, <3>2, RingIsThread
    <3>4. \A i \in 0..Len(s) : Stop(s, other, i) # e
      <4> SUFFICES ASSUME e \in Ring(h, other) PROVE FALSE
        BY <3>3
      <4> QED BY <1>3, <1>4, <2>2, RingsDisjoint
    <3>5. Threads(b, other, s)
      BY <1>4, <3>2, <3>4, LinkElsewhere
    <3> QED BY <3>1, <3>5
  <2> QED BY <2>1, <2>2
<1> HIDE DEF b
<1>6. Threaded(b, H) /\ \A other \in H : Forward(b, other) = f[other]
  <2> HIDE DEF f
  <2> QED BY <1>1, <1>5, ThreadedBy
<1>7. Get(h, b, H, c)
  BY <1>3, <1>6 DEF Get
<1> QED BY <1>7 DEF b

LEMMA LinkAfterGets ==
    ASSUME NEW C, IsFiniteSet(C), Null \notin C, NEW H \in SUBSET C,
           NEW h \in Heap(C), WellLinked(h, H), Threaded(h, H),
           NEW c \in C \ H, ~Linked(h, c), NEW e \in C, Linked(h, e)
    PROVE  Get(h, LinkAfter(h, c, e), H, c)
<1> DEFINE f == h.next[e]
<1>1. /\ \A d \in C : h.next[d] # Null <=> h.prev[d] # Null
      /\ \A d \in C : h.next[d] # Null => h.prev[h.next[d]] = d /\ h.next[h.prev[d]] = d
  BY DEF WellLinked, LinksAgree, Linked, Heap, Cells
<1>2. f \in C /\ h.prev[f] = e /\ e # c /\ f # c /\ Linked(h, f)
  BY <1>1 DEF Linked, Heap
<1>3. LinkAfter(h, c, e) = LinkBefore(h, c, f)
  BY <1>2 DEF LinkAfter, LinkBefore, Heap
<1> HIDE DEF f
<1> QED BY <1>2, <1>3, LinkBeforeGets

(* A node linked nowhere is on no thread. *)
LEMMA NothingLost ==
    ASSUME NEW C, Null \notin C, NEW H \in SUBSET C, NEW h \in Heap(C), Threaded(h, H),
           NEW c \in C, ~Linked(h, c), NEW hd \in H
    PROVE  Lists!Without(Forward(h, hd), c) = Forward(h, hd)
<1> DEFINE s == Forward(h, hd)
<1>1. hd \in C /\ Threads(h, hd, s)
  BY DEF Threaded
<1> HIDE DEF s
<1>2. Round(C, hd, s)
  BY <1>1, StopsDiffer
<1>3. ASSUME NEW k \in DOMAIN s PROVE s[k] # c
  <2>1. /\ k \in 1..Len(s) /\ k \in 0..Len(s) /\ k + 1 \in Nat
        /\ Stop(s, hd, k) = s[k] /\ Stop(s, hd, k + 1) \in C
    BY <1>2 DEF Round
  <2>2. h.next[s[k]] = Stop(s, hd, k + 1)
    BY <1>1, <2>1 DEF Threads
  <2> QED BY <2>1, <2>2 DEF Linked
<1> QED BY <1>3, Zenon DEF s, Lists!Without

LEMMA InsertSwaps ==
    ASSUME NEW C, IsFiniteSet(C), Null \notin C, NEW H \in SUBSET C,
           NEW h \in Heap(C), WellLinked(h, H), Threaded(h, H), NEW c \in C \ H,
           NEW e \in C, Linked(h, e), e # c,
           NEW k \in {InsertBefore(h, c, e), InsertAfter(h, c, e)}
    PROVE  Swap(h, k, H, c)
<1> DEFINE f == Freed(h, c)
<1>1. /\ f \in Heap(C) /\ WellLinked(f, H) /\ Threaded(f, H)
      /\ \A d \in C : Linked(f, d) <=> d # c /\ Linked(h, d)
      /\ \A hd \in H : Forward(f, hd) = Lists!Without(Forward(h, hd), c)
  <2>1. CASE Linked(h, c)
    <3>1. f = Unlink(h, c)
      BY <2>1 DEF Freed
    <3>2. Lose(h, Unlink(h, c), H, c)
      BY UnlinkLoses
    <3>3. Threaded(f, H) /\ \A hd \in H : Forward(f, hd) = Lists!Without(Forward(h, hd), c)
      BY <3>1, <3>2 DEF Lose
    <3> QED BY <3>1, <3>3, UnlinkKeeps
  <2>2. CASE ~Linked(h, c)
    <3>1. f = h
      BY <2>2 DEF Freed
    <3>2. \A hd \in H : Forward(h, hd) = Lists!Without(Forward(h, hd), c)
      BY <2>2, NothingLost
    <3> QED BY <2>2, <3>1, <3>2
  <2> QED BY <2>1, <2>2
<1>2. k = LinkBefore(f, c, e) \/ k = LinkAfter(f, c, e)
  BY DEF InsertBefore, InsertAfter
<1> HIDE DEF f
<1>3. ~Linked(f, c) /\ Linked(f, e)
  BY <1>1
<1>4. Get(f, k, H, c)
  <2>1. CASE k = LinkBefore(f, c, e)
    BY <1>1, <1>3, <2>1, LinkBeforeGets
  <2>2. CASE k = LinkAfter(f, c, e)
    BY <1>1, <1>3, <2>2, LinkAfterGets
  <2> QED BY <1>2, <2>1, <2>2
<1> QED BY <1>1, <1>4 DEF Get, Swap

LEMMA WithoutTwice ==
    ASSUME NEW C, Null \notin C, NEW H \in SUBSET C, NEW h \in Heap(C), Threaded(h, H),
           NEW c \in C, ~Linked(h, c), NEW k, Swap(h, k, H, c)
    PROVE  Get(h, k, H, c)
<1>1. \A hd \in H : Lists!Without(Forward(h, hd), c) = Forward(h, hd)
  BY NothingLost
<1> QED BY <1>1 DEF Swap, Get

LEMMA ChangeListSwaps ==
    ASSUME NEW C, IsFiniteSet(C), Null \notin C, NEW H \in SUBSET C,
           NEW h \in Heap(C), WellLinked(h, H), Threaded(h, H), NEW c \in C \ H, NEW hd \in H
    PROVE  Swap(h, InsertBefore(Unlink(h, c), c, hd), H, c)
<1> DEFINE u == Unlink(h, c)
           k == InsertBefore(u, c, hd)
<1>1. /\ u \in Heap(C) /\ WellLinked(u, H)
      /\ \A d \in C : Linked(u, d) <=> d # c /\ Linked(h, d)
  BY UnlinkKeeps
<1>2. Lose(h, u, H, c)
  BY UnlinkLoses
<1> HIDE DEF u
<1>3. Linked(u, hd) /\ hd # c /\ ~Linked(u, c) /\ Threaded(u, H) /\ hd \in C /\ c \in C
  BY <1>1, <1>2 DEF WellLinked, HeadsLinked, Lose
<1>4. Swap(u, k, H, c)
  BY <1>1, <1>3, InsertSwaps
<1> HIDE DEF k
<1>5. Get(u, k, H, c)
  BY <1>1, <1>3, <1>4, WithoutTwice
<1>6. Swap(h, k, H, c)
  BY <1>2, <1>5 DEF Get, Swap, Lose
<1> QED BY <1>6 DEF k, u

(* A head alone. *)
LEMMA AloneIsEmpty ==
    ASSUME NEW C, NEW h \in Heap(C), NEW hd \in C, h.next[hd] = hd
    PROVE  Threads(h, hd, <<>>)
  BY DEF Threads, Stop

LEMMA ClearEmpties ==
    ASSUME NEW C, IsFiniteSet(C), Null \notin C, NEW H \in SUBSET C,
           NEW h \in Heap(C), WellLinked(h, H), Threaded(h, H), NEW hd \in H
    PROVE  Empty(h, ClearEntries(h, hd), H, hd)
<1> DEFINE k == ClearEntries(h, hd)
           R == Ring(h, hd)
           f == [other \in H |-> IF other = hd THEN <<>> ELSE Forward(h, other)]
<1>1. k \in Heap(C)
  BY ClearKeeps
<1>2. \A d \in C : k.next[d] = IF d = hd THEN hd ELSE IF d \in R THEN Null ELSE h.next[d]
  BY DEF ClearEntries, Heap, Cells
<1> HIDE DEF k
<1>3. /\ LinksAgree(h) /\ HeadsLinked(h, H) /\ HeadsApart(h, H) /\ hd \in R
      /\ \A other \in H : other \in C /\ Linked(h, other) /\ Threads(h, other, Forward(h, other))
  <2>1. /\ LinksAgree(h) /\ HeadsLinked(h, H) /\ HeadsApart(h, H)
        /\ \A other \in H : other \in C /\ Linked(h, other) /\ Threads(h, other, Forward(h, other))
    BY DEF WellLinked, Threaded, HeadsLinked
  <2> QED BY <2>1, RingProperties
<1>4. ASSUME NEW other \in H PROVE Threads(k, other, f[other])
  <2>1. CASE other = hd
    BY <1>1, <1>2, <2>1, AloneIsEmpty
  <2>2. CASE other # hd
    <3> DEFINE s == Forward(h, other)
    <3>1. f[other] = s
      BY <2>2
    <3>2. Threads(h, other, s) /\ other \in C /\ Linked(h, other)
      BY <1>3
    <3> HIDE DEF s
    <3>3. Ring(h, other) = {Stop(s, other, i) : i \in 0..Len(s)}
      BY <1>3, <3>2, RingIsThread
    <3>4. Round(C, other, s)
      BY <3>2, StopsDiffer
    <3>5. ASSUME NEW i \in 0..Len(s) PROVE k.next[Stop(s, other, i)] = h.next[Stop(s, other, i)]
      <4>1. Stop(s, other, i) \in Ring(h, other) /\ Stop(s, other, i) \in C
        BY <3>3, <3>4 DEF Round
      <4>2. Stop(s, other, i) \notin R
        BY <1>3, <2>2, <4>1, RingsDisjoint
      <4> QED BY <1>2, <1>3, <4>1, <4>2
    <3>6. Cells(k) = Cells(h)
      BY <1>1 DEF Cells, Heap
    <3>7. Threads(k, other, s)
      BY <3>2, <3>5, <3>6 DEF Threads
    <3> QED BY <3>1, <3>7
  <2> QED BY <2>1, <2>2
<1>5. Threaded(k, H) /\ \A other \in H : Forward(k, other) = f[other]
  <2> HIDE DEF f
  <2> QED BY <1>1, <1>4, ThreadedBy
<1>6. Empty(h, k, H, hd)
  BY <1>5 DEF Empty
<1> QED BY <1>6 DEF k

LEMMA NewHeapThreaded ==
    ASSUME NEW N, NEW H, Null \notin N \cup H, N \cap H = {}, IsFiniteSet(N \cup H)
    PROVE  /\ Threaded(NewHeap(N, H), H)
           /\ \A hd \in H : Forward(NewHeap(N, H), hd) = <<>>
<1> DEFINE h == NewHeap(N, H)
           C == N \cup H
           f == [hd \in H |-> <<>>]
<1>1. h \in Heap(C) /\ \A hd \in H : h.next[hd] = hd /\ hd \in C
  BY DEF NewHeap, Heap
<1>2. H \in SUBSET C /\ IsFiniteSet(C)
  OBVIOUS
<1> HIDE DEF h, C
<1>3. ASSUME NEW hd \in H PROVE Threads(h, hd, f[hd])
  <2>1. Threads(h, hd, <<>>)
    BY <1>1, AloneIsEmpty
  <2> QED BY <2>1
<1>4. Threaded(h, H) /\ \A hd \in H : Forward(h, hd) = f[hd]
  <2> HIDE DEF f
  <2> QED BY <1>1, <1>2, <1>3, ThreadedBy
<1> QED BY <1>4 DEF h

(* What the refinement adds to the invariant: every walk is a thread. *)
Walks == Threaded(states, StateLists) /\ Threaded(displays, DisplayLists)

(* A list of states is found in states, a list of displays in displays. *)
LEMMA OrdersAre ==
    /\ DOMAIN Orders = StateLists \cup DisplayLists
    /\ \A l \in StateLists : Orders[l] = Forward(states, l)
    /\ \A l \in DisplayLists : Orders[l] = Forward(displays, l)
    /\ UNION Lists!Families = DOMAIN Orders
    /\ StateLists \in Lists!Families /\ DisplayLists \in Lists!Families
<1>1. \A l \in DisplayLists : l \notin StateLists
  BY NodesAssumption
<1> QED BY <1>1 DEF Orders, Lists!Families

(* The same of the next state. *)
LEMMA OrdersBecome ==
    /\ DOMAIN Orders' = StateLists \cup DisplayLists
    /\ \A l \in StateLists : Orders'[l] = Forward(states', l)
    /\ \A l \in DisplayLists : Orders'[l] = Forward(displays', l)
    /\ Orders' = [l \in StateLists \cup DisplayLists |-> Orders'[l]]
<1>1. \A l \in DisplayLists : l \notin StateLists
  BY NodesAssumption
<1> QED BY <1>1 DEF Orders

(* When a family loses a node, gets it anew, or has a list emptied, and the *)
(* other family stays as it is, that is a step of the lists.                *)
LEMMA StatesLose ==
    ASSUME NEW n \in Nodes, Lose(states, states', StateLists, n), UNCHANGED displays
    PROVE  Lists!Leave(n, StateLists)
<1> DEFINE left == [l \in DOMAIN Orders |-> IF l \in StateLists THEN Lists!Without(Orders[l], n)
                                            ELSE Orders[l]]
<1>1. \A l \in StateLists : Orders'[l] = Lists!Without(Orders[l], n)
  BY OrdersAre, OrdersBecome DEF Lose
<1>2. \A l \in DisplayLists : Orders'[l] = Orders[l] /\ l \notin StateLists
  BY OrdersAre, OrdersBecome, NodesAssumption
<1>3. Orders' = left
  BY <1>1, <1>2, OrdersAre, OrdersBecome
<1> QED BY <1>3, Zenon DEF Lists!Leave, Lists!Left

LEMMA DisplaysLose ==
    ASSUME NEW n \in Nodes, Lose(displays, displays', DisplayLists, n), UNCHANGED states
    PROVE  Lists!Leave(n, DisplayLists)
<1> DEFINE left == [l \in DOMAIN Orders |-> IF l \in DisplayLists THEN Lists!Without(Orders[l], n)
                                            ELSE Orders[l]]
<1>1. \A l \in DisplayLists : Orders'[l] = Lists!Without(Orders[l], n)
  BY OrdersAre, OrdersBecome DEF Lose
<1>2. \A l \in StateLists : Orders'[l] = Orders[l] /\ l \notin DisplayLists
  BY OrdersAre, OrdersBecome, NodesAssumption
<1>3. Orders' = left
  BY <1>1, <1>2, OrdersAre, OrdersBecome
<1> QED BY <1>3, Zenon DEF Lists!Leave, Lists!Left

LEMMA BothLose ==
    ASSUME NEW n \in Nodes, Lose(states, states', StateLists, n),
           Lose(displays, displays', DisplayLists, n)
    PROVE  Lists!Forget(n)
<1>1. \A l \in StateLists : Orders'[l] = Lists!Without(Orders[l], n)
  BY OrdersAre, OrdersBecome DEF Lose
<1>2. \A l \in DisplayLists : Orders'[l] = Lists!Without(Orders[l], n)
  BY OrdersAre, OrdersBecome DEF Lose
<1>3. Orders' = [l \in UNION Lists!Families |-> Lists!Without(Orders[l], n)]
  BY <1>1, <1>2, OrdersAre, OrdersBecome
<1> QED BY <1>3, Zenon DEF Lists!Forget

LEMMA StatesSwap ==
    ASSUME NEW n \in Nodes, Swap(states, states', StateLists, n), UNCHANGED displays
    PROVE  Lists!Move(n, StateLists)
<1> DEFINE left == Lists!Left(Orders, StateLists, n)
<1>1. /\ DOMAIN left = StateLists \cup DisplayLists
      /\ \A l \in StateLists : left[l] = Lists!Without(Forward(states, l), n)
      /\ \A l \in DisplayLists : left[l] = Orders[l] /\ l \notin StateLists
  BY OrdersAre, NodesAssumption DEF Lists!Left
<1>2. PICK l \in StateLists : \E i \in 1..(Len(Lists!Without(Forward(states, l), n)) + 1) :
          \A m \in StateLists :
              Forward(states', m) = IF m = l THEN InsertAt(Lists!Without(Forward(states, l), n), i, n)
                                    ELSE Lists!Without(Forward(states, m), n)
  BY DEF Swap
<1>3. PICK i \in 1..(Len(Lists!Without(Forward(states, l), n)) + 1) :
          \A m \in StateLists :
              Forward(states', m) = IF m = l THEN InsertAt(Lists!Without(Forward(states, l), n), i, n)
                                    ELSE Lists!Without(Forward(states, m), n)
  BY <1>2
<1>4. \A m \in StateLists : Orders'[m] = IF m = l THEN InsertAt(left[l], i, n) ELSE left[m]
  BY <1>1, <1>3, OrdersBecome
<1>5. \A m \in DisplayLists : Orders'[m] = left[m] /\ m # l
  BY <1>1, OrdersAre, OrdersBecome
<1>6. i \in 1..(Len(left[l]) + 1)
  BY <1>1
<1>7. left = [m \in StateLists \cup DisplayLists |-> left[m]]
  BY <1>1 DEF Lists!Left
<1> HIDE DEF left
<1>8. Orders' = [left EXCEPT ![l] = InsertAt(@, i, n)]
  BY <1>1, <1>4, <1>5, <1>7, OrdersBecome
<1> QED BY <1>6, <1>8, Zenon DEF Lists!Move, Lists!InsertAt, InsertAt, left

LEMMA DisplaysSwap ==
    ASSUME NEW n \in Nodes, Swap(displays, displays', DisplayLists, n), UNCHANGED states
    PROVE  Lists!Move(n, DisplayLists)
<1> DEFINE left == Lists!Left(Orders, DisplayLists, n)
<1>1. /\ DOMAIN left = StateLists \cup DisplayLists
      /\ \A l \in DisplayLists : left[l] = Lists!Without(Forward(displays, l), n)
      /\ \A l \in StateLists : left[l] = Orders[l] /\ l \notin DisplayLists
  BY OrdersAre, NodesAssumption DEF Lists!Left
<1>2. PICK l \in DisplayLists : \E i \in 1..(Len(Lists!Without(Forward(displays, l), n)) + 1) :
          \A m \in DisplayLists :
              Forward(displays', m) = IF m = l THEN InsertAt(Lists!Without(Forward(displays, l), n), i, n)
                                      ELSE Lists!Without(Forward(displays, m), n)
  BY DEF Swap
<1>3. PICK i \in 1..(Len(Lists!Without(Forward(displays, l), n)) + 1) :
          \A m \in DisplayLists :
              Forward(displays', m) = IF m = l THEN InsertAt(Lists!Without(Forward(displays, l), n), i, n)
                                      ELSE Lists!Without(Forward(displays, m), n)
  BY <1>2
<1>4. \A m \in DisplayLists : Orders'[m] = IF m = l THEN InsertAt(left[l], i, n) ELSE left[m]
  BY <1>1, <1>3, OrdersBecome
<1>5. \A m \in StateLists : Orders'[m] = left[m] /\ m # l
  BY <1>1, OrdersAre, OrdersBecome
<1>6. i \in 1..(Len(left[l]) + 1)
  BY <1>1
<1>7. left = [m \in StateLists \cup DisplayLists |-> left[m]]
  BY <1>1 DEF Lists!Left
<1> HIDE DEF left
<1>8. Orders' = [left EXCEPT ![l] = InsertAt(@, i, n)]
  BY <1>1, <1>4, <1>5, <1>7, OrdersBecome
<1> QED BY <1>6, <1>8, Zenon DEF Lists!Move, Lists!InsertAt, InsertAt, left

LEMMA StatesEmpty ==
    ASSUME NEW l \in StateLists, Empty(states, states', StateLists, l), UNCHANGED displays
    PROVE  Lists!Clear(l)
<1>1. \A m \in StateLists : Orders'[m] = IF m = l THEN <<>> ELSE Orders[m]
  BY OrdersAre, OrdersBecome DEF Empty
<1>2. \A m \in DisplayLists : Orders'[m] = Orders[m] /\ m # l
  BY OrdersAre, OrdersBecome, NodesAssumption
<1>3. Orders = [m \in StateLists \cup DisplayLists |-> Orders[m]]
  BY DEF Orders
<1>4. Orders' = [Orders EXCEPT ![l] = <<>>]
  BY <1>1, <1>2, <1>3, OrdersBecome
<1> QED BY <1>4 DEF Lists!Clear

LEMMA DisplaysEmpty ==
    ASSUME NEW l \in DisplayLists, Empty(displays, displays', DisplayLists, l), UNCHANGED states
    PROVE  Lists!Clear(l)
<1>1. \A m \in DisplayLists : Orders'[m] = IF m = l THEN <<>> ELSE Orders[m]
  BY OrdersAre, OrdersBecome DEF Empty
<1>2. \A m \in StateLists : Orders'[m] = Orders[m] /\ m # l
  BY OrdersAre, OrdersBecome, NodesAssumption
<1>3. Orders = [m \in StateLists \cup DisplayLists |-> Orders[m]]
  BY DEF Orders
<1>4. Orders' = [Orders EXCEPT ![l] = <<>>]
  BY <1>1, <1>2, <1>3, OrdersBecome
<1> QED BY <1>4 DEF Lists!Clear

(* A step of the lists that some node or list takes. *)
LEMMA ListsGoOn ==
    ASSUME \/ \E n \in Nodes : \/ Lists!Move(n, StateLists) \/ Lists!Leave(n, StateLists)
                               \/ Lists!Move(n, DisplayLists) \/ Lists!Leave(n, DisplayLists)
                               \/ Lists!Forget(n)
           \/ \E l \in StateLists \cup DisplayLists : Lists!Clear(l)
    PROVE  Lists!Next
  BY OrdersAre DEF Lists!Next

LEMMA NothingMoves == ASSUME UNCHANGED <<states, displays>> PROVE UNCHANGED Orders
  BY DEF Orders

LEMMA StateStepOrders ==
    ASSUME IInv, Walks, StateStep
    PROVE  Walks' /\ Lists!Next
<1>1. /\ states \in Heap(StateCells) /\ WellLinked(states, StateLists)
      /\ Threaded(states, StateLists) /\ Threaded(displays, DisplayLists)
  BY DEF IInv, LinkTypes, ListsWellLinked, Walks
<1>2. UNCHANGED displays
  BY DEF StateStep, ChangeStateList, InsertState, RemoveState, ClearStates
<1>3. Threaded(displays', DisplayLists)
  BY <1>1, <1>2
<1>4. ASSUME NEW n \in Nodes, NEW l \in StateLists, ChangeStateList(n, l) PROVE Walks' /\ Lists!Next
  <2>1. Swap(states, InsertBefore(Unlink(states, n), n, l), StateLists, n)
    BY <1>1, CellsAreFinite, ChangeListSwaps
  <2>2. Swap(states, states', StateLists, n)
    BY <1>4, <2>1 DEF ChangeStateList
  <2>3. Lists!Move(n, StateLists)
    BY <1>2, <2>2, StatesSwap
  <2> QED BY <1>3, <2>2, <2>3, ListsGoOn DEF Walks, Swap
<1>5. ASSUME NEW n \in Nodes, NEW e \in Nodes \cup StateLists, InsertState(n, e)
      PROVE  Walks' /\ Lists!Next
  <2>1. e \in StateCells /\ Linked(states, e) /\ e # n
        /\ states' \in {InsertBefore(states, n, e), InsertAfter(states, n, e)}
    BY <1>5 DEF InsertState, StateCells
  <2>2. Swap(states, states', StateLists, n)
    BY <1>1, <2>1, CellsAreFinite, InsertSwaps
  <2>3. Lists!Move(n, StateLists)
    BY <1>2, <2>2, StatesSwap
  <2> QED BY <1>3, <2>2, <2>3, ListsGoOn DEF Walks, Swap
<1>6. ASSUME NEW n \in Nodes, RemoveState(n) PROVE Walks' /\ Lists!Next
  <2>1. Lose(states, Unlink(states, n), StateLists, n)
    BY <1>1, CellsAreFinite, UnlinkLoses
  <2>2. Lose(states, states', StateLists, n)
    BY <1>6, <2>1 DEF RemoveState
  <2>3. Lists!Leave(n, StateLists)
    BY <1>2, <2>2, StatesLose
  <2> QED BY <1>3, <2>2, <2>3, ListsGoOn DEF Walks, Lose
<1>7. ASSUME NEW l \in StateLists, ClearStates(l) PROVE Walks' /\ Lists!Next
  <2>1. Empty(states, ClearEntries(states, l), StateLists, l)
    BY <1>1, CellsAreFinite, ClearEmpties
  <2>2. Empty(states, states', StateLists, l)
    BY <1>7, <2>1 DEF ClearStates
  <2>3. Lists!Clear(l)
    BY <1>2, <2>2, StatesEmpty
  <2> QED BY <1>3, <2>2, <2>3, ListsGoOn DEF Walks, Empty
<1> QED BY <1>4, <1>5, <1>6, <1>7 DEF StateStep

LEMMA DisplayStepOrders ==
    ASSUME IInv, Walks, DisplayStep
    PROVE  Walks' /\ (Lists!Next \/ UNCHANGED Orders)
<1>1. /\ displays \in Heap(DisplayCells) /\ WellLinked(displays, DisplayLists)
      /\ Threaded(states, StateLists) /\ Threaded(displays, DisplayLists)
  BY DEF IInv, LinkTypes, ListsWellLinked, Walks
<1>2. UNCHANGED states
  BY DEF DisplayStep, ShowCmdList, CloseCmdList, ChangeDisplayList, ChangeDisplayState, ClearDisplays
<1>3. Threaded(states', StateLists)
  BY <1>1, <1>2
<1>4. ASSUME NEW n \in Nodes, NEW l \in DisplayLists, ChangeDisplayList(n, l)
      PROVE  Walks' /\ Lists!Next
  <2>1. Swap(displays, InsertBefore(Unlink(displays, n), n, l), DisplayLists, n)
    BY <1>1, CellsAreFinite, ChangeListSwaps
  <2>2. Swap(displays, displays', DisplayLists, n)
    BY <1>4, <2>1 DEF ChangeDisplayList
  <2>3. Lists!Move(n, DisplayLists)
    BY <1>2, <2>2, DisplaysSwap
  <2> QED BY <1>3, <2>2, <2>3, ListsGoOn DEF Walks, Swap
<1>5. ASSUME NEW n \in Nodes, NEW s \in DisplayStates, ChangeDisplayState(n, s)
      PROVE  Walks' /\ UNCHANGED Orders
  <2>1. UNCHANGED displays
    BY <1>5 DEF ChangeDisplayState
  <2> QED BY <1>1, <1>2, <1>3, <2>1, NothingMoves DEF Walks
<1>6. ASSUME NEW l \in DisplayLists, ClearDisplays(l) PROVE Walks' /\ Lists!Next
  <2>1. Empty(displays, ClearEntries(displays, l), DisplayLists, l)
    BY <1>1, CellsAreFinite, ClearEmpties
  <2>2. Empty(displays, displays', DisplayLists, l)
    BY <1>6, <2>1 DEF ClearDisplays
  <2>3. Lists!Clear(l)
    BY <1>2, <2>2, DisplaysEmpty
  <2> QED BY <1>3, <2>2, <2>3, ListsGoOn DEF Walks, Empty
<1>7. Shown \subseteq DisplayLists /\ "notMapped" \in DisplayLists
  BY NodesAssumption DEF Shown
<1> QED BY <1>4, <1>5, <1>6, <1>7 DEF DisplayStep, ShowCmdList, CloseCmdList

LEMMA DestroyOrders ==
    ASSUME IInv, Walks, NEW n \in Nodes, Destroy(n)
    PROVE  Walks' /\ Lists!Next
<1>1. /\ displays \in Heap(DisplayCells) /\ WellLinked(displays, DisplayLists)
      /\ states \in Heap(StateCells) /\ WellLinked(states, StateLists)
      /\ Threaded(states, StateLists) /\ Threaded(displays, DisplayLists)
  BY DEF IInv, LinkTypes, ListsWellLinked, Walks
<1>2. Lose(states, Unlink(states, n), StateLists, n)
  BY <1>1, CellsAreFinite, UnlinkLoses
<1>3. Lose(displays, Unlink(displays, n), DisplayLists, n)
  BY <1>1, CellsAreFinite, UnlinkLoses
<1>4. Lose(states, states', StateLists, n) /\ Lose(displays, displays', DisplayLists, n)
  BY <1>2, <1>3 DEF Destroy
<1>5. Lists!Forget(n)
  BY <1>4, BothLose
<1> QED BY <1>4, <1>5, ListsGoOn DEF Walks, Lose

LEMMA LifeStepOrders ==
    ASSUME IInv, Walks, LifeStep
    PROVE  Walks' /\ (Lists!Next \/ UNCHANGED Orders)
<1>1. ASSUME UNCHANGED <<states, displays>> PROVE Walks' /\ UNCHANGED Orders
  BY <1>1, NothingMoves DEF Walks
<1>2. ASSUME NEW n \in Nodes, NewNode(n) PROVE Walks' /\ UNCHANGED Orders
  BY <1>1, <1>2 DEF NewNode
<1>3. ASSUME NEW n \in Nodes, DeleteNode(n) PROVE Walks' /\ Lists!Next
  BY <1>3, DestroyOrders DEF DeleteNode
<1>4. ASSUME NEW l \in StateLists, DeleteEntries(l) PROVE Walks' /\ UNCHANGED Orders
  BY <1>1, <1>4 DEF DeleteEntries
<1>5. ASSUME DeleteFirst PROVE Walks' /\ (Lists!Next \/ UNCHANGED Orders)
  <2>1. CASE states.next[emptying] \in Nodes
    <3>1. Destroy(states.next[emptying])
      BY <1>5, <2>1 DEF DeleteFirst
    <3> QED BY <2>1, <3>1, DestroyOrders
  <2>2. CASE states.next[emptying] \notin Nodes
    BY <1>1, <1>5, <2>2 DEF DeleteFirst
  <2> QED BY <2>1, <2>2
<1> QED BY <1>2, <1>3, <1>4, <1>5 DEF LifeStep

LEMMA InitOrders == ASSUME Init PROVE Walks /\ Lists!Init
<1>1. /\ Threaded(states, StateLists) /\ \A l \in StateLists : Forward(states, l) = <<>>
  BY NodesAssumption, CellsAreFinite, NewHeapThreaded DEF Init, StateCells
<1>2. /\ Threaded(displays, DisplayLists) /\ \A l \in DisplayLists : Forward(displays, l) = <<>>
  BY NodesAssumption, CellsAreFinite, NewHeapThreaded DEF Init, DisplayCells
<1>3. Orders = [l \in UNION Lists!Families |-> <<>>]
  BY <1>1, <1>2, OrdersAre DEF Orders
<1> QED BY <1>1, <1>2, <1>3 DEF Walks, Lists!Init

(* For any number of nodes and lists, walking a list from its head finds   *)
(* the sequence the commands have built, and each command, whatever links  *)
(* it rewrites, moves no node but its own: the editor implements           *)
(* CommandLists.                                                           *)
THEOREM WalksKeepOrder == Spec => KeepsOrder
<1>1. Init => IInv /\ Walks /\ Lists!Init
  BY InitKeeps, InitOrders
<1>2. IInv /\ Walks /\ [Next]_vars => IInv' /\ Walks' /\ [Lists!Next]_Orders
  <2> SUFFICES ASSUME IInv, Walks, [Next]_vars PROVE IInv' /\ Walks' /\ (Lists!Next \/ UNCHANGED Orders)
    OBVIOUS
  <2>1. IInv'
    BY StateStepKeeps, DisplayStepKeeps, LifeStepKeeps, ReplicateStepKeeps DEF Next
  <2>2. CASE ReplicateStep \/ UNCHANGED vars
    <3>1. UNCHANGED <<states, displays>>
      BY <2>2 DEF ReplicateStep, ReplicateCmdList, RemoveReplicate, ClearReplicateEntries, vars
    <3> QED BY <2>1, <3>1, NothingMoves DEF Walks
  <2> QED BY <2>1, <2>2, StateStepOrders, DisplayStepOrders, LifeStepOrders DEF Next
<1> QED BY <1>1, <1>2, PTL DEF Spec, KeepsOrder, Lists!Spec
===============================================================================
