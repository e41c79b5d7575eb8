----------------------------- MODULE EntityTrees -----------------------------
(***************************************************************************)
(* The AND, OR and ANDOR trees of entity names that describe what complex   *)
(* instances a schema allows (complexSupport.h), and the functions that     *)
(* match them, by trial and backtracking, against the names of an instance. *)
(*                                                                          *)
(* A function of a tree that changes it, the marks of the names, or both,   *)
(* answers a record: n, the tree; m, the marks; r, what the function        *)
(* returns.  null says that a member function was called through a null     *)
(* pointer.                                                                 *)
(***************************************************************************)
EXTENDS Integers, FiniteSets, Sequences, SequencesExt

(* MarkType, MatchType *)
NOMARK  == 0
ORMARK  == 1
MARK    == 2

UNKNOWN     == 0
UNSATISFIED == 1
SATISFIED   == 2
MATCHSOME   == 3
MATCHALL    == 4
NEWCHOICE   == 5
NOMORE      == 6

LISTEND == 999

New(join, name, kids) ==
    [join |-> join, name |-> name, kids |-> kids, viable |-> UNKNOWN,
     I_marked |-> NOMARK, choice |-> -1, choice1 |-> -1, choiceCount |-> 0]
Simple(name) == New("SIMPLE", name, <<>>)
And(kids)    == New("AND", "", kids)
Or(kids)     == New("OR", "", kids)
AndOr(kids)  == New("ANDOR", "", kids)

allMarked(m) == \A e \in DOMAIN m : m[e] # NOMARK

Reply(n, m, r) == [n |-> n, m |-> m, r |-> r, null |-> FALSE]
(* The one member of S.  The({e(a) : a \in {v}}) is e of the value v, which *)
(* is computed once. *)
The(S) == CHOOSE x \in S : TRUE

(* The answer about kid i becomes one about its parent. *)
Above(n, i, answer) == The({[a EXCEPT !.n = [n EXCEPT !.kids[i] = a.n]] : a \in {answer}})
Indices(n) == [i \in DOMAIN n.kids |-> i]
(* What the kids do one after the other: to a parent, and the marks. *)
InTurn(step(_, _), n, m, r) ==
    FoldLeft(LAMBDA answer, i : The({step(a, i) : a \in {answer}}),
             Reply(n, m, r), Indices(n))
HasChoice(n)   == n.choice + 1 \in DOMAIN n.kids
Chosen(n)      == n.kids[n.choice + 1]

RECURSIVE NamesIn(_)
NamesIn(n) == IF n.join = "SIMPLE" THEN {n.name} ELSE UNION {NamesIn(k) : k \in ToSet(n.kids)}

RECURSIVE Reset(_)
(* Fault: an OR keeps its choice. *)
ResetKeepsChoice(n) ==
    [n EXCEPT !.viable = UNKNOWN, !.I_marked = NOMARK, !.kids = [i \in DOMAIN @ |-> Reset(@[i])]]

Reset(n) ==
    CASE n.join = "SIMPLE" -> [n EXCEPT !.viable = UNKNOWN, !.I_marked = NOMARK]
      [] n.join = "OR"     -> [n EXCEPT !.viable = UNKNOWN, !.choice = -1, !.choice1 = -2,
                                        !.choiceCount = 0, !.kids = [i \in DOMAIN @ |-> Reset(@[i])]]
      [] OTHER             -> [n EXCEPT !.viable = UNKNOWN, !.kids = [i \in DOMAIN @ |-> Reset(@[i])]]

RECURSIVE hit(_, _)
hit(n, name) ==
    CASE n.join = "SIMPLE"             -> n.name = name
      [] n.join = "OR" /\ HasChoice(n) -> hit(Chosen(n), name)
      [] OTHER -> \E k \in ToSet(n.kids) : k.viable > UNSATISFIED /\ hit(k, name)

-----------------------------------------------------------------------------
(* A mark goes when the node that set it, and no stronger one, lets go.     *)
RECURSIVE unmarkAll(_, _)
unmarkAll(n, m) ==
    CASE n.join = "SIMPLE" ->
             IF n.viable < MATCHSOME THEN Reply(n, m, TRUE)
             ELSE Reply([n EXCEPT !.I_marked = NOMARK],
                        IF m[n.name] <= n.I_marked THEN [m EXCEPT ![n.name] = NOMARK] ELSE m, TRUE)
      [] n.join = "OR" ->
             IF HasChoice(n) THEN Above(n, n.choice + 1, unmarkAll(Chosen(n), m))
             ELSE Reply(n, m, TRUE)
      [] OTHER ->
             InTurn(LAMBDA a, i : Above(a.n, i, unmarkAll(a.n.kids[i], a.m)), n, m, TRUE)

Undone(a, i) == Above(a.n, i, unmarkAll(a.n.kids[i], a.m))

(* r: whether a name was marked.  An OR goes on from its choice to the      *)
(* first one that marks, from the first viable one after its last.          *)
RECURSIVE acceptChoice(_, _), AcceptFrom(_, _)
AcceptFrom(n, m) ==
    IF ~HasChoice(n) THEN Reply([n EXCEPT !.choice = LISTEND], m, FALSE)
    ELSE The({IF a.r THEN a ELSE AcceptFrom([a.n EXCEPT !.choice = @ + 1], a.m) :
              a \in {IF Chosen(n).viable >= MATCHSOME
                     THEN Above(n, n.choice + 1, acceptChoice(Chosen(n), m))
                     ELSE Reply(n, m, FALSE)}})
acceptChoice(n, m) ==
    CASE n.join = "SIMPLE" ->
             IF n.name \in DOMAIN m /\ m[n.name] = NOMARK
             THEN Reply([n EXCEPT !.I_marked = ORMARK], [m EXCEPT ![n.name] = ORMARK], TRUE)
             ELSE Reply(n, m, FALSE)
      [] n.join = "OR" -> AcceptFrom(IF n.choice = LISTEND THEN [n EXCEPT !.choice = n.choice1] ELSE n, m)
      [] OTHER ->
             InTurn(LAMBDA a, i :
                        IF a.n.kids[i].viable < MATCHSOME THEN a
                        ELSE [Above(a.n, i, acceptChoice(a.n.kids[i], a.m)) EXCEPT !.r = @ \/ a.r],
                    n, m, FALSE)

(* Fault: that all is marked is taken from the kid that said so. *)
JudgedByKids(n, m) ==
    LET values == {k.viable : k \in ToSet(n.kids)}
        best   == CHOOSE v \in values : \A w \in values : w <= v
        v      == IF UNKNOWN \in values THEN UNKNOWN ELSE best
    IN  Reply([n EXCEPT !.viable = v], m, v)

(* setViableVal: the best of the kids, if all are known; one that marked the *)
(* last name may since have lost it. *)
Judged(n, m) ==
    LET values == {k.viable : k \in ToSet(n.kids)}
        best   == CHOOSE v \in values : \A w \in values : w <= v
        v      == IF UNKNOWN \in values THEN UNKNOWN
                  ELSE IF best = MATCHALL /\ ~allMarked(m) THEN MATCHSOME ELSE best
    IN  Reply([n EXCEPT !.viable = v], m, v)

Failed(n, m) == Reply([n EXCEPT !.viable = UNSATISFIED], m, UNSATISFIED)

-----------------------------------------------------------------------------
(* SimpleList::matchNonORs. *)
MatchName(n, m) ==
    LET viable == IF n.name \notin DOMAIN m THEN UNSATISFIED
                  ELSE IF m[n.name] = MARK THEN SATISFIED
                  ELSE IF m[n.name] = NOMARK /\ allMarked([m EXCEPT ![n.name] = MARK]) THEN MATCHALL
                  ELSE MATCHSOME
        marks  == n.name \in DOMAIN m /\ m[n.name] = NOMARK
    IN  Reply([n EXCEPT !.viable = viable, !.I_marked = IF marks THEN MARK ELSE @],
              IF marks THEN [m EXCEPT ![n.name] = MARK] ELSE m, viable)

(* The names that need no choice: ORs are passed over, and what holds one   *)
(* stays UNKNOWN. *)
RECURSIVE matchNonORs(_, _), MatchNonORsFrom(_, _, _)
MatchNonORsFrom(n, m, i) ==
    IF i > Len(n.kids) THEN Judged(n, m)
    ELSE IF n.kids[i].join = "OR" THEN MatchNonORsFrom(n, m, i + 1)
    ELSE The({CASE n.join = "AND" /\ a.r = UNSATISFIED -> Failed(a.n, a.m)
                [] n.join = "ANDOR" /\ a.r = UNSATISFIED ->
                       The({MatchNonORsFrom(u.n, u.m, i + 1) : u \in {Undone(a, i)}})
                [] n.join = "ANDOR" /\ a.r = MATCHALL
                   /\ \A j \in 1..(i - 1) : a.n.kids[j].viable # UNKNOWN ->   \* prevKnown
                       Reply([a.n EXCEPT !.viable = MATCHALL], a.m, MATCHALL)
                [] OTHER -> MatchNonORsFrom(a.n, a.m, i + 1) :
              a \in {Above(n, i, matchNonORs(n.kids[i], m))}})
matchNonORs(n, m) == IF n.join = "SIMPLE" THEN MatchName(n, m) ELSE MatchNonORsFrom(n, m, 1)

(* The choices.  An OR tries every kid, undoes it, and takes the first that *)
(* marks a name.                                                            *)
RECURSIVE matchORs(_, _), MatchORsFrom(_, _, _), TryOne(_, _, _), TryEach(_, _, _)
MatchORsFrom(n, m, i) ==
    IF i > Len(n.kids) THEN Judged(n, m)
    ELSE IF n.kids[i].viable # UNKNOWN THEN MatchORsFrom(n, m, i + 1)
    ELSE The({CASE n.join = "AND" /\ a.r = UNSATISFIED -> Failed(a.n, a.m)
                [] n.join = "ANDOR" /\ a.r = UNSATISFIED ->
                       The({MatchORsFrom(u.n, u.m, i + 1) : u \in {Undone(a, i)}})
                [] OTHER -> MatchORsFrom(a.n, a.m, i + 1) :
              a \in {Above(n, i, matchORs(n.kids[i], m))}})

TryOne(n, m, i) ==
    The({IF a.n.kids[i].viable # UNKNOWN THEN a
         ELSE Above(a.n, i, matchORs(a.n.kids[i], a.m)) :
         a \in {IF n.kids[i].join = "OR" THEN Reply(n, m, UNKNOWN)
                ELSE Above(n, i, matchNonORs(n.kids[i], m))}})
Tried(b, i) ==
    [b EXCEPT !.n.viable = IF @ < b.r THEN b.r ELSE @,
              !.n.choiceCount = IF b.r >= MATCHSOME THEN @ + 1 ELSE @,
              !.n.choice  = IF b.r >= MATCHSOME /\ @ = -1 THEN i - 1 ELSE @,
              !.n.choice1 = IF b.r >= MATCHSOME /\ b.n.choice = -1 THEN i - 1 ELSE @]
TryEach(n, m, i) ==
    IF i > Len(n.kids) THEN Reply(n, m, TRUE)
    ELSE The({The({TryEach(u.n, u.m, i + 1) : u \in {Undone(Tried(b, i), i)}}) :
              b \in {TryOne(n, m, i)}})
matchORs(n, m) ==
    IF n.join # "OR" THEN MatchORsFrom(n, m, 1)
    ELSE The({Reply(a.n, a.m, IF a.n.viable = MATCHALL THEN a.n.kids[a.n.choice1 + 1].viable
                              ELSE a.n.viable) :
              a \in {IF t.n.viable >= MATCHSOME THEN acceptChoice(t.n, t.m) ELSE t :
                     t \in {TryEach(n, m, 1)}}})

-----------------------------------------------------------------------------
(* The next choice, from the last OR back.                                  *)
IsCandidate(n, i) == n.kids[i].join # "SIMPLE" /\ n.kids[i].viable >= MATCHSOME

(* After a new choice the later ORs start again. *)
RECURSIVE AcceptLater(_, _, _)
AcceptLater(n, m, i) ==
    IF i > Len(n.kids) THEN Reply(n, m, NEWCHOICE)
    ELSE IF ~IsCandidate(n, i) THEN AcceptLater(n, m, i + 1)
    ELSE The({IF a.r /\ allMarked(a.m) THEN Reply(a.n, a.m, MATCHALL)
              ELSE AcceptLater(a.n, a.m, i + 1) : a \in {Above(n, i, acceptChoice(n.kids[i], m))}})

(* Fault: after the last choice comes the first. *)
WrapChoice(n, m) == acceptChoice([n EXCEPT !.choice = IF @ + 1 = Len(n.kids) THEN 0 ELSE @ + 1], m)
acceptNextChoice(n, m) == acceptChoice([n EXCEPT !.choice = @ + 1], m)

(* firstCandidate( child->prev ) of a first child calls a member function   *)
(* of a null pointer, which with the test it makes returns null.            *)
RECURSIVE tryNext(_, _), TryBackFrom(_, _, _)
TryBackFrom(n, m, i) ==
    LET candidates == {j \in 1..i : IsCandidate(n, j)}
        last       == CHOOSE j \in candidates : \A l \in candidates : l <= j
    IN  IF candidates = {} THEN [Reply(n, m, NOMORE) EXCEPT !.null = (i = 0)]
        ELSE The({CASE a.r = MATCHALL  -> a
                    [] a.r = NEWCHOICE -> [AcceptLater(a.n, a.m, last + 1) EXCEPT !.null = a.null]
                    [] OTHER -> [TryBackFrom(a.n, a.m, last - 1) EXCEPT !.null = @ \/ a.null] :
                  a \in {Above(n, last, tryNext(n.kids[last], m))}})

(* After the choices below the chosen kid, the next kid. *)
NextKid(a) ==
    IF a.n.choiceCount = 1 THEN [a EXCEPT !.n.choice = LISTEND, !.r = NOMORE]
    ELSE The({[b EXCEPT !.r = IF ~@ THEN NOMORE ELSE IF allMarked(b.m) THEN MATCHALL ELSE NEWCHOICE,
                        !.null = a.null] : b \in {acceptNextChoice(a.n, a.m)}})
tryNext(n, m) ==
    IF n.join # "OR" THEN TryBackFrom(n, m, Len(n.kids))
    ELSE IF n.choice = LISTEND THEN Reply(n, m, NOMORE)
    ELSE The({IF a.r \in {MATCHALL, NEWCHOICE} THEN a
              ELSE The({NextKid([u EXCEPT !.null = a.null]) : u \in {Undone(a, n.choice + 1)}}) :
              a \in {IF Chosen(n).join = "SIMPLE" THEN Reply(n, m, NOMORE)
                     ELSE Above(n, n.choice + 1, tryNext(Chosen(n), m))}})
=============================================================================
