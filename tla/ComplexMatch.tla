----------------------------- MODULE ComplexMatch -----------------------------
(***************************************************************************)
(* ComplexCollect::supports: may a complex instance consist of these        *)
(* entities?  The lists of the schema are matched one after the other, or,  *)
(* if an entity has several supertypes, joined into one list for the call.  *)
(***************************************************************************)
EXTENDS EntityTrees

CONSTANTS Schemas,     \* [lists |-> the kids of each head, multi |-> entities of several supertypes]
          EntityOrder  \* the entities in the order of their names

VARIABLES lists,     \* ComplexCollect::clists: a supertype and its subtypes' tree each
          multi,     \* entities with several supertypes
          pc,        \* "idle", "match", "retry", "crashed"
          marks,     \* ents, and their marks
          used,      \* the lists under head
          head,      \* what is matched
          rounds,    \* how often its choices were changed so far
          answer     \* of the last call
vars == <<lists, multi, pc, marks, used, head, rounds, answer>>
call == <<marks, used, head, rounds>>

Ents   == DOMAIN marks
Shared == Ents \cap multi
ListNames(i) == UNION {NamesIn(k) : k \in ToSet(lists[i])}

(* The lists in the order in which the combined list takes them: those of   *)
(* the first such entity, then those of the next that are not in yet.       *)
ListsWith(e)   == SelectSeq([i \in DOMAIN lists |-> i], LAMBDA i : e \in ListNames(i))
Combined(ents) ==
    FoldLeft(LAMBDA s, e : s \o SelectSeq(ListsWith(e), LAMBDA i : i \notin ToSet(s)), <<>>,
             SelectSeq(EntityOrder, LAMBDA e : e \in ents \cap multi))

(* The lists of "used" under one AND. *)
Joined(s) == And(FlattenSeq([j \in DOMAIN s |-> lists[s[j]]]))

supports(ents) ==
    /\ pc = "idle"
    /\ pc' = "match"
    /\ marks' = [e \in ents |-> NOMARK]
    /\ used' = IF ents \cap multi = {} THEN <<1>> ELSE Combined(ents)
    /\ head' = Joined(used')
    /\ rounds' = 0
    /\ UNCHANGED <<lists, multi, answer>>

(* hitMultNodes: each part that has an entity of several supertypes matched *)
(* it.                                                                      *)
hitMultNodes(n) ==
    Shared # {} => \A e \in Shared : \A j \in DOMAIN used :
                   e \in NamesIn(n.kids[2 * j]) => hit(n.kids[2 * j], e)

(* The list is reset, the names are unmarked, and the parts go back to      *)
(* where they came from.                                                    *)
PutBack(n) ==
    [i \in DOMAIN lists |->
        IF i \in ToSet(used)
        THEN LET j == CHOOSE j \in DOMAIN used : used[j] = i
             IN  <<n.kids[2 * j - 1], n.kids[2 * j]>>
        ELSE lists[i]]

Return(n, result) ==
    /\ lists' = PutBack(n)
    /\ answer' = result
    /\ rounds' = 0
    /\ IF result \/ Shared # {} \/ Last(used) = Len(lists)
       THEN /\ pc' = "idle"
            /\ marks' = <<>> /\ used' = <<>> /\ head' = And(<<>>)
       ELSE /\ pc' = "match"
            /\ marks' = [e \in Ents |-> NOMARK]
            /\ used' = <<Last(used) + 1>>
            /\ head' = And(lists[Last(used) + 1])
    /\ UNCHANGED multi

GoOn(a) ==
    /\ pc' = "retry"
    /\ head' = a.n /\ marks' = a.m
    /\ rounds' = rounds + 1
    /\ UNCHANGED <<lists, multi, used, answer>>

(* ComplexList::matches up to its loop. *)
matches ==
    /\ pc = "match"
    /\ \/ /\ ~(Ents \subseteq NamesIn(head))
          /\ Return(head, FALSE)
       \/ /\ Ents \subseteq NamesIn(head)
          /\ \E a \in {matchNonORs(head, marks)} :
                IF a.r # UNKNOWN THEN Return(Reset(a.n), a.r = MATCHALL)
                ELSE \E b \in {matchORs(a.n, a.m)} :
                        CASE b.r = MATCHALL /\ hitMultNodes(b.n) -> Return(Reset(b.n), TRUE)
                          [] b.r < MATCHSOME                     -> Return(Reset(b.n), FALSE)
                          [] OTHER                               -> GoOn(b)

(* One round of the loop.  A call through a null pointer may end it all.    *)
Retry ==
    /\ pc = "retry"
    /\ \E a \in {tryNext(head, marks)} :
           \/ CASE a.r = MATCHALL /\ hitMultNodes(a.n) -> Return(Reset(a.n), TRUE)
                [] a.r \in {MATCHALL, NEWCHOICE}       -> GoOn(a)
                [] OTHER                               -> Return(Reset(a.n), FALSE)
           \/ /\ a.null
              /\ pc' = "crashed"
              /\ UNCHANGED <<lists, multi, call, answer>>

(* Entities that are in no list are refused before any matching. *)
Requests == SUBSET (UNION {ListNames(i) : i \in DOMAIN lists}) \ {{}}

Init ==
    /\ \E s \in Schemas : lists = s.lists /\ multi = s.multi
    /\ pc = "idle" /\ marks = <<>> /\ used = <<>> /\ head = And(<<>>)
    /\ rounds = 0
    /\ answer = FALSE

Next == \/ \E ents \in Requests : supports(ents)
        \/ matches
        \/ Retry

Spec == Init /\ [][Next]_vars

-----------------------------------------------------------------------------
(* What a tree stands for: the sets of names it allows. *)
Unions(families) ==
    FoldLeft(LAMBDA acc, f : {x \cup y : x \in acc, y \in f}, {{}}, families)

RECURSIVE Allowed(_)
Allowed(n) ==
    LET of == [i \in DOMAIN n.kids |-> Allowed(n.kids[i])]
    IN  CASE n.join = "SIMPLE" -> {{n.name}}
          [] n.join = "AND"    -> Unions(of)
          [] n.join = "OR"     -> UNION ToSet(of)
          [] OTHER             -> Unions([i \in DOMAIN of |-> of[i] \cup {{}}]) \ {{}}

AllowedIn(i) == Allowed(And(lists[i]))
(* One set of each list, with every shared entity in each that can have it. *)
Legal(ents) ==
    IF ents \cap multi = {} THEN \E i \in DOMAIN lists : ents \in AllowedIn(i)
    ELSE LET c == Combined(ents)
         IN ents \in Unions([j \in DOMAIN c |->
               {x \in AllowedIn(c[j]) : ents \cap multi \cap ListNames(c[j]) \subseteq x}])

Returns == pc # "idle" /\ pc' = "idle"

(* Each name of an instance has one place: what an AND or an ANDOR joins    *)
(* has no name in common, the alternatives of an OR may.                    *)
RECURSIVE OnePlace(_)
OnePlace(n) ==
    /\ \A k \in ToSet(n.kids) : OnePlace(k)
    /\ n.join \in {"AND", "ANDOR"} =>
           \A i, j \in DOMAIN n.kids : i < j => NamesIn(n.kids[i]) \cap NamesIn(n.kids[j]) = {}

(* No AND that an ANDOR may leave out has e.                                *)
RECURSIVE NotTied(_, _, _)
NotTied(n, e, optional) ==
    e \in NamesIn(n) =>
        /\ ~(n.join = "AND" /\ optional)
        /\ \A k \in ToSet(n.kids) : NotTied(k, e, optional \/ n.join = "ANDOR")

(* The answer is right, whatever the trees remember of earlier calls and    *)
(* earlier choices ("Returns true if such a list can be instantiated ...;   *)
(* false otherwise", complexlist.cc:158).  Without shared entities it is    *)
(* yes only for the legal combinations, and for all of them if each name    *)
(* has one place; with one shared entity that no left-out AND has, it is    *)
(* yes only for legal ones.  Section 11 of the README has what the code     *)
(* answers outside these conditions.                                        *)
AnswersRight ==
    [][Returns =>
          /\ Shared = {} =>
                 /\ answer' => Legal(Ents)
                 /\ Legal(Ents) /\ (\A i \in DOMAIN lists : OnePlace(And(lists[i]))) => answer'
          /\ Cardinality(Shared) = 1 /\ answer'
             /\ (\A e \in Shared : \A i \in DOMAIN lists : NotTied(And(lists[i]), e, FALSE))
                 => Legal(Ents)]_vars

(* An instance with one entity of several supertypes is accepted if it is   *)
(* legal (complexlist.cc:158).                                              *)
SharedAccepted ==
    [][Returns /\ Cardinality(Shared) = 1 /\ Legal(Ents) => answer']_vars

(* A call leaves every list with the parts it had, as they were or reset,   *)
(* also those lent to a combined list (collect.cc:148).                     *)
Restored ==
    [][Returns =>
          \A i \in DOMAIN lists : \A j \in 1..2 :
              lists'[i][j] \in {lists[i][j], Reset(lists[i][j])}]_vars

RECURSIVE Combinations(_)
Combinations(n) ==
    IF n.join = "SIMPLE" THEN 1
    ELSE FoldLeft(LAMBDA c, k : IF n.join = "OR" THEN c + Combinations(k) ELSE c * Combinations(k),
                  IF n.join = "OR" THEN 0 ELSE 1, n.kids)

(* The search comes to an end, although ORs start again after each new      *)
(* choice and a match without a shared entity is passed over: no more       *)
(* rounds than there are combinations of choices.                           *)
SearchEnds == rounds <= Combinations(head)
=============================================================================
