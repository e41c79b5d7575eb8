---------------------------- MODULE MCComplexMatch ----------------------------
(* Families of schemas for ComplexMatch. *)
EXTENDS ComplexMatch

Order == <<"a", "b", "c", "d", "s", "t">>

Joins(X, Y) ==
    UNION {{Or(<<x, y>>), And(<<x, y>>), AndOr(<<x, y>>)} : x \in X, y \in Y}
Leaves(names) == {Simple(n) : n \in names}
(* A subtype that is itself a supertype: alone, or with what is below it. *)
Below(name, T) == {Or(<<Simple(name), And(<<Simple(name), t>>)>>) : t \in T}

OneList(T)    == {[lists |-> <<<<Simple("s"), t>>>>, multi |-> {}] : t \in T}
TwoLists(T, U) ==
    {[lists |-> <<<<Simple("s"), t>>, <<Simple("t"), u>>>>,
      multi |-> NamesIn(t) \cap NamesIn(u)] : t \in T, u \in U}

(* Every tree of two-way joins that has these leaves, in this order, and,   *)
(* up to the names, every one with n leaves: repeated names included.       *)
RECURSIVE TreesOver(_)
TreesOver(leaves) ==
    IF Len(leaves) = 1 THEN {Simple(leaves[1])}
    ELSE UNION {Joins(TreesOver(SubSeq(leaves, 1, k)),
                      TreesOver(SubSeq(leaves, k + 1, Len(leaves)))) : k \in 1..(Len(leaves) - 1)}
Namings(n) ==
    {[i \in 1..n |-> Order[f[i]]] : f \in {g \in [1..n -> 1..n] :
        \A i \in 1..n : \A m \in 1..g[i] : m < g[i] => \E j \in 1..(i - 1) : g[j] = m}}
AllTrees(n) == UNION {TreesOver(leaves) : leaves \in Namings(n)}
Small == OneList(UNION {AllTrees(n) : n \in 1..4})

(* Deeper trees: choices below choices, subtypes with subtypes. *)
AB   == Joins(Leaves({"a"}), Leaves({"b"}))
Deep == OneList(Joins(Below("a", Joins(Leaves({"b"}), Leaves({"c"}))), Leaves({"d"}))
                  \cup Joins(Leaves({"d"}), Joins(AB, Leaves({"c"})))
                  \cup Joins(Joins(Leaves({"c"}), AB), Leaves({"d"}))
                  \cup Joins(Joins(Leaves({"d"}), AB), Below("a", Leaves({"c"})))
                  \cup Below("d", Joins(Leaves({"c"}), AB)))

(* Two supertypes that share the subtype c, or nothing.                     *)
With(n)   == TreesOver(<<n, "c">>) \cup TreesOver(<<"c", n>>)
WithTwo   == UNION {TreesOver(leaves) : leaves \in
                 {<<"a", "c", "d">>, <<"c", "a", "d">>, <<"a", "d", "c">>, <<"a", "c", "a">>,
                  <<"c", "a", "a">>, <<"a", "c", "c">>, <<"c", "a", "c">>}}
               \cup Joins(Leaves({"d"}), Below("a", Leaves({"c"})))
Sharing   == TwoLists(Leaves({"c"}) \cup With("a") \cup WithTwo, Leaves({"c"}) \cup With("b"))
Separate == TwoLists(Leaves({"a"}), Joins(Leaves({"b"}), Leaves({"c"})))

SchemaSet == Small \cup Deep \cup Sharing \cup Separate
SharingSet == Sharing
===============================================================================
