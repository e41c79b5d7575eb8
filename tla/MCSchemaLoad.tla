----------------------------- MODULE MCSchemaLoad -----------------------------
(* Small schema images: two schemas that use each other's entities, renames,*)
(* an empty schema, and every image that differs from the first in a single *)
(* number.                                                                  *)
EXTENDS SchemaLoad

Ref(kind, s, i) == [kind |-> kind, schema |-> s, index |-> i]
None      == Ref("none", 0, 0)
Attr(kind, r) == [kind |-> kind, domain |-> r]
Schema(n, e0, ec, t0, tc) ==
    [name |-> n, firstEntity |-> e0, entityCount |-> ec, firstType |-> t0, typeCount |-> tc]
Entity(n, s, s0, sc, a0, ac) ==
    [name |-> n, schema |-> s, firstSupertype |-> s0, supertypeCount |-> sc,
     firstAttribute |-> a0, attributeCount |-> ac]
Type(n, s, r, a, e0, ec) ==
    [name |-> n, schema |-> s, referent |-> r, aggregate |-> a,
     firstElement |-> e0, elementCount |-> ec]
Rename(s, r, n) == [schema |-> s, descriptor |-> r, name |-> n]

(* Schema 1 has entities A and B, schema 2 has C, a subtype of A and B; a   *)
(* select type of schema 1 and an aggregate type of schema 2.               *)
Two == [schemas    |-> <<Schema(1, 0, 2, 0, 1), Schema(2, 2, 1, 1, 1)>>,
        entities   |-> <<Entity("A", 0, 0, 0, 0, 1), Entity("B", 0, 2, 1, 1, 2),
                         Entity("C", 1, 0, 2, 3, 1)>>,
        types      |-> <<Type("S", 0, None, NoIndex, 0, 3), Type("L", 1, None, 0, 0, 0)>>,
        attributes |-> <<Attr("explicit", Ref("builtin", 0, 0)), Attr("inverse", Ref("entity", 1, 0)),
                         Attr("derived", Ref("type", 1, 0)), Attr("explicit", Ref("aggregate", 0, 0))>>,
        aggregates |-> <<[schema |-> 1, referent |-> Ref("entity", 0, 1)]>>,
        references |-> <<Ref("entity", 0, 0), Ref("entity", 0, 1), Ref("entity", 0, 0)>>,
        renames    |-> <<>>, wellFormed |-> TRUE]

(* Schemas 1, 2 and 3; 3 has nothing of its own. A has other names in 2, 3. *)
Renaming(ns) ==
    [Two EXCEPT !.schemas = Append(@, Schema(3, 3, 0, 2, 0)),
                !.renames = [j \in DOMAIN ns |-> Rename(j, Ref("entity", 0, 0), ns[j])]]

(* The images for the tables have no aggregates, and other names. *)
Plain(img) ==
    [img EXCEPT !.aggregates = <<>>, !.types = << >>,
                !.attributes = [j \in DOMAIN @ |-> [@[j] EXCEPT !.domain = None]],
                !.schemas = [j \in DOMAIN @ |-> [@[j] EXCEPT !.firstType = 0, !.typeCount = 0,
                                                            !.name = @ + 10]],
                !.entities = [j \in DOMAIN @ |-> [@[j] EXCEPT !.name = @ \o "t"]],
                !.renames = [j \in DOMAIN @ |-> [@[j] EXCEPT !.name = @ \o "t"]]]

OffByOne(img) ==
    LET V == 0..4 IN
    {[img EXCEPT !.schemas[i][f] = v] : i \in 1..2, v \in V,
        f \in {"firstEntity", "entityCount", "firstType", "typeCount"}}
    \cup {[img EXCEPT !.entities[i][f] = v] : i \in 1..3, v \in V,
        f \in {"schema", "firstSupertype", "supertypeCount", "firstAttribute", "attributeCount"}}
    \cup {[img EXCEPT !.types[i][f] = v] : i \in 1..2, v \in V,
        f \in {"schema", "aggregate", "firstElement", "elementCount"}}
    \cup {[img EXCEPT !.references[i] = Ref(kind, s, v)] : i \in {1, 3}, s \in 0..2, v \in 0..2,
        kind \in {"none", "entity", "type", "builtin", "aggregate"}}
    \cup {[img EXCEPT !.aggregates[1].referent = Ref(kind, 1, v)] : v \in 0..2,
        kind \in {"none", "entity", "type", "builtin", "aggregate"}}
    \cup {[img EXCEPT !.wellFormed = FALSE]}

(* B without attributes is its own supertype, which its load never runs     *)
(* into; or B and C are each other's, which the attributes of C run into.   *)
Itself == [Two EXCEPT !.entities[2].firstSupertype = 1, !.entities[2].attributeCount = 0,
                      !.entities[3].firstAttribute = 1, !.entities[3].attributeCount = 3]
Mutual == [Itself EXCEPT !.entities[2].firstSupertype = 2,
                         !.references[3] = Ref("entity", 1, 0)]

Renamings  == {Renaming(n) : n \in {<<"D">>, <<"D", "D">>, <<"A", "D">>, <<"B">>}}
Packed     == <<{Two, Itself, Mutual} \cup OffByOne(Two) \cup Renamings, {Two} \cup Renamings>>
Tables     == <<{Plain(img) : img \in Renamings \cup {Mutual}}, {Plain(img) : img \in {Two} \cup Renamings}>>
==============================================================================
