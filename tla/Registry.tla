------------------------------- MODULE Registry -------------------------------
(* The registry of a schema library (Registry.cc): three tables that find a *)
(* schema, a type or an entity descriptor by name, and the names that other *)
(* schemas give an entity in their USE and REFERENCE clauses.  A name is in *)
(* the form PrettyTmpName gives it; schemas are named by numbers, in        *)
(* alphabetical order.  The tables are those of HashTable, here as maps in  *)
(* which an insertion never replaces.                                       *)
EXTENDS Integers, Sequences, FiniteSets, Functions

CONSTANTS
    NoObject,       \* null pointer
    NoSchema        \* the caller names no schema

VARIABLES
    primordialSwamp, active_schemas, active_types,   \* name -> descriptor
    entity_cnt, all_ents_cnt,
    altNames,       \* descriptor -> its SchRenames, a list of [schema, name]
    nameOf          \* descriptor -> its own name

registry == <<primordialSwamp, active_schemas, active_types,
              entity_cnt, all_ents_cnt>>

(* SC_HASHinsert keeps what is there. *)
With(table, key, object) ==
    [n \in DOMAIN table \cup {key} |-> IF n \in DOMAIN table THEN table[n] ELSE object]
Without(table, keys) == Restrict(table, DOMAIN table \ keys)
Found(table, key) == IF key \in DOMAIN table THEN table[key] ELSE NoObject

AltsOf(d)     == IF d \in DOMAIN altNames THEN altNames[d] ELSE <<>>
AltNamesIn(alts) == {alts[j].name : j \in DOMAIN alts}

(* SchRename::rename: the first entry for the schema decides. *)
RenamesFor(alts, s) == {j \in DOMAIN alts : alts[j].schema = s}
RenamedIn(alts, s) ==
    alts[CHOOSE j \in RenamesFor(alts, s) : \A i \in RenamesFor(alts, s) : j <= i].name

(* TypeDescriptor::addAltName keeps the list in the order of the schemas. *)
AltAdded(alts, s, n) ==
    SelectSeq(alts, LAMBDA a : a.schema < s)
    \o <<[schema |-> s, name |-> n]>>
    \o SelectSeq(alts, LAMBDA a : a.schema >= s)

(* FindEntity: a descriptor is found under any name, and then accepted only *)
(* if the name is the one the current schema uses for it.                   *)
(* Fault: a name that a schema has given up is accepted from it.            *)
Accepts_AnyName(e, n, s) == TRUE
Accepts(e, n, s) ==
    \/ s = NoSchema
    \/ RenamesFor(AltsOf(e), s) # {} /\ n = RenamedIn(AltsOf(e), s)
    \/ /\ RenamesFor(AltsOf(e), s) = {}
       /\ s \in DOMAIN active_schemas => n = nameOf[e]

FindEntity(n, s) ==
    LET e == Found(primordialSwamp, n)
    IN  IF e # NoObject /\ Accepts(e, n, s) THEN e ELSE NoObject

(* uniqueNames: alternative names, each once, the own name not counted. *)
uniqueNames(n, alts) == Cardinality(AltNamesIn(alts) \ {n})

(* AddClones enters the entity under each of its alternative names. *)
Cloned(table, e, alts) ==
    [n \in DOMAIN table \cup AltNamesIn(alts) |->
        IF n \in DOMAIN table THEN table[n] ELSE e]

AddEntity(e) ==
    /\ primordialSwamp' = Cloned(With(primordialSwamp, nameOf[e], e), e, AltsOf(e))
    /\ entity_cnt' = entity_cnt + 1
    /\ all_ents_cnt' = all_ents_cnt + 1 + uniqueNames(nameOf[e], AltsOf(e))
    /\ UNCHANGED <<active_schemas, active_types>>

AddSchema(d, n) ==
    /\ active_schemas' = With(active_schemas, n, d)
    /\ UNCHANGED <<primordialSwamp, active_types, entity_cnt, all_ents_cnt>>

AddType(d) ==
    /\ active_types' = With(active_types, nameOf[d], d)
    /\ UNCHANGED <<primordialSwamp, active_schemas, entity_cnt, all_ents_cnt>>

(* RemoveClones: every alternative name goes, whoever is entered under it.  *)
(* Fault: only the own name goes.                                           *)
RemovedNames_Own(n)  == {n}
RemovedNames(n) ==
    {n} \cup (IF Found(primordialSwamp, n) = NoObject THEN {}
              ELSE AltNamesIn(AltsOf(Found(primordialSwamp, n))))

RemoveEntity(n) ==
    LET clones == AltNamesIn(AltsOf(Found(primordialSwamp, n)))
    IN  /\ primordialSwamp' = Without(primordialSwamp, RemovedNames(n))
        /\ entity_cnt' = IF n \in DOMAIN primordialSwamp \ clones
                         THEN entity_cnt - 1 ELSE entity_cnt
        /\ UNCHANGED <<active_schemas, active_types, all_ents_cnt>>

RemoveSchema(n) ==
    /\ active_schemas' = Without(active_schemas, {n})
    /\ UNCHANGED <<primordialSwamp, active_types, entity_cnt, all_ents_cnt>>

RemoveType(n) ==
    /\ active_types' = Without(active_types, {n})
    /\ UNCHANGED <<primordialSwamp, active_schemas, entity_cnt, all_ents_cnt>>
==============================================================================
