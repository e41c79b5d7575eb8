------------------------------ MODULE SchemaLoad ------------------------------
(* Loading schemas into a registry: InitializeSchemaFromImage, which checks *)
(* a packed image and builds descriptors from it, and the table-driven      *)
(* initialization that generated code calls function by function            *)
(* (schemaInit.cc); and the schema modules, which hand out descriptors by   *)
(* number (schemaModule.cc).  One step is one record of one loop.           *)
(*                                                                          *)
(* Descriptors are <<kind, load, number>>.  Records are numbered from 0 in  *)
(* an image and from 1 in the sequences of the model.                       *)
EXTENDS Filters, Registry

CONSTANTS
    PackedImages, TableImages,  \* for each load, what it may be given either way
    MaxLoads,                   \* bound: loads into one registry
    MaxRemovals                 \* bound: removals by the client

NoIndex  == -1                  \* UINT32_MAX
Builtin  == <<"builtin", 0, 0>>

VARIABLES
    load, image, path,      \* number of the load, what it loads, and how
    pc, k,                  \* its loop, and the record the loop is at
    removals,
    supertypes, subtypes, explicitAttr, inverseAttr,   \* of entities
    referent, elements,                                \* of types, aggregates
    entList, typeList, unnamedList, inverseList,       \* of schemas
    context,                \* SchemaLoadContext of the load
    pending, lastSchema, lastModule,   \* PendingSchemaModules
    schemaSlot, module      \* static variables of the generated library

loader      == <<load, image, path, pc, k>>
entities    == <<supertypes, subtypes, explicitAttr, inverseAttr>>
types       == <<referent, elements>>
lists       == <<entList, typeList, unnamedList, inverseList>>
pendings    == <<pending, lastSchema, lastModule>>
names       == <<nameOf, altNames>>
library     == <<schemaSlot, module>>
vars == <<registry, names, loader, removals, entities, types, lists, context,
          pendings, library>>

-----------------------------------------------------------------------------
(* The checks of InitializeSchemaFromImage, all made before anything is     *)
(* built.  "wellFormed" stands for version, sizes, offsets and strings.     *)

Count(kind) == Len(image[kind])

InSchema(i, first, count) == first <= i /\ i < first + count

(* Records [first, first + count) of a table with the given total.          *)
InTable(first, count, total) == first <= total /\ count <= total - first

ValidReference(img, r) ==
    \/ r.kind = "none"
    \/ /\ r.kind \in {"entity", "type"}
       /\ r.schema < Len(img.schemas)
       /\ r.index < IF r.kind = "entity" THEN img.schemas[r.schema + 1].entityCount
                                         ELSE img.schemas[r.schema + 1].typeCount
    \/ r.kind = "builtin"
    \/ r.kind = "aggregate" /\ r.index < Len(img.aggregates)

(* Runs of records, one after another from 0 on, that fill the table.       *)
Adjacent(s, first, count, total) ==
    IF s = <<>> THEN total = 0
    ELSE /\ s[1][first] = 0
         /\ \A i \in 2..Len(s) : s[i][first] = s[i - 1][first] + s[i - 1][count]
         /\ s[Len(s)][first] + s[Len(s)][count] = total

SchemasContiguous(img) ==
    /\ Adjacent(img.schemas, "firstEntity", "entityCount", Len(img.entities))
    /\ Adjacent(img.schemas, "firstType", "typeCount", Len(img.types))
    /\ \A i \in DOMAIN img.schemas :
          LET r == img.schemas[i]
          IN  /\ r.entityCount <= Len(img.entities) - r.firstEntity
              /\ r.typeCount <= Len(img.types) - r.firstType

(* Fault: supertypes may be references of any kind. *)
SupertypesAreEntities_Not(img, r) == TRUE
SupertypesAreEntities(img, r) ==
    \A j \in 1..r.supertypeCount : img.references[r.firstSupertype + j].kind = "entity"

EntitiesValid(img) ==
    /\ Adjacent(img.entities, "firstAttribute", "attributeCount", Len(img.attributes))
    /\ \A i \in DOMAIN img.entities :
          LET r == img.entities[i]
          IN  /\ r.schema < Len(img.schemas)
              /\ InSchema(i - 1, img.schemas[r.schema + 1].firstEntity,
                          img.schemas[r.schema + 1].entityCount)
              /\ InTable(r.firstSupertype, r.supertypeCount, Len(img.references))
              /\ r.attributeCount <= Len(img.attributes) - r.firstAttribute
              /\ SupertypesAreEntities(img, r)

TypesValid(img) ==
    \A i \in DOMAIN img.types :
        LET r == img.types[i]
        IN  /\ r.schema < Len(img.schemas)
            /\ InSchema(i - 1, img.schemas[r.schema + 1].firstType,
                        img.schemas[r.schema + 1].typeCount)
            /\ ValidReference(img, r.referent)
            /\ r.aggregate = NoIndex \/ r.aggregate < Len(img.aggregates)
            /\ InTable(r.firstElement, r.elementCount, Len(img.references))

AggregatesValid(img) ==
    \A i \in DOMAIN img.aggregates :
        /\ img.aggregates[i].schema < Len(img.schemas)
        /\ ValidReference(img, img.aggregates[i].referent)

RenamesValid(img) ==
    \A i \in DOMAIN img.renames :
        /\ img.renames[i].schema < Len(img.schemas)
        /\ img.renames[i].descriptor.kind \in {"entity", "type"}
        /\ ValidReference(img, img.renames[i].descriptor)

Valid(img) ==
    /\ img.wellFormed
    /\ SchemasContiguous(img)
    /\ \A i \in DOMAIN img.references : ValidReference(img, img.references[i])
    /\ EntitiesValid(img)
    /\ TypesValid(img)
    /\ \A i \in DOMAIN img.attributes : ValidReference(img, img.attributes[i].domain)
    /\ AggregatesValid(img)
    /\ RenamesValid(img)

(* What images are made of (schemaInit.h), numbers unsigned as there.        *)
Kinds      == {"none", "entity", "type", "builtin", "aggregate"}
References == [kind : Kinds, schema : Nat, index : Nat]
Images ==
    [schemas    : Seq([name : Int, firstEntity : Nat, entityCount : Nat,
                       firstType : Nat, typeCount : Nat]),
     entities   : Seq([name : STRING, schema : Nat, firstSupertype : Nat,
                       supertypeCount : Nat, firstAttribute : Nat, attributeCount : Nat]),
     types      : Seq([name : STRING, schema : Nat, referent : References,
                       aggregate : Nat \cup {NoIndex}, firstElement : Nat, elementCount : Nat]),
     attributes : Seq([kind : STRING, domain : References]),
     aggregates : Seq([schema : Nat, referent : References]),
     references : Seq(References),
     renames    : Seq([schema : Nat, descriptor : References, name : STRING]),
     wellFormed : BOOLEAN]

NamesDiffer(img) ==
    \A i, j \in DOMAIN img.schemas : img.schemas[i].name = img.schemas[j].name => i = j

(* An image is any numbers in its tables, where the code generated for the  *)
(* tables is consistent; it makes its aggregates itself.  The schemas of a  *)
(* library have slots and modules, here names, of their own.  No descriptor *)
(* is at the null pointer.                                                  *)
ASSUME ImagesAssumption ==
    /\ MaxLoads \in Nat
    /\ \A l \in 1..MaxLoads :
           /\ \A img \in PackedImages[l] : img \in Images /\ NamesDiffer(img)
           /\ \A img \in TableImages[l] :
                  img \in Images /\ NamesDiffer(img) /\ Valid(img) /\ img.aggregates = <<>>
ASSUME NullAssumption ==
    /\ NoSchema \notin Int
    /\ NoObject \notin (Kinds \cup {"schema", "attribute"}) \X (1..MaxLoads) \X Nat

-----------------------------------------------------------------------------
(* The descriptors of the load under way. *)
SchemaAt(i)    == <<"schema", load, i>>
EntityAt(i)    == <<"entity", load, i>>
TypeAt(i)      == <<"type", load, i>>
AggregateAt(i) == <<"aggregate", load, i>>
AttributeAt(i) == <<"attribute", load, i>>
SchemaOf(r)    == SchemaAt(r.schema + 1)

(* resolveReference: where a reference of the image leads. *)
Resolved(r) ==
    CASE r.kind = "entity"    -> EntityAt(image.schemas[r.schema + 1].firstEntity + r.index + 1)
      [] r.kind = "type"      -> TypeAt(image.schemas[r.schema + 1].firstType + r.index + 1)
      [] r.kind = "aggregate" -> AggregateAt(r.index + 1)
      [] r.kind = "builtin"   -> Builtin
      [] r.kind = "none"      -> NoObject

(* Entries first+1 .. first+count of the references, resolved. *)
ResolvedFrom(first, count) ==
    [j \in 1..count |-> Resolved(image.references[first + j])]

Set(f, o, v)    == [x \in DOMAIN f \cup {o} |-> IF x = o THEN v ELSE f[x]]
Appended(f, o, v) == [f EXCEPT ![o] = Append(@, v)]

(* Descriptors a schema's module will number, in the order they were made. *)
NoRecords   == [entities |-> <<>>, types |-> <<>>, attributes |-> <<>>]
Begun(m, s) == Set(m, s, NoRecords)

(* SchemaLoadContext::Record...: a schema without Begin gets an entry. *)
RecordedInContext(s, kind, d) ==
    LET m == IF s \in DOMAIN context THEN context ELSE Begun(context, s)
    IN  [m EXCEPT ![s][kind] = Append(@, d)]

(* PendingSchemaModules::Record...: ignored without Begin.  Find keeps the  *)
(* schema it was last asked for, and the entry it found or that there was   *)
(* none.  lastModule is the schema whose entry the pointer leads to.        *)
FoundModule(s) == IF lastSchema = s THEN lastModule
                  ELSE IF s \in DOMAIN pending THEN s ELSE NoObject
RecordPending(s, kind, d) ==
    /\ pending' = IF FoundModule(s) \in DOMAIN pending
                  THEN [pending EXCEPT ![FoundModule(s)][kind] = Append(@, d)]
                  ELSE pending
    /\ lastSchema' = s /\ lastModule' = FoundModule(s)

(* What a created entity or type is recorded in. *)
Record(s, kind, d) ==
    \/ path = "packed" /\ context' = RecordedInContext(s, kind, d) /\ UNCHANGED pendings
    \/ path = "tables" /\ RecordPending(s, kind, d) /\ UNCHANGED context

-----------------------------------------------------------------------------
(* Loops in the order they run. *)
Stages == [packed |-> <<"schemas", "entities", "types", "aggregates", "aggregateReferents",
                        "typeMetadata", "entityMetadata", "renames", "modules", "idle">>,
           tables |-> <<"schemas", "begin", "entities", "types", "renames",
                        "typeMetadata", "entityMetadata", "modules", "idle">>]
TableOf == [schemas |-> "schemas", begin |-> "schemas", modules |-> "schemas",
            entities |-> "entities", entityMetadata |-> "entities",
            types |-> "types", typeMetadata |-> "types",
            aggregates |-> "aggregates", aggregateReferents |-> "aggregates",
            renames |-> "renames"]

At(stage) == pc = stage /\ k <= Count(TableOf[stage])
Next1     == k' = k + 1 /\ UNCHANGED <<load, image, path, pc>>

LoopEnds ==
    /\ pc \notin {"idle", "failed", "crashed"} /\ k > Count(TableOf[pc])
    /\ pc' = LET s == Stages[path]
             IN  s[1 + CHOOSE i \in DOMAIN s : s[i] = pc]
    /\ k' = 1
    /\ UNCHANGED <<registry, names, load, image, path, removals, entities, types, lists,
                   context, pendings, library>>

(* A packed image is checked first; what fails a check changes nothing. *)
LoadImage ==
    /\ pc = "idle" /\ load < MaxLoads
    /\ load' = load + 1 /\ k' = 1
    /\ \/ /\ image' \in PackedImages[load'] /\ path' = "packed"
          /\ pc' = IF Valid(image') THEN "schemas" ELSE "idle"
       \/ image' \in TableImages[load'] /\ path' = "tables" /\ pc' = "schemas"
    /\ context' = << >>
    /\ UNCHANGED <<registry, names, removals, entities, types, lists, pendings, library>>

(* Fault: the entry is left to the first record. *)
CaptureBegun_Late(d) == context
CaptureBegun(d) == IF path = "packed" THEN Begun(context, d) ELSE context

CreateSchema ==
    LET d == SchemaAt(k)
        n == image.schemas[k].name
    IN  /\ At("schemas") /\ Next1
        /\ nameOf' = Set(nameOf, d, n)
        /\ entList' = Set(entList, d, <<>>) /\ typeList' = Set(typeList, d, <<>>)
        /\ unnamedList' = Set(unnamedList, d, <<>>) /\ inverseList' = Set(inverseList, d, <<>>)
        /\ schemaSlot' = Set(schemaSlot, n, d)
        /\ AddSchema(d, n)
        /\ context' = CaptureBegun(d)
        /\ UNCHANGED <<altNames, removals, entities, types, pendings, module>>

(* BeginSchemaModuleImage *)
BeginModule ==
    LET d == SchemaAt(k)
    IN  /\ At("begin") /\ Next1
        /\ pending' = Begun(pending, d)
        /\ lastSchema' = d /\ lastModule' = d
        /\ UNCHANGED <<registry, names, removals, entities, types, lists, context, library>>

CreateEntity ==
    LET d == EntityAt(k)
        r == image.entities[k]
    IN  /\ At("entities") /\ Next1
        /\ nameOf' = Set(nameOf, d, r.name)
        /\ supertypes' = Set(supertypes, d, <<>>) /\ subtypes' = Set(subtypes, d, <<>>)
        /\ explicitAttr' = Set(explicitAttr, d, <<>>) /\ inverseAttr' = Set(inverseAttr, d, <<>>)
        /\ entList' = Appended(entList, SchemaOf(r), d)
        /\ Record(SchemaOf(r), "entities", d)
        /\ UNCHANGED <<registry, altNames, removals, types, typeList, unnamedList,
                       inverseList, library>>

CreateType ==
    LET d == TypeAt(k)
        r == image.types[k]
    IN  /\ At("types") /\ Next1
        /\ nameOf' = Set(nameOf, d, r.name)
        /\ referent' = Set(referent, d, NoObject) /\ elements' = Set(elements, d, <<>>)
        /\ Record(SchemaOf(r), "types", d)
        /\ UNCHANGED <<registry, altNames, removals, entities, lists, library>>

CreateAggregate ==
    LET d == AggregateAt(k)
        s == SchemaOf(image.aggregates[k])
    IN  /\ At("aggregates") /\ Next1
        /\ referent' = Set(referent, d, NoObject)
        /\ unnamedList' = Appended(unnamedList, s, d)
        /\ UNCHANGED <<registry, names, removals, entities, elements, entList, typeList,
                       inverseList, context, pendings, library>>

ResolveAggregate ==
    /\ At("aggregateReferents") /\ Next1
    /\ referent' = [referent EXCEPT ![AggregateAt(k)] = Resolved(image.aggregates[k].referent)]
    /\ UNCHANGED <<registry, names, removals, entities, elements, lists, context,
                   pendings, library>>

(* The referent of an aggregate type is that of its packed aggregate. *)
CompleteType ==
    LET d == TypeAt(k)
        r == image.types[k]
    IN  /\ At("typeMetadata") /\ Next1
        /\ referent' = [referent EXCEPT ![d] =
               Resolved(IF r.aggregate = NoIndex THEN r.referent
                        ELSE image.aggregates[r.aggregate + 1].referent)]
        /\ elements' = [elements EXCEPT ![d] = ResolvedFrom(r.firstElement, r.elementCount)]
        /\ typeList' = Appended(typeList, SchemaOf(r), d)
        /\ AddType(d)
        /\ UNCHANGED <<names, removals, entities, entList, unnamedList, inverseList,
                       context, pendings, library>>

(* An entity gets its supertypes, each supertype this subtype, and its      *)
(* attributes; only then it enters the registry.                            *)
AttributesOf(r, inverse) ==
    Filter([j \in 1..r.attributeCount |-> r.firstAttribute + j],
           {a \in DOMAIN image.attributes : (image.attributes[a].kind = "inverse") = inverse})
AttributeObjects(numbers) == [j \in DOMAIN numbers |-> AttributeAt(numbers[j])]

Repeated(s, d) == [j \in 1..Cardinality({i \in DOMAIN s : s[i] = d}) |-> EntityAt(k)]

(* Fault: inverse attributes are recorded after the others. *)
MadeFor_Sorted(r) == AttributeObjects(AttributesOf(r, FALSE) \o AttributesOf(r, TRUE))
MadeFor(r) == [j \in 1..r.attributeCount |-> AttributeAt(r.firstAttribute + j)]

RecordAttributes(s, r) ==
    LET made == MadeFor(r)
        withAll(m) == [m EXCEPT ![s].attributes = @ \o made]
    IN  IF made = <<>> THEN UNCHANGED <<context, pendings>>
        ELSE \/ /\ path = "packed" /\ UNCHANGED pendings
                /\ context' = withAll(IF s \in DOMAIN context THEN context
                                      ELSE Begun(context, s))
             \/ /\ path = "tables" /\ UNCHANGED context
                /\ pending' = IF FoundModule(s) \in DOMAIN pending
                              THEN [pending EXCEPT ![FoundModule(s)].attributes = @ \o made]
                              ELSE pending
                /\ lastSchema' = s /\ lastModule' = FoundModule(s)

(* Each supertype and each attribute that is not inverse first invalidates  *)
(* the layouts of the entity, of its subtypes and so on down, with no note  *)
(* of where it has been: it never returns from a set of entities of which   *)
(* each has a subtype in the set.                                           *)
LinkedTo(supers)  == [e \in DOMAIN subtypes |-> subtypes[e] \o Repeated(supers, e)]
Endless(subs, d)  ==
    \E S \in SUBSET {e \in DOMAIN subs : e[2] = load} :
        d \in S /\ \A e \in S : Range(subs[e]) \cap S # {}
OverflowsAt(i) ==
    LET r      == image.entities[i]
        supers == ResolvedFrom(r.firstSupertype, r.supertypeCount)
    IN  \E n \in 0..r.supertypeCount :
            /\ n < r.supertypeCount \/ AttributesOf(r, FALSE) # <<>>
            /\ Endless(LinkedTo(SubSeq(supers, 1, n)), EntityAt(i))

CompleteEntity ==
    LET d      == EntityAt(k)
        r      == image.entities[k]
        supers == ResolvedFrom(r.firstSupertype, r.supertypeCount)
        inverses == AttributeObjects(AttributesOf(r, TRUE))
    IN  /\ At("entityMetadata") /\ ~OverflowsAt(k) /\ Next1
        /\ supertypes' = [supertypes EXCEPT ![d] = supers]
        /\ subtypes' = LinkedTo(supers)
        /\ explicitAttr' = [explicitAttr EXCEPT ![d] = AttributeObjects(AttributesOf(r, FALSE))]
        /\ inverseAttr' = [inverseAttr EXCEPT ![d] = inverses]
        /\ RecordAttributes(SchemaOf(r), r)
        /\ AddEntity(d)
        /\ inverseList' = IF inverses = <<>> THEN inverseList
                          ELSE Appended(inverseList, SchemaOf(r), d)
        /\ UNCHANGED <<names, removals, types, entList, typeList, unnamedList, library>>

(* The stack overflows and the program is gone. *)
Overflow ==
    /\ At("entityMetadata") /\ OverflowsAt(k)
    /\ pc' = "crashed"
    /\ UNCHANGED <<registry, names, load, image, path, k, removals, entities, types, lists,
                   context, pendings, library>>

AddRename ==
    LET r == image.renames[k]
        d == Resolved(r.descriptor)
    IN  /\ At("renames") /\ Next1
        /\ altNames' = Set(altNames, d, AltAdded(AltsOf(d), image.schemas[r.schema + 1].name, r.name))
        /\ UNCHANGED <<registry, nameOf, removals, entities, types, lists, context,
                       pendings, library>>

(* InitializeFromContext, and InitializeFromImage after Consume, which      *)
(* forgets the last schema if it is the one consumed.  A module whose       *)
(* counts are wrong is left without descriptors.                            *)
(* Fault: the last schema is kept.                                          *)
Forget_Not(s) == UNCHANGED <<lastSchema, lastModule>>
Forget(s) ==
    IF lastSchema = s THEN lastSchema' = NoObject /\ lastModule' = NoObject
    ELSE UNCHANGED <<lastSchema, lastModule>>

CountOf(table, i) == Cardinality({j \in DOMAIN image[table] : image[table][j].schema = i - 1})
CountsAgree(m, i) ==
    /\ Len(m.entities) = CountOf("entities", i)
    /\ Len(m.types) = CountOf("types", i)
    /\ Len(m.attributes) = Cardinality({j \in DOMAIN image.attributes :
           \E e \in DOMAIN image.entities :
               /\ image.entities[e].schema = i - 1
               /\ InSchema(j - 1, image.entities[e].firstAttribute,
                                  image.entities[e].attributeCount)})

Failed == [schema |-> NoObject, records |-> NoRecords]

InitializeFromContext ==
    LET s == SchemaAt(k)
    IN  /\ At("modules") /\ path = "packed"
        /\ IF s \in DOMAIN context
           THEN /\ module' = Set(module, nameOf[s], [schema |-> s, records |-> context[s]])
                /\ context' = Without(context, {s})
                /\ Next1
           ELSE pc' = "failed" /\ UNCHANGED <<module, context, load, image, path, k>>
        /\ UNCHANGED <<registry, names, removals, entities, types, lists, pendings, schemaSlot>>

InitializeFromImage ==
    LET s == SchemaAt(k)
    IN  /\ At("modules") /\ path = "tables" /\ Next1
        /\ module' = Set(module, nameOf[s],
               IF s \in DOMAIN pending /\ CountsAgree(pending[s], k)
               THEN [schema |-> s, records |-> pending[s]] ELSE Failed)
        /\ pending' = Without(pending, {s})
        /\ IF s \in DOMAIN pending THEN Forget(s) ELSE UNCHANGED <<lastSchema, lastModule>>
        /\ UNCHANGED <<registry, names, removals, entities, types, lists, context, schemaSlot>>

(* The client takes things out of the registry between loads. *)
RemoveFromRegistry ==
    /\ pc = "idle" /\ removals < MaxRemovals /\ removals' = removals + 1
    /\ \/ \E n \in DOMAIN primordialSwamp : RemoveEntity(n)
       \/ \E n \in DOMAIN active_schemas : RemoveSchema(n)
       \/ \E n \in DOMAIN active_types : RemoveType(n)
    /\ UNCHANGED <<names, loader, entities, types, lists, context, pendings, library>>

NoImage == [schemas |-> <<>>, entities |-> <<>>, types |-> <<>>, attributes |-> <<>>,
            aggregates |-> <<>>, references |-> <<>>, renames |-> <<>>, wellFormed |-> FALSE]

Init ==
    /\ primordialSwamp = << >> /\ active_schemas = << >> /\ active_types = << >>
    /\ entity_cnt = 0 /\ all_ents_cnt = 0
    /\ nameOf = << >> /\ altNames = << >>
    /\ load = 0 /\ image = NoImage /\ path = "packed" /\ pc = "idle" /\ k = 1
    /\ removals = 0
    /\ supertypes = << >> /\ subtypes = << >> /\ explicitAttr = << >> /\ inverseAttr = << >>
    /\ referent = << >> /\ elements = << >>
    /\ entList = << >> /\ typeList = << >> /\ unnamedList = << >> /\ inverseList = << >>
    /\ context = << >>
    /\ pending = << >> /\ lastSchema = NoObject /\ lastModule = NoObject
    /\ schemaSlot = << >> /\ module = << >>

Step ==
    \/ LoopEnds \/ CreateSchema \/ BeginModule \/ CreateEntity \/ CreateType
    \/ CreateAggregate \/ ResolveAggregate \/ CompleteType \/ CompleteEntity
    \/ Overflow \/ AddRename \/ InitializeFromContext \/ InitializeFromImage

Next == Step \/ LoadImage \/ RemoveFromRegistry

Spec == Init /\ [][Next]_vars

-----------------------------------------------------------------------------
(* Properties *)

Entities == DOMAIN supertypes
Schemas  == DOMAIN entList

(* Each of some entities of the image has a subtype among them. *)
SupertypesIn(img, i) ==
    LET r == img.entities[i]
        Number(ref) == img.schemas[ref.schema + 1].firstEntity + ref.index + 1
    IN  {Number(img.references[r.firstSupertype + j]) : j \in 1..r.supertypeCount}
SupertypesCyclic(img) ==
    \E S \in SUBSET DOMAIN img.entities :
        S # {} /\ \A e \in S : \E i \in S : e \in SupertypesIn(img, i)

(* A load that begins to build goes through to the end, modules included,   *)
(* and a load that the checks refuse leaves no descriptor behind            *)
(* (schemaModule.h:46-49).  What the checks miss is a cycle of supertypes:  *)
(* a load cut off half-way is one of an image that has one.                 *)
AllOrNothing ==
    /\ pc # "failed"
    /\ pc = "crashed" => SupertypesCyclic(image)
    /\ pc = "idle" =>
          \/ \A d \in DOMAIN nameOf : d[2] # load
          \/ /\ {d \in Entities : d[2] = load} = {EntityAt(i) : i \in DOMAIN image.entities}
             /\ \A s \in Schemas : s[2] = load =>
                    /\ module[nameOf[s]].schema = s
                    /\ schemaSlot[nameOf[s]] = s

(* What passes the checks never leads outside the tables: every pointer of  *)
(* a descriptor is null, builtin, or one to a descriptor of its load, and a *)
(* supertype is an entity.                                                  *)
PointersLead ==
    LET made == {d \in DOMAIN nameOf \cup DOMAIN referent : TRUE}
    IN  /\ \A d \in Entities : \A e \in Range(supertypes[d]) : e \in Entities /\ e[2] = d[2]
        /\ \A d \in DOMAIN referent :
               referent[d] \in {NoObject, Builtin} \cup {e \in made : e[2] = d[2]}
        /\ \A d \in DOMAIN elements : \A e \in Range(elements[d]) :
               e \in {NoObject, Builtin} \cup {m \in made : m[2] = d[2]}

(* Generated ids are stable: a module numbers the entities and types of its *)
(* schema as the schema lists them, and their attributes entity by entity,  *)
(* each once and as the image has them, however records of several schemas  *)
(* are mixed, attributes sorted into two lists, and captured either way.    *)
AttributesIn(e) == Range(explicitAttr[e]) \cup Range(inverseAttr[e])
InOrder(attrs, ents) ==
    /\ Range(attrs) = UNION {AttributesIn(e) : e \in Range(ents)}
    /\ \A i, j \in DOMAIN attrs : i < j =>
           \A p, q \in DOMAIN ents :
               attrs[i] \in AttributesIn(ents[p]) /\ attrs[j] \in AttributesIn(ents[q]) =>
                   p < q \/ (p = q /\ attrs[i][3] < attrs[j][3])
Numbers(m) == /\ m.records.entities = entList[m.schema]
              /\ m.records.types = typeList[m.schema]
              /\ InOrder(m.records.attributes, entList[m.schema])
ModulesNumberDescriptors ==
    pc = "idle" => \A n \in DOMAIN module : module[n].schema # NoObject => Numbers(module[n])

(* The entry PendingSchemaModules remembers is one it still has, and the    *)
(* one it would find.                                                       *)
LastModuleCurrent ==
    lastSchema # NoObject =>
        lastModule = IF lastSchema \in DOMAIN pending THEN lastSchema ELSE NoObject

(* Names of different entities do not meet.  (The swamp keeps the first.)   *)
NamesOf(e)  == {nameOf[e]} \cup AltNamesIn(AltsOf(e))
Distinct    == \A d, e \in Entities : d # e => NamesOf(d) \cap NamesOf(e) = {}

(* An entity is found under the name that the current schema uses for it,   *)
(* and under no other of its names (Registry.cc:69-75).                     *)
NameIn(e, s) == IF RenamesFor(AltsOf(e), s) = {} THEN nameOf[e] ELSE RenamedIn(AltsOf(e), s)
FoundUnder(e) ==
    \A s \in DOMAIN active_schemas : \A n \in NamesOf(e) :
        FindEntity(n, s) = IF n = NameIn(e, s) THEN e ELSE NoObject

TablesFindRenames ==
    pc = "idle" /\ removals = 0 /\ Distinct =>
        \A e \in Entities :
            (AltsOf(e) = <<>> \/ (path = "tables" /\ e[2] = load)) => FoundUnder(e)

(* An entity that is removed under its own name cannot be found any more    *)
(* under another one, where names of different entities do not meet: what   *)
(* RemoveClones takes out under a shared name may be another's entry.       *)
RemovedIsGone ==
    [][Distinct =>
         \A e \in Range(primordialSwamp) :
             nameOf[e] \in DOMAIN primordialSwamp \ DOMAIN primordialSwamp'
             /\ primordialSwamp[nameOf[e]] = e => e \notin Range(primordialSwamp')]_vars

(* An entity of a packed image, too, is found under the name that the       *)
(* current schema uses for it (Registry.cc:162-167).                        *)
PackedFindRenames ==
    pc = "idle" /\ removals = 0 /\ Distinct =>
        \A e \in Entities : FoundUnder(e)
==============================================================================
