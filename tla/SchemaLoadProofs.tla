--------------------------- MODULE SchemaLoadProofs ---------------------------
(* For any images, in any order of loads and of records: the module that    *)
(* PendingSchemaModules remembers is never a stale one; the pointers of     *)
(* descriptors stay inside their load; a load is complete or leaves nothing *)
(* behind; the numbers that modules give to descriptors follow the lists of *)
(* their schemas and stay; and the registry finds and removes entities      *)
(* under all the names they have, where those of different entities do not  *)
(* meet.                                                                    *)
EXTENDS SchemaLoad, FiniteSetTheorems, SequenceTheorems, InductionLemmas

(* What a search of the map would find. *)
Lookup(s) == IF s \in DOMAIN pending THEN s ELSE NoObject

LEMMA FindIsLookup ==
    ASSUME LastModuleCurrent, NEW s, s # NoObject
    PROVE  FoundModule(s) = Lookup(s)
  BY DEF LastModuleCurrent, FoundModule, Lookup

(* Recording neither adds nor drops an entry, and remembers what it found.  *)
LEMMA RecordingKeeps ==
    ASSUME LastModuleCurrent, NEW s, lastSchema' = s, lastModule' = FoundModule(s),
           DOMAIN pending' = DOMAIN pending
    PROVE  LastModuleCurrent'
  BY FindIsLookup DEF LastModuleCurrent, Lookup

LEMMA RecordKeeps ==
    ASSUME LastModuleCurrent, NEW s, NEW kind, NEW d, Record(s, kind, d)
    PROVE  LastModuleCurrent'
  <1>1. CASE UNCHANGED pendings
    BY <1>1 DEF LastModuleCurrent, pendings
  <1>2. CASE RecordPending(s, kind, d)
    <2>1. DOMAIN pending' = DOMAIN pending
      BY <1>2 DEF RecordPending
    <2> QED
      BY <1>2, <2>1, RecordingKeeps DEF RecordPending
  <1> QED
    BY <1>1, <1>2 DEF Record

LEMMA AttributesKeep ==
    ASSUME LastModuleCurrent, NEW s, NEW r, RecordAttributes(s, r)
    PROVE  LastModuleCurrent'
  <1>1. CASE UNCHANGED pendings
    BY <1>1 DEF LastModuleCurrent, pendings
  <1>2. CASE /\ DOMAIN pending' = DOMAIN pending
             /\ lastSchema' = s /\ lastModule' = FoundModule(s)
    BY <1>2, RecordingKeeps
  <1> QED
    BY <1>1, <1>2 DEF RecordAttributes

(* LastModuleCurrent holds through captures, consumption and new loads.     *)
THEOREM RememberedModuleIsCurrent == Spec => []LastModuleCurrent
  <1>1. Init => LastModuleCurrent
    BY DEF Init, LastModuleCurrent
  <1>2. LastModuleCurrent /\ [Next]_vars => LastModuleCurrent'
    <2> SUFFICES ASSUME LastModuleCurrent, [Next]_vars PROVE LastModuleCurrent'
      OBVIOUS
    <2>1. CASE UNCHANGED pendings
      BY <2>1 DEF LastModuleCurrent, pendings
    <2>2. CASE BeginModule
      BY <2>2 DEF BeginModule, Begun, Set, LastModuleCurrent
    <2>3. CASE CreateEntity
      BY <2>3, RecordKeeps DEF CreateEntity
    <2>4. CASE CreateType
      BY <2>4, RecordKeeps DEF CreateType
    <2>5. CASE CompleteEntity
      BY <2>5, AttributesKeep DEF CompleteEntity
    <2>6. CASE InitializeFromImage
      <3> DEFINE s == SchemaAt(k)
      <3>1. DOMAIN pending' = DOMAIN pending \ {s}
        BY <2>6 DEF InitializeFromImage, Without, Restrict
      <3>2. CASE s \in DOMAIN pending /\ lastSchema = s
        BY <2>6, <3>2 DEF InitializeFromImage, Forget, LastModuleCurrent
      <3>3. CASE s \in DOMAIN pending /\ lastSchema # s
        <4>1. lastSchema' = lastSchema /\ lastModule' = lastModule
          BY <2>6, <3>3 DEF InitializeFromImage, Forget
        <4> QED
          BY <3>1, <3>3, <4>1 DEF LastModuleCurrent
      <3>4. CASE s \notin DOMAIN pending
        <4>1. lastSchema' = lastSchema /\ lastModule' = lastModule
          BY <2>6, <3>4 DEF InitializeFromImage
        <4> QED
          BY <3>1, <3>4, <4>1 DEF LastModuleCurrent
      <3> QED
        BY <3>2, <3>3, <3>4
    <2>7. CASE LoopEnds \/ CreateSchema \/ CreateAggregate \/ ResolveAggregate \/ CompleteType
               \/ AddRename \/ Overflow \/ InitializeFromContext \/ LoadImage \/ RemoveFromRegistry
      BY <2>1, <2>7 DEF LoopEnds, CreateSchema, CreateAggregate, ResolveAggregate, CompleteType,
         Overflow, AddRename, InitializeFromContext, LoadImage, RemoveFromRegistry
    <2>8. CASE UNCHANGED vars
      BY <2>1, <2>8 DEF vars
    <2> QED
      BY <2>2, <2>3, <2>4, <2>5, <2>6, <2>7, <2>8 DEF Next, Step
  <1> QED
    BY <1>1, <1>2, PTL DEF Spec

-----------------------------------------------------------------------------
(* The load under way: its image is a checked one, and its loops run in order *)

Active == pc \notin {"idle", "failed", "crashed"}

PackedStages == {"schemas", "entities", "types", "aggregates", "aggregateReferents",
                 "typeMetadata", "entityMetadata", "renames", "modules"}
TableStages  == {"schemas", "begin", "entities", "types", "renames", "typeMetadata",
                 "entityMetadata", "modules"}

LoadInv ==
    /\ load \in Nat /\ load <= MaxLoads /\ k \in Nat \ {0}
    /\ path \in {"packed", "tables"}
    /\ pc \in {"idle", "failed", "crashed"} \cup (IF path = "packed" THEN PackedStages ELSE TableStages)
    /\ Active => /\ image \in Images /\ Valid(image) /\ NamesDiffer(image)
                 /\ load \in 1..MaxLoads
                 /\ path = "tables" => image.aggregates = <<>>

(* The loop that follows another.                                             *)
Follows(p, s, t) ==
    IF p = "packed"
    THEN <<s, t>> \in {<<"schemas", "entities">>, <<"entities", "types">>,
                       <<"types", "aggregates">>, <<"aggregates", "aggregateReferents">>,
                       <<"aggregateReferents", "typeMetadata">>,
                       <<"typeMetadata", "entityMetadata">>, <<"entityMetadata", "renames">>,
                       <<"renames", "modules">>, <<"modules", "idle">>}
    ELSE <<s, t>> \in {<<"schemas", "begin">>, <<"begin", "entities">>,
                       <<"entities", "types">>, <<"types", "renames">>,
                       <<"renames", "typeMetadata">>, <<"typeMetadata", "entityMetadata">>,
                       <<"entityMetadata", "modules">>, <<"modules", "idle">>}

LEMMA PackedOrder ==
    ASSUME NEW s, NEW t, NEW stage, s = Stages["packed"], stage \in PackedStages,
           t = s[1 + CHOOSE i \in DOMAIN s : s[i] = stage]
    PROVE  Follows("packed", stage, t)
<1>1. /\ DOMAIN s = 1..10
      /\ s[1] = "schemas" /\ s[2] = "entities" /\ s[3] = "types" /\ s[4] = "aggregates"
      /\ s[5] = "aggregateReferents" /\ s[6] = "typeMetadata" /\ s[7] = "entityMetadata"
      /\ s[8] = "renames" /\ s[9] = "modules" /\ s[10] = "idle"
  BY DEF Stages
<1> DEFINE c == CHOOSE i \in DOMAIN s : s[i] = stage
<1>2. c \in 1..10 /\ s[c] = stage
  <2>1. \E i \in DOMAIN s : s[i] = stage
    BY <1>1 DEF PackedStages
  <2> QED BY <1>1, <2>1
<1>3. t = s[1 + c]
  OBVIOUS
<1> HIDE DEF c
<1> QED BY <1>1, <1>2, <1>3 DEF PackedStages, Follows

LEMMA TablesOrder ==
    ASSUME NEW s, NEW t, NEW stage, s = Stages["tables"], stage \in TableStages,
           t = s[1 + CHOOSE i \in DOMAIN s : s[i] = stage]
    PROVE  Follows("tables", stage, t)
<1>1. /\ DOMAIN s = 1..9
      /\ s[1] = "schemas" /\ s[2] = "begin" /\ s[3] = "entities" /\ s[4] = "types"
      /\ s[5] = "renames" /\ s[6] = "typeMetadata" /\ s[7] = "entityMetadata"
      /\ s[8] = "modules" /\ s[9] = "idle"
  BY DEF Stages
<1> DEFINE c == CHOOSE i \in DOMAIN s : s[i] = stage
<1>2. c \in 1..9 /\ s[c] = stage
  <2>1. \E i \in DOMAIN s : s[i] = stage
    BY <1>1 DEF TableStages
  <2> QED BY <1>1, <2>1
<1>3. t = s[1 + c]
  OBVIOUS
<1> HIDE DEF c
<1> QED BY <1>1, <1>2, <1>3 DEF TableStages, Follows

LEMMA LoopFollows == ASSUME LoadInv, LoopEnds PROVE Follows(path, pc, pc')
<1>1. /\ Active /\ pc' = LET s == Stages[path] IN s[1 + CHOOSE i \in DOMAIN s : s[i] = pc]
  BY DEF LoopEnds, Active
<1>2. CASE path = "packed"
  BY <1>1, <1>2, PackedOrder DEF LoadInv, Active
<1>3. CASE path = "tables"
  BY <1>1, <1>3, TablesOrder DEF LoadInv, Active
<1> QED BY <1>2, <1>3 DEF LoadInv

(* A step on a record of some loop.                                           *)
RecordStep(stage) == At(stage) /\ Next1

LEMMA StepKinds ==
    ASSUME Step
    PROVE  \/ LoopEnds
           \/ \E stage \in PackedStages \cup TableStages : RecordStep(stage)
           \/ pc = "modules" /\ pc' = "failed" /\ UNCHANGED <<load, image, path, k>>
           \/ pc = "entityMetadata" /\ pc' = "crashed" /\ UNCHANGED <<load, image, path, k>>
BY DEF Step, CreateSchema, BeginModule, CreateEntity, CreateType, CreateAggregate,
       ResolveAggregate, CompleteType, CompleteEntity, Overflow, AddRename, InitializeFromContext,
       InitializeFromImage, RecordStep, At, PackedStages, TableStages

(* An overflow leaves everything else as it was.                              *)
LEMMA OverflowKeeps ==
    ASSUME Overflow
    PROVE  /\ pc = "entityMetadata" /\ pc' = "crashed"
           /\ UNCHANGED <<registry, names, load, image, path, k, removals, entities, types,
                          lists, context, pendings, library>>
BY DEF Overflow, At

LEMMA InitLoadInv == Init => LoadInv
BY ImagesAssumption DEF Init, LoadInv, Active

LEMMA NextLoadInv == LoadInv /\ [Next]_vars => LoadInv'
<1> SUFFICES ASSUME LoadInv, [Next]_vars PROVE LoadInv'
  OBVIOUS
<1>1. CASE LoopEnds
  <2>1. Follows(path, pc, pc')
    BY <1>1, LoopFollows
  <2>2. k' = 1 /\ UNCHANGED <<load, image, path>> /\ Active
    BY <1>1 DEF LoopEnds, Active
  <2> QED BY <2>1, <2>2 DEF LoadInv, Active, Follows, PackedStages, TableStages
<1>2. ASSUME NEW stage \in PackedStages \cup TableStages, RecordStep(stage) PROVE LoadInv'
  BY <1>2 DEF RecordStep, At, Next1, LoadInv, Active
<1>3. CASE pc' \in {"failed", "crashed"} /\ UNCHANGED <<load, image, path, k>>
  BY <1>3 DEF LoadInv, Active
<1>4. CASE LoadImage
  <2>1. /\ load' = load + 1 /\ load' \in 1..MaxLoads /\ k' = 1
    BY <1>4, ImagesAssumption DEF LoadImage, LoadInv
  <2>2. CASE /\ image' \in PackedImages[load'] /\ path' = "packed"
             /\ pc' = IF Valid(image') THEN "schemas" ELSE "idle"
    <3>1. image' \in Images /\ NamesDiffer(image')
      BY <2>1, <2>2, ImagesAssumption
    <3>2. NamesDiffer(image)' <=> NamesDiffer(image')
      BY DEF NamesDiffer
    <3>3. Valid(image)' <=> Valid(image')
      BY DEF Valid, SchemasContiguous, ValidReference, EntitiesValid, TypesValid,
             AggregatesValid, RenamesValid
    <3> QED BY <2>1, <2>2, <3>1, <3>2, <3>3 DEF LoadInv, Active, PackedStages
  <2>3. CASE image' \in TableImages[load'] /\ path' = "tables" /\ pc' = "schemas"
    <3>1. image' \in Images /\ NamesDiffer(image') /\ Valid(image') /\ image'.aggregates = <<>>
      BY <2>1, <2>3, ImagesAssumption
    <3>2. NamesDiffer(image)' <=> NamesDiffer(image')
      BY DEF NamesDiffer
    <3>3. Valid(image)' <=> Valid(image')
      BY DEF Valid, SchemasContiguous, ValidReference, EntitiesValid, TypesValid,
             AggregatesValid, RenamesValid
    <3> QED BY <2>1, <2>3, <3>1, <3>2, <3>3 DEF LoadInv, Active, TableStages
  <2> QED BY <1>4, <2>2, <2>3 DEF LoadImage
<1>5. CASE RemoveFromRegistry \/ UNCHANGED vars
  BY <1>5 DEF RemoveFromRegistry, vars, loader, LoadInv, Active
<1> QED BY <1>1, <1>2, <1>3, <1>4, <1>5, StepKinds DEF Next

-----------------------------------------------------------------------------
(* The descriptors that a load has made when a loop begins *)

Here(d) == d \in DOMAIN nameOf \cup DOMAIN referent

LaterThanTypes    == {"aggregates", "aggregateReferents", "typeMetadata", "entityMetadata",
                      "renames", "modules"}
LaterThanEntities == LaterThanTypes \cup {"types"}
LaterThanAggregates == LaterThanTypes \ {"aggregates"}

MadeInv ==
    /\ \A i \in 1..Len(image.entities) :
           pc \in LaterThanEntities \/ (pc = "entities" /\ i < k) =>
               EntityAt(i) \in Entities
    /\ \A i \in 1..Len(image.types) :
           pc \in LaterThanTypes \/ (pc = "types" /\ i < k) => TypeAt(i) \in DOMAIN nameOf
    /\ \A i \in 1..Len(image.aggregates) :
           pc \in LaterThanAggregates \/ (pc = "aggregates" /\ i < k) =>
               AggregateAt(i) \in DOMAIN referent

Named == Entities \subseteq DOMAIN nameOf

SchemaRecords == [name : Int, firstEntity : Nat, entityCount : Nat, firstType : Nat,
                  typeCount : Nat]

LEMMA SchemaTyped ==
    ASSUME LoadInv, Active, NEW i \in Nat, i < Len(image.schemas)
    PROVE  /\ i + 1 \in DOMAIN image.schemas
           /\ image.schemas[i + 1] \in SchemaRecords
           /\ image.schemas[i + 1].firstEntity \in Nat
           /\ image.schemas[i + 1].entityCount \in Nat
           /\ image.schemas[i + 1].firstType \in Nat
           /\ image.schemas[i + 1].typeCount \in Nat
<1>1. image.schemas \in Seq(SchemaRecords)
  BY DEF LoadInv, Images, SchemaRecords
<1>2. DOMAIN image.schemas = 1..Len(image.schemas) /\ Len(image.schemas) \in Nat
  BY <1>1
<1>3. i + 1 \in DOMAIN image.schemas /\ image.schemas[i + 1] \in SchemaRecords
  BY <1>1, <1>2
<1> QED BY <1>3 DEF SchemaRecords

(* Where an image that was checked leads: into its tables.                    *)
LEMMA ReferencesFit ==
    ASSUME LoadInv, Active, NEW r \in References, ValidReference(image, r)
    PROVE  /\ r.kind = "entity" => image.schemas[r.schema + 1].firstEntity + r.index + 1
                                       \in 1..Len(image.entities)
           /\ r.kind = "type" => image.schemas[r.schema + 1].firstType + r.index + 1
                                       \in 1..Len(image.types)
           /\ r.kind = "aggregate" => r.index + 1 \in 1..Len(image.aggregates)
<1>1. r.kind \in Kinds /\ r.schema \in Nat /\ r.index \in Nat
  BY DEF References
<1>2. /\ Len(image.entities) \in Nat /\ Len(image.types) \in Nat
      /\ Len(image.aggregates) \in Nat
  BY DEF LoadInv, Images
<1>4. CASE r.kind = "entity"
  <2> DEFINE s == image.schemas[r.schema + 1]
  <2>1. r.schema < Len(image.schemas) /\ r.index < s.entityCount
    BY <1>4 DEF ValidReference
  <2>2. /\ s.firstEntity \in Nat /\ s.entityCount \in Nat
        /\ r.schema + 1 \in DOMAIN image.schemas
    BY <1>1, <2>1, SchemaTyped
  <2>3. s.entityCount <= Len(image.entities) - s.firstEntity
    BY <2>2 DEF LoadInv, Valid, SchemasContiguous
  <2> HIDE DEF s
  <2>4. s.firstEntity + r.index + 1 \in 1..Len(image.entities)
    BY <1>1, <1>2, <2>1, <2>2, <2>3
  <2> QED BY <1>4, <2>4 DEF s
<1>5. CASE r.kind = "type"
  <2> DEFINE s == image.schemas[r.schema + 1]
  <2>1. r.schema < Len(image.schemas) /\ r.index < s.typeCount
    BY <1>5 DEF ValidReference
  <2>2. /\ s.firstType \in Nat /\ s.typeCount \in Nat
        /\ r.schema + 1 \in DOMAIN image.schemas
    BY <1>1, <2>1, SchemaTyped
  <2>3. s.typeCount <= Len(image.types) - s.firstType
    BY <2>2 DEF LoadInv, Valid, SchemasContiguous
  <2> HIDE DEF s
  <2>4. s.firstType + r.index + 1 \in 1..Len(image.types)
    BY <1>1, <1>2, <2>1, <2>2, <2>3
  <2> QED BY <1>5, <2>4 DEF s
<1>6. CASE r.kind = "aggregate"
  BY <1>1, <1>2, <1>6 DEF ValidReference
<1> QED BY <1>4, <1>5, <1>6

(* Resolved once the descriptors are there, it leads to one of the load.      *)
LEMMA ResolvedHere ==
    ASSUME LoadInv, MadeInv, Named, pc \in LaterThanAggregates, NEW r \in References,
           ValidReference(image, r)
    PROVE  /\ Resolved(r) \in {NoObject, Builtin} \cup {e \in {d : d \in DOMAIN nameOf
                                          \cup DOMAIN referent} : e[2] = load}
           /\ r.kind = "entity" => Resolved(r) \in Entities /\ Resolved(r)[2] = load
<1>0. Active /\ pc \in LaterThanTypes /\ pc \in LaterThanEntities
  BY DEF Active, LaterThanAggregates, LaterThanTypes, LaterThanEntities
<1>1. r.kind \in Kinds
  BY DEF References
<1>2. CASE r.kind = "entity"
  <2>1. Resolved(r) = EntityAt(image.schemas[r.schema + 1].firstEntity + r.index + 1)
    BY <1>2 DEF Resolved
  <2>2. Resolved(r) \in Entities
    BY <1>0, <1>2, <2>1, ReferencesFit DEF MadeInv
  <2>3. Resolved(r)[2] = load
    BY <2>1 DEF EntityAt
  <2> QED BY <2>2, <2>3 DEF Named
<1>3. CASE r.kind = "type"
  <2>1. Resolved(r) = TypeAt(image.schemas[r.schema + 1].firstType + r.index + 1)
    BY <1>3 DEF Resolved
  <2>2. Resolved(r) \in DOMAIN nameOf
    BY <1>0, <1>3, <2>1, ReferencesFit DEF MadeInv
  <2>3. Resolved(r)[2] = load
    BY <2>1 DEF TypeAt
  <2> QED BY <1>3, <2>2, <2>3
<1>4. CASE r.kind = "aggregate"
  <2>1. Resolved(r) = AggregateAt(r.index + 1)
    BY <1>4 DEF Resolved
  <2>2. Resolved(r) \in DOMAIN referent
    BY <1>0, <1>4, <2>1, ReferencesFit DEF MadeInv
  <2>3. Resolved(r)[2] = load
    BY <2>1 DEF AggregateAt
  <2> QED BY <1>4, <2>2, <2>3
<1>5. CASE r.kind \in {"builtin", "none"}
  BY <1>5 DEF Resolved
<1> QED BY <1>1, <1>2, <1>3, <1>4, <1>5 DEF Kinds

-----------------------------------------------------------------------------
(* Descriptors are made and never forgotten.                                  *)

LEMMA Grows ==
    ASSUME [Next]_vars
    PROVE  /\ Entities \subseteq Entities' /\ DOMAIN nameOf \subseteq DOMAIN nameOf'
           /\ DOMAIN referent \subseteq DOMAIN referent'
<1> USE DEF Entities, names, entities, types, Set
<1>1. CASE LoopEnds \/ BeginModule \/ ResolveAggregate \/ CompleteType \/ CompleteEntity
            \/ AddRename \/ Overflow \/ InitializeFromContext \/ InitializeFromImage \/ LoadImage
            \/ RemoveFromRegistry \/ UNCHANGED vars
  BY <1>1 DEF LoopEnds, BeginModule, ResolveAggregate, CompleteType, CompleteEntity, Overflow, AddRename,
     InitializeFromContext, InitializeFromImage, LoadImage, RemoveFromRegistry, vars
<1>2. CASE CreateSchema
  BY <1>2 DEF CreateSchema
<1>3. CASE CreateEntity
  BY <1>3 DEF CreateEntity
<1>4. CASE CreateType \/ CreateAggregate
  BY <1>4 DEF CreateType, CreateAggregate
<1> QED BY <1>1, <1>2, <1>3, <1>4 DEF Next, Step

LEMMA NextNamed == Named /\ [Next]_vars => Named'
<1> SUFFICES ASSUME Named, [Next]_vars PROVE Named'
  OBVIOUS
<1>1. CASE CreateEntity
  BY <1>1 DEF CreateEntity, Named, Entities, Set
<1>2. CASE ~CreateEntity
  <2>1. Entities' = Entities
    BY <1>2 DEF Next, Step, Entities, entities, LoopEnds, CreateSchema, BeginModule, CreateType,
       CreateAggregate, ResolveAggregate, CompleteType, CompleteEntity, Overflow, AddRename,
       InitializeFromContext, InitializeFromImage, LoadImage, RemoveFromRegistry, vars
  <2> QED BY <2>1, Grows DEF Named
<1> QED BY <1>1, <1>2

(* What each of the three loops has made.                                     *)
LEMMA LoopsMake ==
    ASSUME LoadInv, Step
    PROVE  /\ pc = "entities" => \/ LoopEnds
                                 \/ RecordStep("entities") /\ EntityAt(k) \in Entities'
           /\ pc = "types" => \/ LoopEnds
                              \/ RecordStep("types") /\ TypeAt(k) \in DOMAIN nameOf'
           /\ pc = "aggregates" => \/ LoopEnds
                                   \/ RecordStep("aggregates")
                                      /\ AggregateAt(k) \in DOMAIN referent'
<1> USE DEF RecordStep, At, Set, Entities
<1>1. CASE LoopEnds
  BY <1>1
<1>2. CASE CreateEntity
  BY <1>2 DEF CreateEntity
<1>3. CASE CreateType
  BY <1>3 DEF CreateType
<1>4. CASE CreateAggregate
  BY <1>4 DEF CreateAggregate
<1>5. CASE pc \notin {"entities", "types", "aggregates"}
  BY <1>5
<1> QED
  BY <1>1, <1>2, <1>3, <1>4, <1>5 DEF Step, CreateSchema, BeginModule, ResolveAggregate,
     CompleteType, CompleteEntity, Overflow, AddRename, InitializeFromContext, InitializeFromImage

LEMMA NextMadeInv == LoadInv /\ MadeInv /\ [Next]_vars => MadeInv'
<1> SUFFICES ASSUME LoadInv, MadeInv, [Next]_vars PROVE MadeInv'
  OBVIOUS
<1> USE DEF LaterThanTypes, LaterThanEntities, LaterThanAggregates
<1>1. CASE LoadImage
  <2>1. pc' \in {"idle", "schemas"}
    BY <1>1 DEF LoadImage
  <2> QED BY <2>1 DEF MadeInv
<1>2. CASE RemoveFromRegistry \/ UNCHANGED vars
  <2>1. UNCHANGED <<pc, k, image, load>>
    BY <1>2 DEF RemoveFromRegistry, vars, loader
  <2> QED BY <2>1, Grows DEF MadeInv, EntityAt, TypeAt, AggregateAt
<1>3. CASE Step
  <2>0. /\ k \in Nat \ {0}
        /\ pc \in PackedStages \cup TableStages \cup {"idle", "failed", "crashed"}
    BY DEF LoadInv
  <2>1. CASE LoopEnds
    <3>1. /\ k > Count(TableOf[pc]) /\ k' = 1 /\ Follows(path, pc, pc') /\ Active
          /\ UNCHANGED <<load, image, path>>
      BY <2>1, LoopFollows DEF LoopEnds, Active
    <3>2. /\ pc = "entities" => k > Len(image.entities)
          /\ pc = "types" => k > Len(image.types)
          /\ pc = "aggregates" => k > Len(image.aggregates)
      BY <3>1 DEF Count, TableOf
    <3>3. /\ Len(image.entities) \in Nat /\ Len(image.types) \in Nat
          /\ Len(image.aggregates) \in Nat
          /\ path = "tables" => Len(image.aggregates) = 0
      <4>1. image \in Images /\ (path = "tables" => image.aggregates = <<>>)
        BY <3>1 DEF LoadInv
      <4>2. /\ Len(image.entities) \in Nat /\ Len(image.types) \in Nat
            /\ Len(image.aggregates) \in Nat
        BY <4>1 DEF Images
      <4> QED BY <4>1, <4>2
    <3>4. ASSUME NEW i \in 1..Len(image.entities),
                 pc' \in LaterThanEntities \/ (pc' = "entities" /\ i < 1)
          PROVE  EntityAt(i) \in Entities
      BY <2>0, <3>1, <3>2, <3>3, <3>4 DEF MadeInv, Follows
    <3>5. ASSUME NEW i \in 1..Len(image.types),
                 pc' \in LaterThanTypes \/ (pc' = "types" /\ i < 1)
          PROVE  TypeAt(i) \in DOMAIN nameOf
      BY <2>0, <3>1, <3>2, <3>3, <3>5 DEF MadeInv, Follows
    <3>6. ASSUME NEW i \in 1..Len(image.aggregates),
                 pc' \in LaterThanAggregates \/ (pc' = "aggregates" /\ i < 1)
          PROVE  AggregateAt(i) \in DOMAIN referent
      <4>1. path = "packed"
        BY <3>3 DEF LoadInv
      <4>2. pc \in LaterThanAggregates \/ pc = "aggregates"
        BY <3>1, <3>6, <4>1 DEF Follows
      <4> QED BY <2>0, <3>2, <3>3, <4>2 DEF MadeInv
    <3> QED
      BY <3>1, <3>4, <3>5, <3>6, Grows DEF MadeInv, EntityAt, TypeAt, AggregateAt
  <2>2. ASSUME NEW stage \in PackedStages \cup TableStages, RecordStep(stage), ~LoopEnds
        PROVE  MadeInv'
    <3>1. /\ pc' = pc /\ k' = k + 1 /\ UNCHANGED <<load, image>>
      BY <2>2 DEF RecordStep, Next1
    <3>2. /\ pc = "entities" => EntityAt(k) \in Entities'
          /\ pc = "types" => TypeAt(k) \in DOMAIN nameOf'
          /\ pc = "aggregates" => AggregateAt(k) \in DOMAIN referent'
      BY <1>3, <2>2, LoopsMake
    <3>3. ASSUME NEW i \in 1..Len(image.entities),
                 pc \in LaterThanEntities \/ (pc = "entities" /\ i < k + 1)
          PROVE  EntityAt(i) \in Entities'
      <4>1. CASE pc = "entities" /\ i = k
        BY <3>2, <4>1
      <4>2. CASE ~(pc = "entities" /\ i = k)
        BY <2>0, <3>3, <4>2, Grows DEF MadeInv
      <4> QED BY <4>1, <4>2
    <3>4. ASSUME NEW i \in 1..Len(image.types),
                 pc \in LaterThanTypes \/ (pc = "types" /\ i < k + 1)
          PROVE  TypeAt(i) \in DOMAIN nameOf'
      <4>1. CASE pc = "types" /\ i = k
        BY <3>2, <4>1
      <4>2. CASE ~(pc = "types" /\ i = k)
        BY <2>0, <3>4, <4>2, Grows DEF MadeInv
      <4> QED BY <4>1, <4>2
    <3>5. ASSUME NEW i \in 1..Len(image.aggregates),
                 pc \in LaterThanAggregates \/ (pc = "aggregates" /\ i < k + 1)
          PROVE  AggregateAt(i) \in DOMAIN referent'
      <4>1. CASE pc = "aggregates" /\ i = k
        BY <3>2, <4>1
      <4>2. CASE ~(pc = "aggregates" /\ i = k)
        BY <2>0, <3>5, <4>2, Grows DEF MadeInv
      <4> QED BY <4>1, <4>2
    <3> QED BY <3>1, <3>3, <3>4, <3>5 DEF MadeInv, EntityAt, TypeAt, AggregateAt
  <2>3. CASE pc' \in {"failed", "crashed"}
    BY <2>3 DEF MadeInv, LaterThanEntities, LaterThanTypes, LaterThanAggregates
  <2> QED BY <1>3, <2>1, <2>2, <2>3, StepKinds
<1> QED BY <1>1, <1>2, <1>3 DEF Next

-----------------------------------------------------------------------------
(* Pointers *)

Made(d) == {e \in DOMAIN nameOf \cup DOMAIN referent : e[2] = d[2]}

SupersLead ==
    \A d \in Entities : \A e \in Range(supertypes[d]) : e \in Entities /\ e[2] = d[2]
ReferentsLead ==
    \A d \in DOMAIN referent : referent[d] \in {NoObject, Builtin} \cup Made(d)
ElementsLead ==
    \A d \in DOMAIN elements : \A e \in Range(elements[d]) : e \in {NoObject, Builtin} \cup Made(d)

PLInv == LoadInv /\ MadeInv /\ Named /\ SupersLead /\ ReferentsLead /\ ElementsLead

LEMMA MadeGrows == ASSUME [Next]_vars, NEW d PROVE Made(d) \subseteq Made(d)'
BY Grows DEF Made

(* A list of references of the image, resolved.                               *)
LEMMA ListResolved ==
    ASSUME LoadInv, MadeInv, Named, pc \in LaterThanAggregates, NEW first \in Nat,
           NEW count \in Nat, InTable(first, count, Len(image.references)),
           NEW e \in Range(ResolvedFrom(first, count))
    PROVE  \E j \in 1..count :
               LET r == image.references[first + j]
               IN  /\ e = Resolved(r) /\ r \in References /\ ValidReference(image, r)
<1>1. PICK j \in 1..count : e = Resolved(image.references[first + j])
  BY DEF Range, ResolvedFrom
<1>2. Active
  BY DEF Active, LaterThanAggregates, LaterThanTypes
<1>3. image.references \in Seq(References) /\ Len(image.references) \in Nat
  BY <1>2 DEF LoadInv, Images
<1>4. first + j \in 1..Len(image.references)
  BY <1>3 DEF InTable
<1>5. first + j \in DOMAIN image.references /\ image.references[first + j] \in References
  BY <1>3, <1>4
<1>6. ValidReference(image, image.references[first + j])
  BY <1>2, <1>5 DEF LoadInv, Valid
<1> QED BY <1>1, <1>5, <1>6

AggregateRecords == [schema : Nat, referent : References]

LEMMA AggregateTyped ==
    ASSUME LoadInv, Active, NEW i \in 1..Len(image.aggregates)
    PROVE  /\ i \in DOMAIN image.aggregates /\ image.aggregates[i].schema \in Nat
           /\ image.aggregates[i].schema < Len(image.schemas)
           /\ image.aggregates[i].referent \in References
           /\ ValidReference(image, image.aggregates[i].referent)
<1>1. image.aggregates \in Seq(AggregateRecords)
  BY DEF LoadInv, Images, AggregateRecords
<1>2. i \in DOMAIN image.aggregates /\ image.aggregates[i] \in AggregateRecords
  BY <1>1
<1>3. /\ image.aggregates[i].schema < Len(image.schemas)
      /\ ValidReference(image, image.aggregates[i].referent)
  BY <1>2 DEF LoadInv, Valid, AggregatesValid
<1> QED BY <1>2, <1>3 DEF AggregateRecords

LEMMA ResolveAggregateLeads ==
    ASSUME PLInv, ResolveAggregate
    PROVE  ReferentsLead'
<1> DEFINE r == image.aggregates[k].referent
<1>1. pc = "aggregateReferents" /\ k \in 1..Len(image.aggregates) /\ Active
  BY DEF ResolveAggregate, At, Count, TableOf, PLInv, LoadInv, Active
<1>4. r \in References /\ ValidReference(image, r)
  BY <1>1, AggregateTyped DEF PLInv
<1>5. Resolved(r) \in {NoObject, Builtin} \cup Made(AggregateAt(k))
  <2>1. pc \in LaterThanAggregates
    BY <1>1 DEF LaterThanAggregates, LaterThanTypes
  <2>2. AggregateAt(k)[2] = load
    BY DEF AggregateAt
  <2> HIDE DEF r
  <2> QED BY <1>4, <2>1, <2>2, ResolvedHere DEF PLInv, Made
<1>6. /\ referent' = [referent EXCEPT ![AggregateAt(k)] = Resolved(r)]
      /\ nameOf' = nameOf
  BY DEF ResolveAggregate, names
<1> HIDE DEF r
<1>7. DOMAIN referent' = DOMAIN referent /\ \A d : Made(d)' = Made(d)
  BY <1>6 DEF Made
<1> QED BY <1>5, <1>6, <1>7 DEF PLInv, ReferentsLead

TypeRecords == [name : STRING, schema : Nat, referent : References,
                aggregate : Nat \cup {NoIndex}, firstElement : Nat, elementCount : Nat]

LEMMA CompleteTypeLeads ==
    ASSUME PLInv, CompleteType
    PROVE  ReferentsLead' /\ ElementsLead'
<1> DEFINE t == image.types[k]
           r == IF t.aggregate = NoIndex THEN t.referent
                ELSE image.aggregates[t.aggregate + 1].referent
           l == ResolvedFrom(t.firstElement, t.elementCount)
<1>1. pc = "typeMetadata" /\ k \in Nat \ {0} /\ k <= Len(image.types) /\ Active
  BY DEF CompleteType, At, Count, TableOf, PLInv, LoadInv, Active
<1>2. image.types \in Seq(TypeRecords) /\ Len(image.aggregates) \in Nat
  BY <1>1 DEF PLInv, LoadInv, Images, TypeRecords
<1>3. t \in TypeRecords /\ k \in DOMAIN image.types
  BY <1>1, <1>2
<1>4. /\ ValidReference(image, t.referent)
      /\ t.aggregate = NoIndex \/ t.aggregate < Len(image.aggregates)
      /\ InTable(t.firstElement, t.elementCount, Len(image.references))
  BY <1>1, <1>3 DEF PLInv, LoadInv, Valid, TypesValid
<1>5. /\ t.aggregate \in Nat \cup {NoIndex} /\ t.referent \in References
      /\ t.firstElement \in Nat /\ t.elementCount \in Nat
  BY <1>3 DEF TypeRecords
<1>6. r \in References /\ ValidReference(image, r)
  <2>1. CASE t.aggregate = NoIndex
    BY <1>4, <1>5, <2>1
  <2>2. CASE t.aggregate # NoIndex
    <3>1. t.aggregate \in Nat /\ t.aggregate < Len(image.aggregates)
      BY <1>4, <1>5, <2>2
    <3>2. t.aggregate + 1 \in 1..Len(image.aggregates)
      BY <1>2, <3>1
    <3>3. LET q == image.aggregates[t.aggregate + 1].referent
          IN  q \in References /\ ValidReference(image, q)
      BY <1>1, <3>2, AggregateTyped DEF PLInv
    <3> QED BY <2>2, <3>3
  <2> QED BY <2>1, <2>2
<1>7. /\ referent' = [referent EXCEPT ![TypeAt(k)] = Resolved(r)]
      /\ elements' = [elements EXCEPT ![TypeAt(k)] = l]
      /\ nameOf' = nameOf
  BY DEF CompleteType, names
<1>a. pc \in LaterThanAggregates /\ TypeAt(k)[2] = load
  BY <1>1 DEF LaterThanAggregates, LaterThanTypes, TypeAt
<1>8. \A e \in Range(l) : e \in {NoObject, Builtin} \cup Made(TypeAt(k))
  <2> SUFFICES ASSUME NEW e \in Range(l) PROVE e \in {NoObject, Builtin} \cup Made(TypeAt(k))
    OBVIOUS
  <2>1. PICK j \in 1..t.elementCount :
            LET q == image.references[t.firstElement + j]
            IN  e = Resolved(q) /\ q \in References /\ ValidReference(image, q)
    BY <1>4, <1>5, <1>a, ListResolved DEF PLInv
  <2> QED BY <1>a, <2>1, ResolvedHere DEF PLInv, Made
<1> HIDE DEF r, l
<1>9. Resolved(r) \in {NoObject, Builtin} \cup Made(TypeAt(k))
  BY <1>6, <1>a, ResolvedHere DEF PLInv, Made
<1>10. /\ DOMAIN referent' = DOMAIN referent /\ DOMAIN elements' = DOMAIN elements
       /\ \A d : Made(d)' = Made(d)
  BY <1>7 DEF Made
<1>11. ReferentsLead'
  BY <1>7, <1>9, <1>10 DEF PLInv, ReferentsLead
<1>12. ElementsLead'
  <2> SUFFICES ASSUME NEW d \in DOMAIN elements, NEW e \in Range(elements'[d])
               PROVE  e \in {NoObject, Builtin} \cup Made(d)
    BY <1>10 DEF ElementsLead
  <2>1. CASE d = TypeAt(k)
    BY <1>7, <1>8, <2>1
  <2>2. CASE d # TypeAt(k)
    BY <1>7, <2>2 DEF PLInv, ElementsLead
  <2> QED BY <2>1, <2>2
<1> QED BY <1>11, <1>12

EntityRecords == [name : STRING, schema : Nat, firstSupertype : Nat, supertypeCount : Nat,
                  firstAttribute : Nat, attributeCount : Nat]

LEMMA EntityTyped ==
    ASSUME LoadInv, Active, NEW i \in 1..Len(image.entities)
    PROVE  /\ i \in DOMAIN image.entities /\ image.entities[i] \in EntityRecords
           /\ image.entities[i].schema \in Nat
           /\ image.entities[i].schema < Len(image.schemas)
           /\ image.entities[i].firstSupertype \in Nat
           /\ image.entities[i].supertypeCount \in Nat
           /\ image.entities[i].firstAttribute \in Nat
           /\ image.entities[i].attributeCount \in Nat
<1>1. image.entities \in Seq(EntityRecords)
  BY DEF LoadInv, Images, EntityRecords
<1>2. i \in DOMAIN image.entities /\ image.entities[i] \in EntityRecords
  BY <1>1
<1>3. image.entities[i].schema < Len(image.schemas)
  BY <1>2 DEF LoadInv, Valid, EntitiesValid
<1> QED BY <1>2, <1>3 DEF EntityRecords

LEMMA CompleteEntityLeads ==
    ASSUME PLInv, CompleteEntity
    PROVE  SupersLead'
<1> DEFINE t == image.entities[k]
           l == ResolvedFrom(t.firstSupertype, t.supertypeCount)
<1>1. pc = "entityMetadata" /\ k \in 1..Len(image.entities) /\ Active
  BY DEF CompleteEntity, At, Count, TableOf, PLInv, LoadInv, Active
<1>2. t.firstSupertype \in Nat /\ t.supertypeCount \in Nat /\ k \in DOMAIN image.entities
  BY <1>1, EntityTyped DEF PLInv
<1>3. /\ InTable(t.firstSupertype, t.supertypeCount, Len(image.references))
      /\ SupertypesAreEntities(image, t)
  BY <1>1, <1>2 DEF PLInv, LoadInv, Valid, EntitiesValid
<1>4. pc \in LaterThanAggregates /\ EntityAt(k)[2] = load
  BY <1>1 DEF LaterThanAggregates, LaterThanTypes, EntityAt
<1>5. \A e \in Range(l) : e \in Entities /\ e[2] = load
  <2> SUFFICES ASSUME NEW e \in Range(l) PROVE e \in Entities /\ e[2] = load
    OBVIOUS
  <2>1. /\ ResolvedFrom(t.firstSupertype, t.supertypeCount)
              = [j \in 1..t.supertypeCount |-> Resolved(image.references[t.firstSupertype + j])]
    BY DEF ResolvedFrom
  <2>2. PICK j \in 1..t.supertypeCount : e = Resolved(image.references[t.firstSupertype + j])
    BY <2>1 DEF Range
  <2>3. image.references \in Seq(References) /\ Len(image.references) \in Nat
    BY <1>1 DEF PLInv, LoadInv, Images
  <2>4. t.firstSupertype + j \in 1..Len(image.references)
    BY <1>2, <1>3, <2>3 DEF InTable
  <2> DEFINE q == image.references[t.firstSupertype + j]
  <2>5. q \in References /\ t.firstSupertype + j \in DOMAIN image.references
    BY <2>3, <2>4
  <2>6. ValidReference(image, q)
    BY <1>1, <2>5 DEF PLInv, LoadInv, Valid
  <2>7. q.kind = "entity"
    BY <1>3 DEF SupertypesAreEntities
  <2> QED BY <1>4, <2>2, <2>5, <2>6, <2>7, ResolvedHere DEF PLInv
<1>6. supertypes' = [supertypes EXCEPT ![EntityAt(k)] = l]
  BY DEF CompleteEntity
<1> HIDE DEF l
<1>7. Entities' = Entities
  BY <1>6 DEF Entities
<1> SUFFICES ASSUME NEW d \in Entities, NEW e \in Range(supertypes'[d])
             PROVE  e \in Entities /\ e[2] = d[2]
  BY <1>7 DEF SupersLead
<1>8. CASE d = EntityAt(k)
  BY <1>4, <1>5, <1>6, <1>8 DEF Entities
<1>9. CASE d # EntityAt(k)
  BY <1>6, <1>9 DEF PLInv, SupersLead, Entities
<1> QED BY <1>8, <1>9

LEMMA NextPLInv == PLInv /\ [Next]_vars => PLInv'
<1> SUFFICES ASSUME PLInv, [Next]_vars PROVE PLInv'
  OBVIOUS
<1>1. LoadInv' /\ MadeInv' /\ Named'
  BY NextLoadInv, NextMadeInv, NextNamed DEF PLInv
<1>2. Entities \subseteq Entities' /\ \A d : Made(d) \subseteq Made(d)'
  BY Grows DEF Made
<1>3. SupersLead'
  <2>1. CASE CompleteEntity
    BY <2>1, CompleteEntityLeads
  <2>2. CASE CreateEntity
    <3>1. supertypes' = Set(supertypes, EntityAt(k), <<>>)
      BY <2>2 DEF CreateEntity
    <3>2. \A d \in Entities' : d = EntityAt(k) \/ (d \in Entities /\ supertypes'[d] = supertypes[d])
                                \/ supertypes'[d] = <<>>
      BY <3>1 DEF Entities, Set
    <3>3. supertypes'[EntityAt(k)] = <<>>
      BY <3>1 DEF Set
    <3>4. Range(<< >>) = {}
      BY DEF Range
    <3> SUFFICES ASSUME NEW d \in Entities', NEW e \in Range(supertypes'[d])
                 PROVE  e \in Entities' /\ e[2] = d[2]
      BY DEF SupersLead
    <3>5. d \in Entities /\ supertypes'[d] = supertypes[d]
      BY <3>2, <3>3, <3>4
    <3> QED BY <1>2, <3>5 DEF PLInv, SupersLead
  <2>3. CASE ~CompleteEntity /\ ~CreateEntity
    <3>1. supertypes' = supertypes
      BY <2>3 DEF Next, Step, entities, LoopEnds, CreateSchema, BeginModule, CreateType,
         CreateAggregate, ResolveAggregate, CompleteType, Overflow, AddRename, InitializeFromContext,
         InitializeFromImage, LoadImage, RemoveFromRegistry, vars
    <3> QED BY <1>2, <3>1 DEF PLInv, SupersLead, Entities
  <2> QED BY <2>1, <2>2, <2>3
<1>4. ReferentsLead'
  <2>1. CASE ResolveAggregate
    BY <2>1, ResolveAggregateLeads
  <2>2. CASE CompleteType
    BY <2>2, CompleteTypeLeads
  <2>3. CASE CreateType \/ CreateAggregate
    <3>1. PICK d : referent' = Set(referent, d, NoObject)
      BY <2>3 DEF CreateType, CreateAggregate
    <3> QED BY <1>2, <3>1 DEF PLInv, ReferentsLead, Set
  <2>4. CASE ~ResolveAggregate /\ ~CompleteType /\ ~CreateType /\ ~CreateAggregate
    <3>1. referent' = referent
      BY <2>4 DEF Next, Step, types, LoopEnds, CreateSchema, BeginModule, CreateEntity,
         CompleteEntity, Overflow, AddRename, InitializeFromContext, InitializeFromImage, LoadImage,
         RemoveFromRegistry, vars
    <3> QED BY <1>2, <3>1 DEF PLInv, ReferentsLead
  <2> QED BY <2>1, <2>2, <2>3, <2>4
<1>5. ElementsLead'
  <2>1. CASE CompleteType
    BY <2>1, CompleteTypeLeads
  <2>2. CASE CreateType
    <3>1. elements' = Set(elements, TypeAt(k), <<>>)
      BY <2>2 DEF CreateType
    <3>2. Range(<< >>) = {}
      BY DEF Range
    <3> SUFFICES ASSUME NEW d \in DOMAIN elements', NEW e \in Range(elements'[d])
                 PROVE  e \in {NoObject, Builtin} \cup Made(d)'
      BY DEF ElementsLead
    <3>3. d \in DOMAIN elements /\ elements'[d] = elements[d]
      BY <3>1, <3>2 DEF Set
    <3> QED BY <1>2, <3>3 DEF PLInv, ElementsLead
  <2>3. CASE ~CompleteType /\ ~CreateType
    <3>1. elements' = elements
      BY <2>3 DEF Next, Step, types, LoopEnds, CreateSchema, BeginModule, CreateEntity,
         CreateAggregate, ResolveAggregate, CompleteEntity, Overflow, AddRename, InitializeFromContext,
         InitializeFromImage, LoadImage, RemoveFromRegistry, vars
    <3> QED BY <1>2, <3>1 DEF PLInv, ElementsLead
  <2> QED BY <2>1, <2>2, <2>3
<1> QED BY <1>1, <1>3, <1>4, <1>5 DEF PLInv

LEMMA InitPLInv == Init => PLInv
<1> SUFFICES ASSUME Init PROVE PLInv
  OBVIOUS
<1>1. LoadInv
  BY InitLoadInv
<1>2. MadeInv
  BY DEF Init, MadeInv, NoImage
<1>3. Named /\ SupersLead /\ ReferentsLead /\ ElementsLead
  BY DEF Init, Named, SupersLead, ReferentsLead, ElementsLead, Entities
<1> QED BY <1>1, <1>2, <1>3 DEF PLInv

(* No pointer of a descriptor leads outside the tables of its load, and a     *)
(* supertype is an entity: the checks InitializeSchemaFromImage makes before  *)
(* it builds anything are enough, for every image (schemaInit.cc).            *)
THEOREM PointersStayInTables == Spec => []PointersLead
<1>1. PLInv => PointersLead
  BY DEF PLInv, SupersLead, ReferentsLead, ElementsLead, Made, PointersLead
<1> QED BY <1>1, InitPLInv, NextPLInv, PTL DEF Spec

-----------------------------------------------------------------------------
(* What belongs to a load: its descriptors carry its number, its schemas      *)
(* stand in their slots under names of their own.                             *)

AtMostOne == Active => k <= Count(TableOf[pc]) + 1

SchemaInPlace(s) ==
    \E i \in 1..Len(image.schemas) :
        /\ s = SchemaAt(i) /\ nameOf[s] = image.schemas[i].name
        /\ pc = "schemas" => i < k
        /\ nameOf[s] \in DOMAIN schemaSlot /\ schemaSlot[nameOf[s]] = s

Tagged ==
    /\ \A d \in DOMAIN nameOf : d[2] \in 0..load
    /\ Schemas \subseteq DOMAIN nameOf
    /\ \A d \in Entities : d[2] = load => \E i \in DOMAIN image.entities : d = EntityAt(i)
    /\ \A s \in Schemas : s[2] = load => SchemaInPlace(s)

LEMMA NextAtMostOne == LoadInv /\ AtMostOne /\ [Next]_vars => AtMostOne'
<1> SUFFICES ASSUME LoadInv, AtMostOne, [Next]_vars, Active' PROVE k' <= Count(TableOf[pc])' + 1
  BY DEF AtMostOne
<1>0. Count(TableOf[pc])' \in Nat
  <2>1. LoadInv'
    BY NextLoadInv
  <2>2. TableOf[pc]' \in {"schemas", "entities", "types", "aggregates", "renames"}
    BY <2>1 DEF LoadInv, Active, PackedStages, TableStages, TableOf
  <2>3. /\ Len(image.schemas)' \in Nat /\ Len(image.entities)' \in Nat
        /\ Len(image.types)' \in Nat /\ Len(image.aggregates)' \in Nat
        /\ Len(image.renames)' \in Nat
    BY <2>1 DEF LoadInv, Images
  <2> QED BY <2>2, <2>3 DEF Count
<1>1. CASE LoopEnds \/ LoadImage
  BY <1>0, <1>1 DEF LoopEnds, LoadImage
<1>2. ASSUME NEW stage \in PackedStages \cup TableStages, RecordStep(stage)
      PROVE  k' <= Count(TableOf[pc])' + 1
  <2>1. /\ k <= Count(TableOf[pc]) /\ k' = k + 1 /\ k \in Nat
        /\ Count(TableOf[pc])' = Count(TableOf[pc])
    BY <1>2 DEF RecordStep, At, Next1, Count, LoadInv
  <2> QED BY <1>0, <2>1
<1>3. CASE pc' \in {"failed", "crashed"}
  BY <1>3 DEF Active
<1>4. CASE RemoveFromRegistry \/ UNCHANGED vars
  <2>1. UNCHANGED <<pc, k, image>>
    BY <1>4 DEF RemoveFromRegistry, vars, loader
  <2> QED BY <2>1 DEF AtMostOne, Active, Count
<1> QED BY <1>1, <1>2, <1>3, <1>4, StepKinds DEF Next

(* nameOf, schemaSlot and the domain of entList change in three loops only.   *)
LEMMA TaggedStays ==
    ASSUME LoadInv, Tagged, Named, UNCHANGED <<load, image>>,
           Entities' = Entities, Schemas' = Schemas,
           UNCHANGED <<nameOf, schemaSlot>>,
           \/ pc' = pc /\ k' \in Nat /\ k' >= k
           \/ pc' # "schemas"
    PROVE  Tagged'
<1>1. ASSUME NEW s, SchemaInPlace(s) PROVE SchemaInPlace(s)'
  BY <1>1 DEF SchemaInPlace, SchemaAt, LoadInv
<1>2. \A i : EntityAt(i)' = EntityAt(i)
  BY DEF EntityAt
<1> QED BY <1>1, <1>2 DEF Tagged

LEMMA CreateSchemaTags ==
    ASSUME LoadInv, Tagged, Named, CreateSchema
    PROVE  Tagged'
<1> DEFINE d == SchemaAt(k)
           n == image.schemas[k].name
<1>1. /\ pc = "schemas" /\ k \in 1..Len(image.schemas) /\ k' = k + 1 /\ pc' = pc /\ Active
      /\ UNCHANGED <<load, image>>
      /\ nameOf' = Set(nameOf, d, n) /\ schemaSlot' = Set(schemaSlot, n, d)
      /\ DOMAIN entList' = DOMAIN entList \cup {d}
      /\ Entities' = Entities
  BY DEF CreateSchema, At, Next1, Count, TableOf, LoadInv, Active, Set, entities, Entities
<1>2. d[2] = load /\ d[2] \in 0..load
  BY DEF SchemaAt, LoadInv
<1>3. DOMAIN image.schemas = 1..Len(image.schemas) /\ Len(image.schemas) \in Nat
  BY <1>1 DEF LoadInv, Images
<1>4. \A i : SchemaAt(i)' = SchemaAt(i) /\ EntityAt(i)' = EntityAt(i)
  BY <1>1 DEF SchemaAt, EntityAt
<1>5. \A s : s = d => SchemaInPlace(s)'
  <2>1. nameOf'[d] = n /\ n \in DOMAIN schemaSlot' /\ schemaSlot'[n] = d
    BY <1>1 DEF Set
  <2>2. k < k + 1
    BY <1>1
  <2> HIDE DEF d, n
  <2> QED BY <1>1, <1>4, <2>1, <2>2 DEF SchemaInPlace, d, n
<1>6. ASSUME NEW s \in Schemas, s[2] = load, s # d PROVE SchemaInPlace(s)'
  <2>1. PICK i \in 1..Len(image.schemas) :
           /\ s = SchemaAt(i) /\ nameOf[s] = image.schemas[i].name /\ i < k
           /\ nameOf[s] \in DOMAIN schemaSlot /\ schemaSlot[nameOf[s]] = s
    BY <1>1, <1>6 DEF Tagged, SchemaInPlace
  <2>2. image.schemas[i].name # n
    BY <1>1, <1>3, <2>1 DEF LoadInv, NamesDiffer
  <2>3. s \in DOMAIN nameOf
    BY <1>6 DEF Tagged
  <2>4. nameOf'[s] = nameOf[s]
    BY <1>1, <1>6, <2>3 DEF Set
  <2>5. schemaSlot'[nameOf[s]] = s /\ nameOf[s] \in DOMAIN schemaSlot'
    BY <1>1, <2>1, <2>2 DEF Set
  <2> QED BY <1>1, <1>4, <2>1, <2>4, <2>5 DEF SchemaInPlace
<1>7. \A x \in DOMAIN nameOf' : x[2] \in 0..load'
  BY <1>1, <1>2 DEF Tagged, Set
<1>8. Schemas' \subseteq DOMAIN nameOf'
  BY <1>1 DEF Tagged, Schemas, Set
<1>9. \A s \in Schemas' : s = d \/ s \in Schemas
  BY <1>1 DEF Schemas
<1>10. \A s \in Schemas' : s[2] = load' => SchemaInPlace(s)'
  <2> SUFFICES ASSUME NEW s \in Schemas', s[2] = load PROVE SchemaInPlace(s)'
    BY <1>1
  <2>1. CASE s = d
    BY <1>4, <1>5, <2>1
  <2> QED BY <1>6, <1>9, <2>1
<1>11. \A e \in Entities' : e[2] = load' => \E i \in DOMAIN image'.entities : e = EntityAt(i)'
  BY <1>1, <1>4 DEF Tagged
<1> QED BY <1>7, <1>8, <1>10, <1>11 DEF Tagged

LEMMA CreateOtherTags ==
    ASSUME LoadInv, Tagged, Named, CreateEntity \/ CreateType
    PROVE  Tagged'
<1> DEFINE d == IF pc = "entities" THEN EntityAt(k) ELSE TypeAt(k)
<1>1. /\ pc \in {"entities", "types"} /\ k' = k + 1 /\ pc' = pc
      /\ UNCHANGED <<load, image, schemaSlot>>
      /\ \E n : nameOf' = Set(nameOf, d, n)
      /\ Schemas' = Schemas
      /\ \A e \in Entities' : e \in Entities \/ (pc = "entities" /\ e = EntityAt(k))
  <2>1. CASE CreateEntity
    <3>1. /\ pc = "entities" /\ pc' = pc /\ k' = k + 1 /\ UNCHANGED <<load, image, schemaSlot>>
          /\ nameOf' = Set(nameOf, EntityAt(k), image.entities[k].name)
          /\ supertypes' = Set(supertypes, EntityAt(k), <<>>)
          /\ \E o, v : entList' = Appended(entList, o, v)
      BY <2>1 DEF CreateEntity, At, Next1, library
    <3>2. DOMAIN entList' = DOMAIN entList
      BY <3>1 DEF Appended
    <3>3. DOMAIN supertypes' = DOMAIN supertypes \cup {EntityAt(k)}
      BY <3>1 DEF Set
    <3> QED BY <3>1, <3>2, <3>3 DEF Entities, Schemas
  <2>2. CASE CreateType
    BY <2>2 DEF CreateType, At, Next1, entities, Entities, lists, library, Schemas
  <2> QED BY <2>1, <2>2
<1>2. d[2] = load /\ d[2] \in 0..load /\ d[1] # "schema"
  BY DEF EntityAt, TypeAt, LoadInv
<1>3. pc = "entities" => k \in DOMAIN image.entities
  BY <1>1 DEF CreateEntity, CreateType, At, Count, TableOf, LoadInv, Images, Active
<1>4. \A i : SchemaAt(i)' = SchemaAt(i) /\ EntityAt(i)' = EntityAt(i)
  BY <1>1 DEF SchemaAt, EntityAt
<1> HIDE DEF d
<1>5. DOMAIN nameOf' = DOMAIN nameOf \cup {d} /\ \A x \in DOMAIN nameOf : x # d => nameOf'[x] = nameOf[x]
  BY <1>1 DEF Set
<1>6. \A x \in DOMAIN nameOf' : x[2] \in 0..load'
  BY <1>1, <1>2, <1>5 DEF Tagged
<1>7. Schemas' \subseteq DOMAIN nameOf'
  BY <1>1, <1>5 DEF Tagged
<1>8. ASSUME NEW s \in Schemas, s[2] = load PROVE SchemaInPlace(s)'
  <2>1. PICK i \in 1..Len(image.schemas) :
           /\ s = SchemaAt(i) /\ nameOf[s] = image.schemas[i].name
           /\ nameOf[s] \in DOMAIN schemaSlot /\ schemaSlot[nameOf[s]] = s
    BY <1>8 DEF Tagged, SchemaInPlace
  <2>2. s # d
    BY <1>2, <2>1 DEF SchemaAt
  <2>3. nameOf'[s] = nameOf[s]
    BY <1>5, <2>2 DEF Tagged
  <2> QED BY <1>1, <1>4, <2>1, <2>3 DEF SchemaInPlace
<1>9. \A e \in Entities' : e[2] = load' => \E i \in DOMAIN image'.entities : e = EntityAt(i)'
  BY <1>1, <1>3, <1>4 DEF Tagged
<1> QED BY <1>1, <1>6, <1>7, <1>8, <1>9 DEF Tagged

(* A load that begins has nothing yet.                                        *)
LEMMA LoadImageTags ==
    ASSUME LoadInv, Tagged, Named, LoadImage
    PROVE  Tagged' /\ \A d \in DOMAIN nameOf' : d[2] # load'
<1>1. /\ load' = load + 1 /\ nameOf' = nameOf /\ Entities' = Entities /\ Schemas' = Schemas
  BY DEF LoadImage, names, entities, lists, Entities, Schemas
<1>2. \A d \in DOMAIN nameOf' : d[2] \in 0..load' /\ d[2] # load'
  BY <1>1 DEF Tagged, LoadInv
<1> QED BY <1>1, <1>2 DEF Tagged, Named

LEMMA NextTagged == LoadInv /\ Tagged /\ Named /\ [Next]_vars => Tagged'
<1> SUFFICES ASSUME LoadInv, Tagged, Named, [Next]_vars PROVE Tagged'
  OBVIOUS
<1>1. CASE LoopEnds
  <2>1. pc' # "schemas"
    BY <1>1, LoopFollows DEF Follows, LoopEnds
  <2> QED
    BY <1>1, <2>1, TaggedStays DEF LoopEnds, names, entities, lists, library, Entities, Schemas
<1>2. CASE \/ BeginModule \/ CreateAggregate \/ ResolveAggregate \/ CompleteType
            \/ CompleteEntity \/ AddRename
  <2>1. /\ UNCHANGED <<nameOf, schemaSlot>> /\ Entities' = Entities /\ Schemas' = Schemas
    BY <1>2 DEF BeginModule, CreateAggregate, ResolveAggregate, CompleteType, CompleteEntity,
       AddRename, names, entities, lists, library, Entities, Schemas
  <2>2. Next1
    BY <1>2 DEF BeginModule, CreateAggregate, ResolveAggregate, CompleteType, CompleteEntity,
       AddRename
  <2> QED BY <2>1, <2>2, TaggedStays DEF Next1, LoadInv
<1>3. CASE InitializeFromContext \/ InitializeFromImage
  <2>1. /\ UNCHANGED <<nameOf, schemaSlot>> /\ Entities' = Entities /\ Schemas' = Schemas
        /\ UNCHANGED <<load, image>> /\ pc' # "schemas"
    BY <1>3 DEF InitializeFromContext, InitializeFromImage, Next1, At, names, entities, lists,
       Entities, Schemas
  <2> QED BY <2>1, TaggedStays
<1>4. CASE CreateSchema
  BY <1>4, CreateSchemaTags
<1>5. CASE CreateEntity \/ CreateType
  BY <1>5, CreateOtherTags
<1>6. CASE LoadImage
  BY <1>6, LoadImageTags
<1>7. CASE RemoveFromRegistry \/ UNCHANGED vars
  <2>1. /\ UNCHANGED <<nameOf, schemaSlot, pc, k, load, image>>
        /\ Entities' = Entities /\ Schemas' = Schemas
    BY <1>7 DEF RemoveFromRegistry, vars, names, loader, entities, lists, library, Entities,
       Schemas
  <2> QED BY <2>1, TaggedStays DEF LoadInv
<1>8. CASE Overflow
  <2>1. pc' = "crashed" /\ UNCHANGED <<nameOf, schemaSlot, load, image, supertypes, entList>>
    BY <1>8, OverflowKeeps DEF names, entities, lists, library
  <2> QED BY <2>1, TaggedStays DEF Entities, Schemas
<1> QED BY <1>1, <1>2, <1>3, <1>4, <1>5, <1>6, <1>7, <1>8 DEF Next, Step

-----------------------------------------------------------------------------
(* The schemas of a load stay from their loop on.                             *)

SchemasMade ==
    Active => \A i \in 1..Len(image.schemas) :
                  (pc = "schemas" => i < k) => SchemaAt(i) \in Schemas

LEMMA SchemasGrow ==
    ASSUME [Next]_vars
    PROVE  Schemas \subseteq Schemas' /\ (CreateSchema => SchemaAt(k) \in Schemas')
<1>1. CASE CreateSchema
  BY <1>1 DEF CreateSchema, Set, Schemas
<1>2. CASE CreateEntity
  BY <1>2 DEF CreateEntity, Appended, Schemas, CreateSchema, At
<1>3. CASE ~CreateSchema /\ ~CreateEntity
  <2>1. Schemas' = Schemas
    BY <1>3 DEF Next, Step, LoopEnds, BeginModule, CreateType, CreateAggregate, ResolveAggregate,
       CompleteType, CompleteEntity, Overflow, AddRename, InitializeFromContext, InitializeFromImage,
       LoadImage, RemoveFromRegistry, vars, lists, Schemas, Appended
  <2> QED BY <1>3, <2>1
<1> QED BY <1>1, <1>2, <1>3

LEMMA SchemasLoop ==
    ASSUME Step, pc = "schemas" PROVE LoopEnds \/ CreateSchema
BY DEF Step, BeginModule, CreateEntity, CreateType, CreateAggregate, ResolveAggregate,
       CompleteType, CompleteEntity, Overflow, AddRename, InitializeFromContext, InitializeFromImage, At

LEMMA NextSchemasMade == LoadInv /\ SchemasMade /\ [Next]_vars => SchemasMade'
<1> SUFFICES ASSUME LoadInv, SchemasMade, [Next]_vars, Active',
                    NEW i \in 1..Len(image.schemas)', pc' = "schemas" => i < k'
             PROVE  SchemaAt(i)' \in Schemas'
  BY DEF SchemasMade
<1>1. CASE LoadImage
  BY <1>1 DEF LoadImage, Active
<1>2. CASE RemoveFromRegistry \/ UNCHANGED vars
  <2>1. UNCHANGED <<pc, k, image, load>>
    BY <1>2 DEF RemoveFromRegistry, vars, loader
  <2> QED BY <2>1, SchemasGrow DEF SchemasMade, Active, SchemaAt
<1>3. CASE Step
  <2>1. Active /\ UNCHANGED <<load, image>> /\ k \in Nat /\ Len(image.schemas) \in Nat
    BY <1>3, StepKinds DEF LoopEnds, RecordStep, At, Next1, Active, LoadInv, PackedStages,
       TableStages, Images
  <2>2. SchemaAt(i) \in Schemas \/ SchemaAt(i) \in Schemas'
    <3>1. CASE LoopEnds
      <4>1. pc' # "schemas" /\ (pc = "schemas" => k > Len(image.schemas))
        BY <3>1, LoopFollows DEF LoopEnds, Follows, Count, TableOf
      <4> QED BY <2>1, <4>1 DEF SchemasMade
    <3>2. CASE pc = "schemas" /\ CreateSchema
      <4>1. k' = k + 1 /\ pc' = pc
        BY <3>2 DEF CreateSchema, Next1
      <4>2. CASE i = k
        BY <3>2, <4>2, SchemasGrow
      <4>3. CASE i # k
        <5>1. i < k
          BY <2>1, <3>2, <4>1, <4>3
        <5> QED BY <2>1, <5>1 DEF SchemasMade
      <4> QED BY <4>2, <4>3
    <3>3. CASE pc # "schemas"
      BY <2>1, <3>3 DEF SchemasMade
    <3> QED BY <1>3, <3>1, <3>2, <3>3, SchemasLoop
  <2>3. SchemaAt(i)' = SchemaAt(i)
    BY <2>1 DEF SchemaAt
  <2> QED BY <2>2, <2>3, SchemasGrow
<1> QED BY <1>1, <1>2, <1>3 DEF Next

-----------------------------------------------------------------------------
(* Lists of descriptors in the order of their numbers                         *)

Descriptors == {"entity", "type", "attribute"} \X Int \X Int

(* s lists the descriptors of a kind and load with the numbers in N, in order. *)
ListOf(s, kind, l, N) ==
    /\ s \in Seq(Descriptors)
    /\ \A i \in 1..Len(s) : s[i] = <<kind, l, s[i][3]>> /\ s[i][3] \in N
    /\ \A n \in N : \E i \in 1..Len(s) : s[i] = <<kind, l, n>>
    /\ \A i, j \in 1..Len(s) : i < j => s[i][3] < s[j][3]

LEMMA EmptyList == ASSUME NEW kind, NEW l PROVE ListOf(<<>>, kind, l, {})
<1>1. <<>> \in Seq(Descriptors) /\ 1..Len(<<>>) = {}
  OBVIOUS
<1> QED BY <1>1 DEF ListOf

LEMMA ListAppended ==
    ASSUME NEW s, NEW kind, NEW l, NEW N, NEW n \in Int, ListOf(s, kind, l, N),
           \A m \in N : m \in Int /\ m < n, <<kind, l, n>> \in Descriptors
    PROVE  ListOf(Append(s, <<kind, l, n>>), kind, l, N \cup {n})
<1> DEFINE d == <<kind, l, n>>
           t == Append(s, d)
           c == Len(s)
<1>1. s \in Seq(Descriptors) /\ c \in Nat
  BY DEF ListOf
<1>2. d[3] = n
  OBVIOUS
<1>3. /\ t \in Seq(Descriptors) /\ Len(t) = c + 1
      /\ \A i \in 1..c : t[i] = s[i]
      /\ t[c + 1] = d
  <2> HIDE DEF d
  <2> QED BY <1>1 DEF d
<1> HIDE DEF t
<1>4. \A i \in 1..Len(t) : i = c + 1 \/ i \in 1..c
  BY <1>1, <1>3
<1>5. ASSUME NEW i \in 1..Len(t) PROVE t[i] = <<kind, l, t[i][3]>> /\ t[i][3] \in N \cup {n}
  <2>1. CASE i = c + 1
    BY <1>2, <1>3, <2>1
  <2>2. CASE i \in 1..c
    BY <1>3, <2>2 DEF ListOf
  <2> QED BY <1>4, <2>1, <2>2
<1>6. ASSUME NEW m \in N \cup {n} PROVE \E i \in 1..Len(t) : t[i] = <<kind, l, m>>
  <2>1. CASE m = n
    <3>1. c + 1 \in 1..Len(t)
      BY <1>1, <1>3
    <3> QED BY <1>3, <2>1, <3>1
  <2>2. CASE m \in N
    <3>1. PICK i \in 1..c : s[i] = <<kind, l, m>>
      BY <2>2 DEF ListOf
    <3>2. i \in 1..Len(t)
      BY <1>1, <1>3
    <3> QED BY <1>3, <3>1, <3>2
  <2> QED BY <2>1, <2>2
<1>7. ASSUME NEW i \in 1..Len(t), NEW j \in 1..Len(t), i < j PROVE t[i][3] < t[j][3]
  <2>1. i \in 1..c /\ t[i] = s[i] /\ s[i][3] \in N
    BY <1>1, <1>3, <1>4, <1>7 DEF ListOf
  <2>2. CASE j = c + 1
    BY <1>2, <1>3, <2>1, <2>2
  <2>3. CASE j \in 1..c
    BY <1>3, <1>7, <2>1, <2>3 DEF ListOf
  <2> QED BY <1>4, <2>2, <2>3
<1>8. ListOf(t, kind, l, N \cup {n})
  BY <1>3, <1>5, <1>6, <1>7 DEF ListOf
<1> QED BY <1>8 DEF t

LEMMA ListContinued ==
    ASSUME NEW s, NEW kind, NEW l, NEW N, NEW a \in Int, NEW b \in Nat, ListOf(s, kind, l, N),
           \A m \in N : m \in Int /\ m <= a,
           NEW t \in Seq(Descriptors), Len(t) = b, \A j \in 1..b : t[j] = <<kind, l, a + j>>
    PROVE  ListOf(s \o t, kind, l, N \cup (a + 1)..(a + b))
<1> DEFINE u == s \o t
           c == Len(s)
           M == (a + 1)..(a + b)
<1>1. s \in Seq(Descriptors) /\ c \in Nat
  BY DEF ListOf
<1>2. /\ u \in Seq(Descriptors) /\ Len(u) = c + b
      /\ \A i \in 1..c : u[i] = s[i]
      /\ \A j \in 1..b : u[c + j] = t[j]
  <2>1. /\ Len(u) = Len(s) + Len(t) /\ u \in Seq(Descriptors)
        /\ \A i \in 1..(Len(s) + Len(t)) : u[i] = IF i <= Len(s) THEN s[i] ELSE t[i - Len(s)]
    BY <1>1, ConcatProperties
  <2> HIDE DEF u
  <2>2. ASSUME NEW j \in 1..b PROVE u[c + j] = t[j]
    <3>1. c + j \in 1..(Len(s) + Len(t)) /\ ~(c + j <= Len(s)) /\ (c + j) - Len(s) = j
      BY <1>1
    <3> QED BY <2>1, <3>1
  <2>3. ASSUME NEW i \in 1..c PROVE u[i] = s[i]
    <3>1. i \in 1..(Len(s) + Len(t)) /\ i <= Len(s)
      BY <1>1
    <3> QED BY <2>1, <3>1
  <2> QED BY <2>1, <2>2, <2>3
<1> HIDE DEF u
<1>3. \A i \in 1..Len(u) : i \in 1..c \/ \E j \in 1..b : i = c + j
  <2> SUFFICES ASSUME NEW i \in 1..Len(u), i \notin 1..c PROVE \E j \in 1..b : i = c + j
    OBVIOUS
  <2>1. i - c \in 1..b /\ i = c + (i - c)
    BY <1>1, <1>2
  <2> QED BY <2>1
<1>4. \A j \in 1..b : u[c + j] = <<kind, l, a + j>> /\ u[c + j][3] = a + j /\ a + j \in M
  <2>1. \A j \in 1..b : u[c + j] = <<kind, l, a + j>>
    BY <1>2
  <2>2. \A j \in 1..b : a + j \in M
    OBVIOUS
  <2> QED BY <2>1, <2>2
<1> HIDE DEF M
<1>5. ASSUME NEW i \in 1..Len(u) PROVE u[i] = <<kind, l, u[i][3]>> /\ u[i][3] \in N \cup M
  <2>1. CASE i \in 1..c
    BY <1>2, <2>1 DEF ListOf
  <2>2. ASSUME NEW j \in 1..b, i = c + j PROVE u[i] = <<kind, l, u[i][3]>> /\ u[i][3] \in N \cup M
    BY <1>4, <2>2
  <2> QED BY <1>3, <2>1, <2>2
<1>6. ASSUME NEW m \in N \cup M PROVE \E i \in 1..Len(u) : u[i] = <<kind, l, m>>
  <2>1. CASE m \in M
    <3>1. m - a \in 1..b /\ a + (m - a) = m /\ c + (m - a) \in 1..Len(u)
      BY <1>1, <1>2, <2>1 DEF M
    <3>2. u[c + (m - a)] = <<kind, l, a + (m - a)>>
      BY <1>4, <3>1
    <3> QED BY <3>1, <3>2
  <2>2. CASE m \in N
    <3>1. PICK i \in 1..c : s[i] = <<kind, l, m>>
      BY <2>2 DEF ListOf
    <3>2. i \in 1..Len(u)
      BY <1>1, <1>2
    <3> QED BY <1>2, <3>1, <3>2
  <2> QED BY <2>1, <2>2
<1>7. ASSUME NEW i \in 1..Len(u), NEW j \in 1..Len(u), i < j PROVE u[i][3] < u[j][3]
  <2>1. CASE i \in 1..c /\ j \in 1..c
    BY <1>2, <1>7, <2>1 DEF ListOf
  <2>2. ASSUME i \in 1..c, NEW q \in 1..b, j = c + q PROVE u[i][3] < u[j][3]
    <3>1. u[i][3] \in N
      BY <1>2, <2>2 DEF ListOf
    <3>2. u[j][3] = a + q /\ u[i][3] \in Int /\ u[i][3] <= a
      BY <1>4, <2>2, <3>1
    <3> QED BY <3>2
  <2>3. ASSUME NEW p \in 1..b, NEW q \in 1..b, i = c + p, j = c + q PROVE u[i][3] < u[j][3]
    <3>1. u[i][3] = a + p /\ u[j][3] = a + q
      BY <1>4, <2>3
    <3> QED BY <1>1, <1>7, <2>3, <3>1
  <2>4. i \in 1..c \/ j \notin 1..c
    BY <1>1, <1>2, <1>7
  <2> QED BY <1>3, <2>1, <2>2, <2>3, <2>4
<1>8. ListOf(u, kind, l, N \cup M)
  BY <1>2, <1>5, <1>6, <1>7 DEF ListOf
<1> QED BY <1>8 DEF u, M

LEMMA SameList ==
    ASSUME NEW s, NEW t, NEW kind, NEW l, NEW N \in SUBSET Nat,
           ListOf(s, kind, l, N), ListOf(t, kind, l, N)
    PROVE  s = t
<1> DEFINE f == [i \in 1..Len(s) |-> s[i][3]]
           g == [i \in 1..Len(t) |-> t[i][3]]
<1>1. s \in Seq(Descriptors) /\ t \in Seq(Descriptors) /\ Len(s) \in Nat /\ Len(t) \in Nat
  BY DEF ListOf
<1>2. Enumeration(f, Len(s)) /\ Enumeration(g, Len(t))
  BY <1>1 DEF ListOf, Enumeration, Increasing
<1>3. Within(f, Len(s), g, Len(t))
  <2> SUFFICES ASSUME NEW i \in 1..Len(s) PROVE \E j \in 1..Len(t) : f[i] = g[j]
    BY DEF Within
  <2>1. s[i][3] \in N
    BY DEF ListOf
  <2>2. PICK j \in 1..Len(t) : t[j] = <<kind, l, s[i][3]>>
    BY <2>1 DEF ListOf
  <2> QED BY <2>2
<1>4. Within(g, Len(t), f, Len(s))
  <2> SUFFICES ASSUME NEW i \in 1..Len(t) PROVE \E j \in 1..Len(s) : g[i] = f[j]
    BY DEF Within
  <2>1. t[i][3] \in N
    BY DEF ListOf
  <2>2. PICK j \in 1..Len(s) : s[j] = <<kind, l, t[i][3]>>
    BY <2>1 DEF ListOf
  <2> QED BY <2>2
<1>5. Len(s) = Len(t) /\ \A i \in 1..Len(s) : f[i] = g[i]
  <2> HIDE DEF f, g
  <2> QED BY <1>2, <1>3, <1>4, SameEnumeration
<1>6. ASSUME NEW i \in 1..Len(s) PROVE s[i] = t[i]
  <2>1. s[i][3] = t[i][3]
    BY <1>5
  <2> QED BY <1>5, <2>1 DEF ListOf
<1> QED BY <1>1, <1>5, <1>6

LEMMA ListLength ==
    ASSUME NEW s, NEW kind, NEW l, NEW N \in SUBSET Int, ListOf(s, kind, l, N)
    PROVE  Cardinality(N) = Len(s)
<1> DEFINE f == [i \in 1..Len(s) |-> s[i][3]]
<1>1. Len(s) \in Nat
  BY DEF ListOf
<1>2. f \in [1..Len(s) -> N]
  BY DEF ListOf
<1>3. ASSUME NEW i \in 1..Len(s), NEW j \in 1..Len(s), f[i] = f[j] PROVE i = j
  <2>1. s[i][3] = s[j][3] /\ s[i][3] \in Int
    BY <1>3 DEF ListOf
  <2>2. ~(i < j) /\ ~(j < i)
    BY <2>1 DEF ListOf
  <2> QED BY <1>1, <2>2
<1>4. \A n \in N : \E i \in 1..Len(s) : f[i] = n
  <2> SUFFICES ASSUME NEW n \in N PROVE \E i \in 1..Len(s) : f[i] = n
    OBVIOUS
  <2>1. PICK i \in 1..Len(s) : s[i] = <<kind, l, n>>
    BY DEF ListOf
  <2> QED BY <2>1
<1>5. f \in Bijection(1..Len(s), N)
  <2> HIDE DEF f
  <2> QED BY <1>2, <1>3, <1>4 DEF Bijection, Injection, Surjection, IsInjective
<1>6. IsFiniteSet(1..Len(s)) /\ Cardinality(1..Len(s)) = Len(s)
  <2>1. \A n \in Nat : IsFiniteSet(1..n) /\ Cardinality(1..n) = IF 1 > n THEN 0 ELSE n - 1 + 1
    BY FS_Interval
  <2> QED BY <1>1, <2>1
<1>7. ExistsBijection(1..Len(s), N)
  BY <1>5 DEF ExistsBijection
<1> QED BY <1>6, <1>7, FS_Bijection

-----------------------------------------------------------------------------
(* The records that the loops of a load have taken so far, schema by schema   *)

LEMMA Lengths ==
    ASSUME LoadInv, Active
    PROVE  /\ Len(image.schemas) \in Nat /\ DOMAIN image.schemas = 1..Len(image.schemas)
           /\ Len(image.entities) \in Nat /\ DOMAIN image.entities = 1..Len(image.entities)
           /\ Len(image.types) \in Nat /\ DOMAIN image.types = 1..Len(image.types)
           /\ DOMAIN image.attributes = 1..Len(image.attributes)
           /\ Len(image.attributes) \in Nat
<1>1. image.schemas \in Seq(SchemaRecords)
  BY DEF LoadInv, Images, SchemaRecords
<1>2. image.entities \in Seq(EntityRecords)
  BY DEF LoadInv, Images, EntityRecords
<1>3. image.types \in Seq(TypeRecords)
  BY DEF LoadInv, Images, TypeRecords
<1>4. image.attributes \in Seq([kind : STRING, domain : References])
  BY DEF LoadInv, Images
<1>5. \A S, x : x \in Seq(S) => Len(x) \in Nat /\ DOMAIN x = 1..Len(x)
  OBVIOUS
<1> QED BY <1>1, <1>2, <1>3, <1>4, <1>5

LEMMA TypeTyped ==
    ASSUME LoadInv, Active, NEW i \in 1..Len(image.types)
    PROVE  image.types[i].schema \in Nat /\ image.types[i].schema < Len(image.schemas)
<1>1. image.types \in Seq(TypeRecords)
  BY DEF LoadInv, Images, TypeRecords
<1>2. i \in DOMAIN image.types /\ image.types[i] \in TypeRecords
  BY <1>1
<1>3. image.types[i].schema < Len(image.schemas)
  BY <1>2 DEF LoadInv, Valid, TypesValid
<1> QED BY <1>2, <1>3 DEF TypeRecords

(* Schemas of a load are told apart by their slots.                           *)
LEMMA SchemaAtDiffers ==
    ASSUME LoadInv, Active, NEW o \in Nat
    PROVE  SchemaAt(o) # NoObject /\ \A i \in Nat : SchemaAt(i) = SchemaAt(o) => i = o
<1>1. SchemaAt(o) \in (Kinds \cup {"schema", "attribute"}) \X (1..MaxLoads) \X Nat
  BY DEF LoadInv, SchemaAt
<1> QED BY <1>1, NullAssumption DEF SchemaAt

LaterThanListed    == {"entityMetadata", "modules"} \cup (IF path = "packed" THEN {"renames"} ELSE {})
LaterThanCompleted == LaterThanListed \ {"entityMetadata"}

EntitiesSoFar == IF pc = "entities" THEN 1..(k - 1)
                 ELSE IF pc \in LaterThanEntities THEN 1..Len(image.entities) ELSE {}
TypesSoFar == IF pc = "types" THEN 1..(k - 1)
              ELSE IF pc \in LaterThanTypes THEN 1..Len(image.types) ELSE {}
ListedSoFar == IF pc = "typeMetadata" THEN 1..(k - 1)
               ELSE IF pc \in LaterThanListed THEN 1..Len(image.types) ELSE {}
CompletedSoFar == IF pc = "entityMetadata" THEN 1..(k - 1)
                  ELSE IF pc \in LaterThanCompleted THEN 1..Len(image.entities) ELSE {}

(* Each loop adds its record, and its end nothing.                            *)
LEMMA StepsOn ==
    ASSUME LoadInv, AtMostOne, Step, Active'
    PROVE  /\ Active /\ UNCHANGED <<load, image, path>> /\ k \in Nat \ {0}
           /\ \/ /\ Follows(path, pc, pc') /\ pc' # "idle" /\ k' = 1 /\ LoopEnds
                 /\ k - 1 = Count(TableOf[pc])
              \/ /\ pc' = pc /\ k' = k + 1 /\ ~LoopEnds /\ k <= Count(TableOf[pc])
<1>1. k \in Nat \ {0}
  BY DEF LoadInv
<1>2. CASE LoopEnds
  <2>1. Follows(path, pc, pc') /\ pc' # "idle" /\ Active /\ UNCHANGED <<load, image, path>> /\ k' = 1
        /\ k > Count(TableOf[pc]) /\ k <= Count(TableOf[pc]) + 1
    BY <1>2, LoopFollows DEF LoopEnds, Active, AtMostOne
  <2>2. Count(TableOf[pc]) \in Nat
    <3>1. TableOf[pc] \in {"schemas", "entities", "types", "aggregates", "renames"}
      BY <2>1 DEF LoadInv, Active, PackedStages, TableStages, TableOf
    <3>2. /\ Len(image.schemas) \in Nat /\ Len(image.entities) \in Nat
          /\ Len(image.types) \in Nat /\ Len(image.aggregates) \in Nat
          /\ Len(image.renames) \in Nat
      BY <2>1 DEF LoadInv, Images
    <3> QED BY <3>1, <3>2 DEF Count
  <2>3. k - 1 = Count(TableOf[pc])
    BY <1>1, <2>1, <2>2
  <2> QED BY <1>1, <1>2, <2>1, <2>3
<1>3. ASSUME NEW stage \in PackedStages \cup TableStages, RecordStep(stage)
      PROVE  /\ Active /\ UNCHANGED <<load, image, path>>
             /\ pc' = pc /\ k' = k + 1 /\ ~LoopEnds /\ k <= Count(TableOf[pc])
  <2>1. /\ UNCHANGED <<load, image, path>> /\ pc = stage
        /\ pc' = pc /\ k' = k + 1 /\ k <= Count(TableOf[pc])
    BY <1>3 DEF RecordStep, At, Next1
  <2>2. ~LoopEnds
    BY <2>1, LoopFollows DEF LoadInv, Follows
  <2> QED BY <2>1, <2>2 DEF Active
<1>4. pc' \notin {"failed", "crashed"}
  BY DEF Active
<1> QED BY <1>1, <1>2, <1>3, <1>4, StepKinds

(* Which step a loop takes.                                                   *)
LEMMA StepOf ==
    ASSUME Step, ~LoopEnds, pc' # "crashed"
    PROVE  /\ pc = "schemas" => CreateSchema
           /\ pc = "begin" => BeginModule
           /\ pc = "entities" => CreateEntity
           /\ pc = "types" => CreateType
           /\ pc = "typeMetadata" => CompleteType
           /\ pc = "entityMetadata" => CompleteEntity
           /\ pc \in {"aggregates", "aggregateReferents", "renames"} =>
                  CreateAggregate \/ ResolveAggregate \/ AddRename
           /\ pc = "modules" => InitializeFromContext \/ InitializeFromImage
BY DEF Step, CreateSchema, BeginModule, CreateEntity, CreateType, CreateAggregate,
       ResolveAggregate, CompleteType, CompleteEntity, Overflow, AddRename, InitializeFromContext,
       InitializeFromImage, At

LEMMA SoFarMoves ==
    ASSUME LoadInv, AtMostOne, Step, Active'
    PROVE  /\ EntitiesSoFar' = IF pc' = pc /\ pc = "entities" THEN EntitiesSoFar \cup {k}
                               ELSE EntitiesSoFar
           /\ TypesSoFar' = IF pc' = pc /\ pc = "types" THEN TypesSoFar \cup {k} ELSE TypesSoFar
           /\ ListedSoFar' = IF pc' = pc /\ pc = "typeMetadata" THEN ListedSoFar \cup {k}
                             ELSE ListedSoFar
           /\ CompletedSoFar' = IF pc' = pc /\ pc = "entityMetadata" THEN CompletedSoFar \cup {k}
                                ELSE CompletedSoFar
<1>1. /\ Active /\ UNCHANGED <<load, image, path>> /\ k \in Nat \ {0}
      /\ \/ /\ Follows(path, pc, pc') /\ pc' # "idle" /\ k' = 1
            /\ k - 1 = Count(TableOf[pc])
         \/ pc' = pc /\ k' = k + 1
  BY StepsOn
<1>2. CASE pc' = pc /\ k' = k + 1
  <2>1. 1..(k' - 1) = 1..(k - 1) \cup {k}
    BY <1>1, <1>2
  <2> DEFINE m == 1..(k - 1)
  <2> HIDE DEF m
  <2>2. 1..(k' - 1) = m \cup {k}
    BY <2>1 DEF m
  <2>3. /\ EntitiesSoFar = IF pc = "entities" THEN m
                 ELSE IF pc \in LaterThanEntities THEN 1..Len(image.entities) ELSE {}
        /\ TypesSoFar = IF pc = "types" THEN m
                 ELSE IF pc \in LaterThanTypes THEN 1..Len(image.types) ELSE {}
        /\ ListedSoFar = IF pc = "typeMetadata" THEN m
                 ELSE IF pc \in LaterThanListed THEN 1..Len(image.types) ELSE {}
        /\ CompletedSoFar = IF pc = "entityMetadata" THEN m
                 ELSE IF pc \in LaterThanCompleted THEN 1..Len(image.entities) ELSE {}
    BY DEF m, EntitiesSoFar, TypesSoFar, ListedSoFar, CompletedSoFar
  <2>4. /\ EntitiesSoFar' = IF pc = "entities" THEN m \cup {k}
                 ELSE IF pc \in LaterThanEntities THEN 1..Len(image.entities) ELSE {}
        /\ TypesSoFar' = IF pc = "types" THEN m \cup {k}
                 ELSE IF pc \in LaterThanTypes THEN 1..Len(image.types) ELSE {}
        /\ ListedSoFar' = IF pc = "typeMetadata" THEN m \cup {k}
                 ELSE IF pc \in LaterThanListed THEN 1..Len(image.types) ELSE {}
        /\ CompletedSoFar' = IF pc = "entityMetadata" THEN m \cup {k}
                 ELSE IF pc \in LaterThanCompleted THEN 1..Len(image.entities) ELSE {}
    BY <1>1, <1>2, <2>2 DEF EntitiesSoFar, TypesSoFar, ListedSoFar, CompletedSoFar,
       LaterThanEntities, LaterThanTypes, LaterThanListed, LaterThanCompleted
  <2> QED BY <1>2, <2>3, <2>4
<1>3. CASE Follows(path, pc, pc') /\ pc' # "idle" /\ k' = 1 /\ k - 1 = Count(TableOf[pc])
  <2> DEFINE e == Len(image.entities)
             t == Len(image.types)
  <2>1. /\ pc \in {"entities", "entityMetadata"} => k - 1 = e
        /\ pc \in {"types", "typeMetadata"} => k - 1 = t
        /\ 1..(k' - 1) = {} /\ pc' # pc
    BY <1>3 DEF Count, TableOf, Follows
  <2>2. pc \in {"entities", "entityMetadata"} => 1..(k - 1) = 1..e
    BY <2>1
  <2>3. pc \in {"types", "typeMetadata"} => 1..(k - 1) = 1..t
    BY <2>1
  <2>4. path \in {"packed", "tables"}
    BY DEF LoadInv
  <2>5. EntitiesSoFar' = EntitiesSoFar /\ TypesSoFar' = TypesSoFar
    BY <1>1, <1>3, <2>1, <2>2, <2>3 DEF EntitiesSoFar, TypesSoFar, LaterThanEntities, LaterThanTypes, Follows
  <2>6. ListedSoFar' = ListedSoFar
    BY <1>1, <1>3, <2>1, <2>3, <2>4 DEF ListedSoFar, LaterThanListed, Follows
  <2>7. CompletedSoFar' = CompletedSoFar
    BY <1>1, <1>3, <2>1, <2>2, <2>4 DEF CompletedSoFar, LaterThanListed, LaterThanCompleted, Follows
  <2> QED BY <2>1, <2>5, <2>6, <2>7
<1> QED BY <1>1, <1>2, <1>3

EndOf(e) == image.entities[e].firstAttribute + image.entities[e].attributeCount
Run(e)   == (image.entities[e].firstAttribute + 1)..EndOf(e)

LEMMA RunsInOrder ==
    ASSUME LoadInv, Active
    PROVE  \A f \in 1..Len(image.entities) : \A e \in 1..(f - 1) :
               EndOf(e) <= image.entities[f].firstAttribute
<1> DEFINE s == image.entities
           c == Len(s)
           first(e) == s[e].firstAttribute
           end(e) == s[e].firstAttribute + s[e].attributeCount
           S == {n \in Nat : n + 1 \in 1..c => \A e \in 1..n : end(e) <= first(n + 1)}
<1>1. c \in Nat
  BY Lengths
<1>2. ASSUME NEW e \in 1..c PROVE first(e) \in Nat /\ end(e) \in Nat /\ first(e) <= end(e)
  <2>1. s[e].firstAttribute \in Nat /\ s[e].attributeCount \in Nat
    BY EntityTyped
  <2> QED BY <2>1
<1>3. ASSUME NEW n \in Nat, n + 2 \in 1..c PROVE first(n + 2) = end(n + 1)
  <2>1. Adjacent(s, "firstAttribute", "attributeCount", Len(image.attributes))
    BY DEF LoadInv, Valid, EntitiesValid
  <2>2. s # <<>> /\ n + 2 \in 2..Len(s) /\ (n + 2) - 1 = n + 1
    BY <1>1, <1>3
  <2>3. s[n + 2]["firstAttribute"] = s[(n + 2) - 1]["firstAttribute"] + s[(n + 2) - 1]["attributeCount"]
    BY <2>1, <2>2 DEF Adjacent
  <2> QED BY <2>2, <2>3
<1> HIDE DEF first, end, c
<1>4. 0 \in S
  OBVIOUS
<1>5. ASSUME NEW n \in Nat, n \in S PROVE n + 1 \in S
  <2> SUFFICES ASSUME (n + 1) + 1 \in 1..c, NEW e \in 1..(n + 1)
               PROVE  end(e) <= first((n + 1) + 1)
    OBVIOUS
  <2>1. (n + 1) + 1 = n + 2 /\ n + 1 \in 1..c /\ e \in 1..c /\ n + 2 \in 1..c
    BY <1>1
  <2>2. first(n + 2) = end(n + 1) /\ first(n + 1) <= end(n + 1)
        /\ first(n + 1) \in Nat /\ end(n + 1) \in Nat /\ end(e) \in Nat
    BY <1>2, <1>3, <2>1
  <2>3. e # n + 1 => end(e) <= first(n + 1)
    <3>1. e # n + 1 => e \in 1..n
      OBVIOUS
    <3> QED BY <1>5, <2>1, <3>1
  <2>4. end(e) <= first(n + 2)
    BY <2>2, <2>3
  <2> QED BY <2>1, <2>4
<1>6. Nat \subseteq S
  <2> HIDE DEF S
  <2> QED BY <1>4, <1>5, Induction
<1> SUFFICES ASSUME NEW f \in 1..Len(image.entities), NEW e \in 1..(f - 1)
             PROVE  end(e) <= first(f)
  BY DEF EndOf, first, end
<1>7. f - 1 \in Nat /\ (f - 1) + 1 = f /\ f \in 1..c
  BY <1>1 DEF c
<1>8. f - 1 \in S
  BY <1>6, <1>7
<1> QED BY <1>7, <1>8

EntitiesOf(i)    == {e \in EntitiesSoFar : image.entities[e].schema = i - 1}
TypesOf(i)       == {t \in TypesSoFar : image.types[t].schema = i - 1}
ListedOf(i)      == {t \in ListedSoFar : image.types[t].schema = i - 1}
CompletedOf(i)   == {e \in CompletedSoFar : image.entities[e].schema = i - 1}
AttributesFor(i) == UNION {Run(e) : e \in CompletedOf(i)}

(* Whose the record is that a loop takes.                                     *)
Takes(stage, i) == pc' = pc /\ pc = stage /\ image[TableOf[stage]][k].schema = i - 1

LEMMA OwnMoves ==
    ASSUME LoadInv, AtMostOne, Step, Active', NEW i
    PROVE  /\ EntitiesOf(i)' = IF Takes("entities", i) THEN EntitiesOf(i) \cup {k} ELSE EntitiesOf(i)
           /\ TypesOf(i)' = IF Takes("types", i) THEN TypesOf(i) \cup {k} ELSE TypesOf(i)
           /\ ListedOf(i)' = IF Takes("typeMetadata", i) THEN ListedOf(i) \cup {k} ELSE ListedOf(i)
<1>1. UNCHANGED image
  BY StepsOn
<1>2. EntitiesOf(i)' = IF Takes("entities", i) THEN EntitiesOf(i) \cup {k} ELSE EntitiesOf(i)
  <2>1. EntitiesSoFar' = IF pc' = pc /\ pc = "entities" THEN EntitiesSoFar \cup {k} ELSE EntitiesSoFar
    BY SoFarMoves
  <2> QED BY <1>1, <2>1 DEF EntitiesOf, Takes, TableOf
<1>3. TypesOf(i)' = IF Takes("types", i) THEN TypesOf(i) \cup {k} ELSE TypesOf(i)
  <2>1. TypesSoFar' = IF pc' = pc /\ pc = "types" THEN TypesSoFar \cup {k} ELSE TypesSoFar
    BY SoFarMoves
  <2> QED BY <1>1, <2>1 DEF TypesOf, Takes, TableOf
<1>4. ListedOf(i)' = IF Takes("typeMetadata", i) THEN ListedOf(i) \cup {k} ELSE ListedOf(i)
  <2>1. ListedSoFar' = IF pc' = pc /\ pc = "typeMetadata" THEN ListedSoFar \cup {k} ELSE ListedSoFar
    BY SoFarMoves
  <2> QED BY <1>1, <2>1 DEF ListedOf, Takes, TableOf
<1> QED BY <1>2, <1>3, <1>4

LEMMA CompletedMoves ==
    ASSUME LoadInv, AtMostOne, Step, Active', NEW i
    PROVE  /\ CompletedOf(i)' = IF Takes("entityMetadata", i) THEN CompletedOf(i) \cup {k}
                                ELSE CompletedOf(i)
           /\ AttributesFor(i)' = IF Takes("entityMetadata", i) THEN AttributesFor(i) \cup Run(k)
                                  ELSE AttributesFor(i)
<1>1. UNCHANGED image
  BY StepsOn
<1>2. CompletedOf(i)' = IF Takes("entityMetadata", i) THEN CompletedOf(i) \cup {k} ELSE CompletedOf(i)
  <2>1. CompletedSoFar' = IF pc' = pc /\ pc = "entityMetadata" THEN CompletedSoFar \cup {k}
                          ELSE CompletedSoFar
    BY SoFarMoves
  <2> QED BY <1>1, <2>1 DEF CompletedOf, Takes, TableOf
<1>3. AttributesFor(i)' = UNION {Run(e) : e \in CompletedOf(i)'}
  BY <1>1 DEF AttributesFor, Run, EndOf
<1>4. UNION {Run(e) : e \in CompletedOf(i) \cup {k}} = AttributesFor(i) \cup Run(k)
  BY DEF AttributesFor
<1>5. UNION {Run(e) : e \in CompletedOf(i)} = AttributesFor(i)
  BY DEF AttributesFor
<1> QED BY <1>2, <1>3, <1>4, <1>5

(* Those taken before have smaller numbers.                                   *)
LEMMA OwnBefore ==
    ASSUME LoadInv, NEW i
    PROVE  /\ pc = "entities" => \A n \in EntitiesOf(i) : n \in Int /\ n < k
           /\ pc = "types" => \A n \in TypesOf(i) : n \in Int /\ n < k
           /\ pc = "typeMetadata" => \A n \in ListedOf(i) : n \in Int /\ n < k
BY DEF EntitiesOf, TypesOf, ListedOf, EntitiesSoFar, TypesSoFar, ListedSoFar, LoadInv

-----------------------------------------------------------------------------
(* What is captured for a schema is the list of its records so far, in a      *)
(* packed image and in the tables.                                            *)

RecordLists == [entities : Seq(Descriptors), types : Seq(Descriptors),
                attributes : Seq(Descriptors)]

LEMMA ListsOf ==
    ASSUME NEW a \in Seq(Descriptors), NEW b \in Seq(Descriptors), NEW c \in Seq(Descriptors)
    PROVE  [entities |-> a, types |-> b, attributes |-> c] \in RecordLists
BY DEF RecordLists

Longer(m, kind, d) == [m EXCEPT ![kind] = Append(@, d)]

Right(m, i) ==
    /\ m \in RecordLists
    /\ ListOf(m.entities, "entity", load, EntitiesOf(i))
    /\ ListOf(m.types, "type", load, TypesOf(i))
    /\ ListOf(m.attributes, "attribute", load, AttributesFor(i))

Capture == IF path = "packed" THEN context ELSE pending
CaptureRight(i) == SchemaAt(i) \in DOMAIN Capture /\ Right(Capture[SchemaAt(i)], i)

Waits(i) ==
    /\ pc = "schemas" => path = "packed" /\ i < k
    /\ pc = "begin" => i < k
    /\ pc = "modules" => k <= i

CaptureInv == Active => \A i \in 1..Len(image.schemas) : Waits(i) => CaptureRight(i)

LEMMA Records ==
    ASSUME LoadInv, LastModuleCurrent, Active, NEW o \in Nat, NEW kind, NEW d,
           SchemaAt(o) \in DOMAIN Capture, path' = path, Record(SchemaAt(o), kind, d)
    PROVE  Capture' = [Capture EXCEPT ![SchemaAt(o)] = Longer(Capture[SchemaAt(o)], kind, d)]
<1> DEFINE t == SchemaAt(o)
<1>1. CASE path = "packed"
  <2>1. t \in DOMAIN context /\ context' = RecordedInContext(t, kind, d)
    BY <1>1 DEF Record, Capture
  <2>2. context' = [context EXCEPT ![t] = [context[t] EXCEPT ![kind] = Append(@, d)]]
    BY <2>1 DEF RecordedInContext
  <2> QED BY <1>1, <2>2 DEF Capture, Longer
<1>2. CASE path = "tables"
  <2>1. t \in DOMAIN pending /\ RecordPending(t, kind, d)
    BY <1>2 DEF Record, Capture
  <2>2. t # NoObject
    BY SchemaAtDiffers
  <2>3. FoundModule(t) = t
    BY <2>1, <2>2, FindIsLookup DEF Lookup
  <2>4. pending' = [pending EXCEPT ![t] = [pending[t] EXCEPT ![kind] = Append(@, d)]]
    BY <2>1, <2>3 DEF RecordPending
  <2> QED BY <1>2, <2>4 DEF Capture, Longer
<1> QED BY <1>1, <1>2 DEF LoadInv

LongerBy(m, made) == [m EXCEPT !.attributes = @ \o made]

LEMMA RecordsAttributes ==
    ASSUME LoadInv, LastModuleCurrent, Active, NEW o \in Nat, NEW r,
           SchemaAt(o) \in DOMAIN Capture, path' = path, RecordAttributes(SchemaAt(o), r)
    PROVE  Capture' = IF MadeFor(r) = <<>> THEN Capture
                      ELSE [Capture EXCEPT ![SchemaAt(o)] = LongerBy(Capture[SchemaAt(o)], MadeFor(r))]
<1> DEFINE t == SchemaAt(o)
           made == MadeFor(r)
<1>0. CASE made = <<>>
  BY <1>0 DEF RecordAttributes, Capture, pendings
<1>1. CASE path = "packed" /\ made # <<>>
  <2>1. t \in DOMAIN context
        /\ context' = [context EXCEPT ![t].attributes = @ \o made]
    BY <1>1 DEF RecordAttributes, Capture
  <2> HIDE DEF t, made
  <2>2. context' = [context EXCEPT ![t] = [context[t] EXCEPT !.attributes = @ \o made]]
    BY <2>1
  <2> QED BY <1>1, <2>2 DEF Capture, LongerBy, t, made
<1>2. CASE path = "tables" /\ made # <<>>
  <2>1. t \in DOMAIN pending
        /\ pending' = IF FoundModule(t) \in DOMAIN pending
                      THEN [pending EXCEPT ![FoundModule(t)].attributes = @ \o made]
                      ELSE pending
    BY <1>2 DEF RecordAttributes, Capture
  <2>2. t # NoObject
    BY SchemaAtDiffers
  <2>3. FoundModule(t) = t
    BY <2>1, <2>2, FindIsLookup DEF Lookup
  <2> HIDE DEF t, made
  <2>4. pending' = [pending EXCEPT ![t] = [pending[t] EXCEPT !.attributes = @ \o made]]
    BY <2>1, <2>3
  <2> QED BY <1>2, <2>4 DEF Capture, LongerBy, t, made
<1> QED BY <1>0, <1>1, <1>2 DEF LoadInv

(* Recording lengthens one list, and nothing else.                            *)
LEMMA EntityLonger ==
    ASSUME NEW m \in RecordLists, NEW d \in Descriptors, NEW n, n = Longer(m, "entities", d)
    PROVE  /\ n \in RecordLists /\ n.entities = Append(m.entities, d)
           /\ n.types = m.types /\ n.attributes = m.attributes
<1> DEFINE b == Append(m.entities, d)
<1>1. /\ m.entities \in Seq(Descriptors) /\ m.types \in Seq(Descriptors)
      /\ m.attributes \in Seq(Descriptors)
      /\ m = [entities |-> m.entities, types |-> m.types, attributes |-> m.attributes]
  BY DEF RecordLists
<1>2. b \in Seq(Descriptors)
  BY <1>1
<1>3. n = [m EXCEPT !.entities = b]
  BY DEF Longer
<1> HIDE DEF b
<1>4. n = [entities |-> b, types |-> m.types, attributes |-> m.attributes]
  BY <1>1, <1>3
<1>5. n \in RecordLists
  BY <1>1, <1>2, <1>4, ListsOf
<1> QED BY <1>4, <1>5 DEF b

LEMMA TypeLonger ==
    ASSUME NEW m \in RecordLists, NEW d \in Descriptors, NEW n, n = Longer(m, "types", d)
    PROVE  /\ n \in RecordLists /\ n.types = Append(m.types, d)
           /\ n.entities = m.entities /\ n.attributes = m.attributes
<1> DEFINE b == Append(m.types, d)
<1>1. /\ m.entities \in Seq(Descriptors) /\ m.types \in Seq(Descriptors)
      /\ m.attributes \in Seq(Descriptors)
      /\ m = [entities |-> m.entities, types |-> m.types, attributes |-> m.attributes]
  BY DEF RecordLists
<1>2. b \in Seq(Descriptors)
  BY <1>1
<1>3. n = [m EXCEPT !.types = b]
  BY DEF Longer
<1> HIDE DEF b
<1>4. n = [entities |-> m.entities, types |-> b, attributes |-> m.attributes]
  BY <1>1, <1>3
<1>5. n \in RecordLists
  BY <1>1, <1>2, <1>4, ListsOf
<1> QED BY <1>4, <1>5 DEF b

LEMMA AllLonger ==
    ASSUME NEW m \in RecordLists, NEW made \in Seq(Descriptors)
    PROVE  LET n == LongerBy(m, made)
           IN  /\ n \in RecordLists
               /\ n.entities = m.entities /\ n.types = m.types
               /\ n.attributes = m.attributes \o made
<1> DEFINE n == LongerBy(m, made)
           a == m.attributes \o made
<1>1. /\ m.entities \in Seq(Descriptors) /\ m.types \in Seq(Descriptors)
      /\ m.attributes \in Seq(Descriptors)
      /\ m = [entities |-> m.entities, types |-> m.types, attributes |-> m.attributes]
  BY DEF RecordLists
<1>2. a \in Seq(Descriptors)
  BY <1>1
<1>3. n = [m EXCEPT !.attributes = a]
  BY DEF LongerBy
<1> HIDE DEF n, a
<1>4. n = [entities |-> m.entities, types |-> m.types, attributes |-> a]
  BY <1>1, <1>3
<1>5. n \in RecordLists
  BY <1>1, <1>2, <1>4, ListsOf
<1> QED BY <1>4, <1>5 DEF n, a

(* What the step adds to the capture of a schema.                             *)
Gains(m, i) ==
    IF Takes("entities", i) THEN Longer(m, "entities", EntityAt(k))
    ELSE IF Takes("types", i) THEN Longer(m, "types", TypeAt(k))
    ELSE IF Takes("entityMetadata", i) /\ MadeFor(image.entities[k]) # <<>>
         THEN LongerBy(m, MadeFor(image.entities[k])) ELSE m

LEMMA MadeForRun ==
    ASSUME LoadInv, Active, NEW e \in 1..Len(image.entities)
    PROVE  LET r == image.entities[e]
           IN  /\ MadeFor(r) \in Seq(Descriptors) /\ Len(MadeFor(r)) = r.attributeCount
               /\ \A j \in 1..r.attributeCount :
                      MadeFor(r)[j] = <<"attribute", load, r.firstAttribute + j>>
               /\ r.attributeCount \in Nat /\ r.firstAttribute \in Nat
<1> DEFINE a == image.entities[e].firstAttribute
           c == image.entities[e].attributeCount
           made == MadeFor(image.entities[e])
<1>1. a \in Nat /\ c \in Nat /\ load \in Int
  BY EntityTyped DEF LoadInv
<1>2. made = [j \in 1..c |-> <<"attribute", load, a + j>>]
  BY DEF MadeFor, AttributeAt
<1> HIDE DEF a, c, made
<1>3. \A j \in 1..c : <<"attribute", load, a + j>> \in Descriptors
  BY <1>1 DEF Descriptors
<1>4. made \in [1..c -> Descriptors]
  BY <1>2, <1>3
<1>5. made \in Seq(Descriptors) /\ Len(made) = c
  BY <1>1, <1>4
<1> QED BY <1>1, <1>2, <1>5 DEF a, c, made

LEMMA CaptureGains ==
    ASSUME LoadInv, AtMostOne, Step, Active', NEW i \in 1..Len(image.schemas),
           NEW m, Right(m, i), NEW n, n = Gains(m, i)
    PROVE  Right(n, i)'
<1>1. /\ Active /\ UNCHANGED <<load, image, path>> /\ k \in Nat \ {0} /\ load \in Int
      /\ pc' = pc => k <= Count(TableOf[pc])
  <2>1. /\ Active /\ UNCHANGED <<load, image, path>> /\ k \in Nat \ {0}
        /\ \/ Follows(path, pc, pc')
           \/ pc' = pc /\ k <= Count(TableOf[pc])
    BY StepsOn
  <2>2. Follows(path, pc, pc') => pc' # pc
    BY DEF Follows
  <2> QED BY <2>1, <2>2 DEF LoadInv
<1>2. /\ m \in RecordLists
      /\ ListOf(m.entities, "entity", load, EntitiesOf(i))
      /\ ListOf(m.types, "type", load, TypesOf(i))
      /\ ListOf(m.attributes, "attribute", load, AttributesFor(i))
  BY DEF Right
<1>3. /\ EntitiesOf(i)' = IF Takes("entities", i) THEN EntitiesOf(i) \cup {k} ELSE EntitiesOf(i)
      /\ TypesOf(i)' = IF Takes("types", i) THEN TypesOf(i) \cup {k} ELSE TypesOf(i)
      /\ AttributesFor(i)' = IF Takes("entityMetadata", i) THEN AttributesFor(i) \cup Run(k)
                              ELSE AttributesFor(i)
  BY OwnMoves, CompletedMoves
<1>4. EntityAt(k) \in Descriptors /\ TypeAt(k) \in Descriptors
  BY <1>1 DEF EntityAt, TypeAt, Descriptors
<1>5. CASE Takes("entities", i)
  <2>1. n = Longer(m, "entities", EntityAt(k)) /\ ~Takes("types", i) /\ ~Takes("entityMetadata", i)
    BY <1>5 DEF Gains, Takes
  <2>2. /\ n \in RecordLists /\ n.entities = Append(m.entities, EntityAt(k))
        /\ n.types = m.types /\ n.attributes = m.attributes
    BY <1>2, <1>4, <2>1, EntityLonger
  <2>3. \A j \in EntitiesOf(i) : j \in Int /\ j < k
    BY <1>5, OwnBefore DEF Takes
  <2>4. ListOf(n.entities, "entity", load, EntitiesOf(i) \cup {k})
    BY <1>1, <1>2, <1>4, <2>2, <2>3, ListAppended DEF EntityAt
  <2>5. Right(n, i)'
    BY <1>1, <1>2, <1>3, <1>5, <2>1, <2>2, <2>4 DEF Right
  <2> QED BY <2>5
<1>6. CASE Takes("types", i)
  <2>1. n = Longer(m, "types", TypeAt(k)) /\ ~Takes("entities", i) /\ ~Takes("entityMetadata", i)
    BY <1>6 DEF Gains, Takes
  <2>2. /\ n \in RecordLists /\ n.types = Append(m.types, TypeAt(k))
        /\ n.entities = m.entities /\ n.attributes = m.attributes
    BY <1>2, <1>4, <2>1, TypeLonger
  <2>3. \A j \in TypesOf(i) : j \in Int /\ j < k
    BY <1>6, OwnBefore DEF Takes
  <2>4. ListOf(n.types, "type", load, TypesOf(i) \cup {k})
    BY <1>1, <1>2, <1>4, <2>2, <2>3, ListAppended DEF TypeAt
  <2>5. Right(n, i)'
    BY <1>1, <1>2, <1>3, <1>6, <2>1, <2>2, <2>4 DEF Right
  <2> QED BY <2>5
<1>7. CASE Takes("entityMetadata", i)
  <2> DEFINE r == image.entities[k]
             made == MadeFor(r)
             a == r.firstAttribute
             c == r.attributeCount
  <2>1. ~Takes("entities", i) /\ ~Takes("types", i)
        /\ n = IF made # <<>> THEN LongerBy(m, made) ELSE m
    BY <1>7 DEF Gains, Takes
  <2>2. k \in 1..Len(image.entities) /\ pc = "entityMetadata"
    BY <1>1, <1>7, Lengths DEF Takes, Count, TableOf
  <2>3. /\ made \in Seq(Descriptors) /\ Len(made) = c
        /\ \A j \in 1..c : made[j] = <<"attribute", load, a + j>>
        /\ a \in Nat /\ c \in Nat
    BY <1>1, <2>2, MadeForRun
  <2>4. Run(k) = (a + 1)..(a + c)
    BY DEF Run, EndOf
  <2>5. \A x \in AttributesFor(i) : x \in Int /\ x <= a
    <3> SUFFICES ASSUME NEW x \in AttributesFor(i) PROVE x \in Int /\ x <= a
      OBVIOUS
    <3>1. PICK e \in CompletedOf(i) : x \in Run(e)
      BY DEF AttributesFor
    <3>2. e \in 1..(k - 1) /\ e \in 1..Len(image.entities)
      BY <1>1, <2>2, Lengths DEF CompletedOf, CompletedSoFar
    <3>3. EndOf(e) <= a
      BY <1>1, <2>2, <3>2, RunsInOrder
    <3>4. image.entities[e].firstAttribute \in Nat /\ image.entities[e].attributeCount \in Nat
      BY <1>1, <3>2, EntityTyped
    <3> HIDE DEF a
    <3> QED BY <2>3, <3>1, <3>3, <3>4 DEF Run, EndOf
  <2> HIDE DEF a, c, made, r
  <2>6. CASE made # <<>>
    <3>1. /\ n \in RecordLists /\ n.types = m.types /\ n.entities = m.entities
          /\ n.attributes = m.attributes \o made
      BY <1>2, <2>1, <2>3, <2>6, AllLonger
    <3>2. ListOf(n.attributes, "attribute", load, AttributesFor(i) \cup (a + 1)..(a + c))
      <4> DEFINE l == m.attributes
      <4>1. a \in Int /\ c \in Nat /\ ListOf(l, "attribute", load, AttributesFor(i))
        BY <1>2, <2>3
      <4> HIDE DEF l
      <4>2. ListOf(l \o made, "attribute", load, AttributesFor(i) \cup (a + 1)..(a + c))
        BY <2>3, <2>5, <4>1, ListContinued
      <4> QED BY <3>1, <4>2 DEF l
    <3> QED BY <1>1, <1>2, <1>3, <1>7, <2>1, <2>4, <3>1, <3>2 DEF Right
  <2>7. CASE made = <<>>
    <3>1. c = 0
      BY <2>3, <2>7
    <3>2. Run(k) = {}
      BY <2>3, <2>4, <3>1
    <3>3. AttributesFor(i)' = AttributesFor(i)
      BY <1>3, <3>2
    <3> QED BY <1>1, <1>2, <1>3, <2>1, <2>7, <3>3 DEF Right
  <2> QED BY <2>6, <2>7
<1>8. CASE ~Takes("entities", i) /\ ~Takes("types", i) /\ ~Takes("entityMetadata", i)
  <2>1. n = m
    BY <1>8 DEF Gains
  <2>2. Right(n, i)'
    BY <1>1, <1>2, <1>3, <1>8, <2>1 DEF Right
  <2> QED BY <2>2
<1> QED BY <1>5, <1>6, <1>7, <1>8

LEMMA OwnersCapture ==
    ASSUME LoadInv, CaptureInv, Active
    PROVE  /\ pc \in {"entities", "entityMetadata"} /\ k <= Len(image.entities) =>
                  /\ image.entities[k].schema + 1 \in Nat
                  /\ SchemaAt(image.entities[k].schema + 1) \in DOMAIN Capture
           /\ pc = "types" /\ k <= Len(image.types) =>
                  /\ image.types[k].schema + 1 \in Nat
                  /\ SchemaAt(image.types[k].schema + 1) \in DOMAIN Capture
<1>1. k \in Nat \ {0}
  BY DEF LoadInv
<1>2. CASE pc \in {"entities", "entityMetadata"} /\ k <= Len(image.entities)
  <2> DEFINE o == image.entities[k].schema + 1
  <2>1. k \in 1..Len(image.entities)
    BY <1>1, <1>2, Lengths
  <2>2. o \in 1..Len(image.schemas) /\ o \in Nat
    BY <2>1, EntityTyped, Lengths
  <2>3. Waits(o)
    BY <1>2 DEF Waits
  <2> HIDE DEF o
  <2>4. SchemaAt(o) \in DOMAIN Capture
    BY <2>2, <2>3 DEF CaptureInv, CaptureRight
  <2> QED BY <1>2, <2>2, <2>4 DEF o
<1>3. CASE pc = "types" /\ k <= Len(image.types)
  <2> DEFINE o == image.types[k].schema + 1
  <2>1. k \in 1..Len(image.types)
    BY <1>1, <1>3, Lengths
  <2>2. o \in 1..Len(image.schemas) /\ o \in Nat
    BY <2>1, TypeTyped, Lengths
  <2>3. Waits(o)
    BY <1>3 DEF Waits
  <2> HIDE DEF o
  <2>4. SchemaAt(o) \in DOMAIN Capture
    BY <2>2, <2>3 DEF CaptureInv, CaptureRight
  <2> QED BY <1>3, <2>2, <2>4 DEF o
<1> QED BY <1>2, <1>3

LEMMA CaptureMoves ==
    ASSUME LoadInv, AtMostOne, LastModuleCurrent, CaptureInv, Step, Active',
           NEW i \in 1..Len(image.schemas), Waits(i), pc = "modules" => LoopEnds \/ i # k
    PROVE  /\ SchemaAt(i) \in DOMAIN Capture'
           /\ Capture'[SchemaAt(i)] = Gains(Capture[SchemaAt(i)], i)
<1> DEFINE t == SchemaAt(i)
<1>1. /\ Active /\ UNCHANGED <<load, image, path>> /\ k \in Nat \ {0}
      /\ LoopEnds => pc' # pc
      /\ ~LoopEnds => pc' = pc /\ k <= Count(TableOf[pc])
  <2>1. /\ Active /\ UNCHANGED <<load, image, path>> /\ k \in Nat \ {0}
        /\ \/ Follows(path, pc, pc') /\ LoopEnds
           \/ pc' = pc /\ ~LoopEnds /\ k <= Count(TableOf[pc])
    BY StepsOn
  <2>2. Follows(path, pc, pc') => pc' # pc
    BY DEF Follows
  <2>3. CASE Follows(path, pc, pc') /\ LoopEnds
    BY <2>1, <2>2, <2>3
  <2>4. CASE pc' = pc /\ ~LoopEnds /\ k <= Count(TableOf[pc])
    BY <2>1, <2>4
  <2> QED BY <2>1, <2>3, <2>4
<1>2. t \in DOMAIN Capture
  BY <1>1 DEF CaptureInv, CaptureRight
<1>3. i \in Nat /\ \A o \in Nat : SchemaAt(o) = t => o = i
  <2>1. i \in Nat
    BY <1>1, Lengths
  <2> QED BY <1>1, <2>1, SchemaAtDiffers
<1>4. CASE CreateSchema \/ BeginModule
  <2>1. i < k /\ t # SchemaAt(k)
    BY <1>1, <1>3, <1>4 DEF Waits, CreateSchema, BeginModule, At
  <2>2. t \in DOMAIN Capture' /\ Capture'[t] = Capture[t]
    <3>1. CASE path = "packed" /\ CreateSchema
      BY <1>1, <1>2, <2>1, <3>1 DEF CreateSchema, CaptureBegun, Begun, Set, Capture
    <3>2. CASE path = "tables" /\ CreateSchema
      BY <1>1, <1>2, <3>2 DEF CreateSchema, Capture, pendings
    <3>3. CASE path = "tables" /\ BeginModule
      BY <1>1, <1>2, <2>1, <3>3 DEF BeginModule, Begun, Set, Capture
    <3>4. CASE path = "packed" /\ BeginModule
      BY <3>4 DEF BeginModule, At, LoadInv, PackedStages
    <3> QED BY <1>4, <3>1, <3>2, <3>3, <3>4 DEF LoadInv
  <2>3. pc \in {"schemas", "begin"}
    BY <1>4 DEF CreateSchema, BeginModule, At
  <2> QED BY <2>2, <2>3 DEF Gains, Takes
<1>5. CASE CreateEntity
  <2> DEFINE o == image.entities[k].schema + 1
  <2>1. pc = "entities" /\ pc' = pc /\ k <= Len(image.entities)
        /\ Record(SchemaAt(o), "entities", EntityAt(k)) /\ TableOf["entities"] = "entities"
    BY <1>5 DEF CreateEntity, At, Next1, Count, TableOf, SchemaOf
  <2>2. o \in Nat /\ SchemaAt(o) \in DOMAIN Capture
    BY <1>1, <2>1, OwnersCapture
  <2>3. k \in 1..Len(image.entities) /\ image.entities[k].schema \in Nat
    <3>1. k \in 1..Len(image.entities)
      BY <1>1, <2>1, Lengths
    <3> QED BY <1>1, <3>1, EntityTyped
  <2>4. image.entities[k].schema = i - 1 <=> o = i
    BY <1>3, <2>3
  <2> HIDE DEF o
  <2>5. Capture' = [Capture EXCEPT ![SchemaAt(o)] = Longer(Capture[SchemaAt(o)], "entities", EntityAt(k))]
    BY <1>1, <2>1, <2>2, Records
  <2>6. Gains(Capture[t], i) = IF o = i THEN Longer(Capture[t], "entities", EntityAt(k)) ELSE Capture[t]
    BY <2>1, <2>4 DEF Gains, Takes
  <2> QED BY <1>2, <1>3, <2>2, <2>5, <2>6
<1>6. CASE CreateType
  <2> DEFINE o == image.types[k].schema + 1
  <2>1. pc = "types" /\ pc' = pc /\ k <= Len(image.types)
        /\ Record(SchemaAt(o), "types", TypeAt(k)) /\ TableOf["types"] = "types"
    BY <1>6 DEF CreateType, At, Next1, Count, TableOf, SchemaOf
  <2>2. o \in Nat /\ SchemaAt(o) \in DOMAIN Capture
    BY <1>1, <2>1, OwnersCapture
  <2>3. k \in 1..Len(image.types) /\ image.types[k].schema \in Nat
    <3>1. k \in 1..Len(image.types)
      BY <1>1, <2>1, Lengths
    <3> QED BY <1>1, <3>1, TypeTyped
  <2>4. image.types[k].schema = i - 1 <=> o = i
    BY <1>3, <2>3
  <2> HIDE DEF o
  <2>5. Capture' = [Capture EXCEPT ![SchemaAt(o)] = Longer(Capture[SchemaAt(o)], "types", TypeAt(k))]
    BY <1>1, <2>1, <2>2, Records
  <2>6. Gains(Capture[t], i) = IF o = i THEN Longer(Capture[t], "types", TypeAt(k)) ELSE Capture[t]
    BY <2>1, <2>4 DEF Gains, Takes
  <2> QED BY <1>2, <1>3, <2>2, <2>5, <2>6
<1>7. CASE CompleteEntity
  <2> DEFINE o == image.entities[k].schema + 1
             made == MadeFor(image.entities[k])
  <2>1. pc = "entityMetadata" /\ pc' = pc /\ k <= Len(image.entities)
        /\ RecordAttributes(SchemaAt(o), image.entities[k]) /\ TableOf["entityMetadata"] = "entities"
    BY <1>7 DEF CompleteEntity, At, Next1, Count, TableOf, SchemaOf
  <2>2. o \in Nat /\ SchemaAt(o) \in DOMAIN Capture
    BY <1>1, <2>1, OwnersCapture
  <2>3. k \in 1..Len(image.entities) /\ image.entities[k].schema \in Nat
    <3>1. k \in 1..Len(image.entities)
      BY <1>1, <2>1, Lengths
    <3> QED BY <1>1, <3>1, EntityTyped
  <2>4. image.entities[k].schema = i - 1 <=> o = i
    BY <1>3, <2>3
  <2> HIDE DEF o
  <2>5. Capture' = IF made = <<>> THEN Capture
                   ELSE [Capture EXCEPT ![SchemaAt(o)] = LongerBy(Capture[SchemaAt(o)], made)]
    BY <1>1, <2>1, <2>2, RecordsAttributes
  <2>6. Gains(Capture[t], i) = IF o = i /\ made # <<>> THEN LongerBy(Capture[t], made) ELSE Capture[t]
    BY <2>1, <2>4 DEF Gains, Takes
  <2> HIDE DEF made
  <2> QED BY <1>2, <1>3, <2>2, <2>5, <2>6
<1>8. CASE InitializeFromContext \/ InitializeFromImage
  <2>1. pc = "modules" /\ pc' = pc /\ ~LoopEnds
    <3>1. pc = "modules" /\ k <= Len(image.schemas) /\ Len(image.schemas) \in Nat
      BY <1>1, <1>8, Lengths DEF InitializeFromContext, InitializeFromImage, At, Count, TableOf
    <3>2. ~LoopEnds
      BY <1>1, <3>1 DEF LoopEnds, Count, TableOf
    <3> QED BY <1>1, <3>1, <3>2
  <2>2. t # SchemaAt(k)
    <3>1. i # k
      BY <2>1
    <3> QED BY <1>1, <1>3, <3>1
  <2>3. t \in DOMAIN Capture' /\ Capture'[t] = Capture[t]
    <3>1. CASE InitializeFromContext
      <4>1. path = "packed" /\ context' = Without(context, {SchemaAt(k)})
        BY <1>1, <3>1, <2>1 DEF InitializeFromContext, Active
      <4> QED BY <1>1, <1>2, <2>2, <4>1 DEF Without, Restrict, Capture
    <3>2. CASE InitializeFromImage
      <4>1. path = "tables" /\ pending' = Without(pending, {SchemaAt(k)})
        BY <3>2 DEF InitializeFromImage
      <4> QED BY <1>1, <1>2, <2>2, <4>1 DEF Without, Restrict, Capture
    <3> QED BY <1>8, <3>1, <3>2
  <2> QED BY <2>1, <2>3 DEF Gains, Takes
<1>9. CASE LoopEnds \/ CreateAggregate \/ ResolveAggregate \/ CompleteType \/ AddRename \/ Overflow
  <2>1. UNCHANGED <<context, pending>>
    BY <1>9 DEF LoopEnds, CreateAggregate, ResolveAggregate, CompleteType, Overflow, AddRename, pendings
  <2>2. pc' # pc \/ pc \notin {"entities", "types", "entityMetadata"}
    BY <1>1, <1>9 DEF CreateAggregate, ResolveAggregate, CompleteType, Overflow, AddRename, At
  <2> QED BY <1>1, <1>2, <2>1, <2>2 DEF Capture, Gains, Takes
<1> QED BY <1>4, <1>5, <1>6, <1>7, <1>8, <1>9 DEF Step

LEMMA CaptureBegins ==
    ASSUME LoadInv, Active, NEW i \in 1..Len(image.schemas), i = k, path' = path, UNCHANGED <<load, image>>,
           \/ CreateSchema /\ path = "packed"
           \/ BeginModule
    PROVE  CaptureRight(i)'
<1>1. pc' = pc /\ pc \in {"schemas", "begin"}
  BY DEF CreateSchema, BeginModule, At, Next1
<1>2. /\ SchemaAt(i) \in DOMAIN Capture' /\ Capture'[SchemaAt(i)] = NoRecords
  <2>1. CASE CreateSchema /\ path = "packed"
    BY <2>1 DEF CreateSchema, CaptureBegun, Begun, Set, Capture
  <2>2. CASE BeginModule
    <3>1. path = "tables"
      BY <2>2 DEF BeginModule, At, LoadInv, PackedStages
    <3> QED BY <2>2, <3>1 DEF BeginModule, Begun, Set, Capture
  <2> QED BY <2>1, <2>2
<1>3. /\ EntitiesOf(i)' = {} /\ TypesOf(i)' = {} /\ AttributesFor(i)' = {}
  BY <1>1 DEF EntitiesOf, TypesOf, AttributesFor, CompletedOf, EntitiesSoFar, TypesSoFar,
     CompletedSoFar, LaterThanEntities, LaterThanTypes, LaterThanListed, LaterThanCompleted
<1>4. NoRecords \in RecordLists
  BY DEF NoRecords, RecordLists
<1>5. /\ ListOf(NoRecords.entities, "entity", load, {}) /\ ListOf(NoRecords.types, "type", load, {})
      /\ ListOf(NoRecords.attributes, "attribute", load, {})
  BY EmptyList DEF NoRecords
<1>6. SchemaAt(i)' = SchemaAt(i)
  BY DEF SchemaAt
<1> QED BY <1>2, <1>3, <1>4, <1>5, <1>6 DEF CaptureRight, Right

LEMMA NextCaptureInv ==
    LoadInv /\ AtMostOne /\ LastModuleCurrent /\ CaptureInv /\ [Next]_vars => CaptureInv'
<1> SUFFICES ASSUME LoadInv, AtMostOne, LastModuleCurrent, CaptureInv, [Next]_vars, Active',
                    NEW i \in 1..Len(image.schemas)', Waits(i)'
             PROVE  CaptureRight(i)'
  BY DEF CaptureInv
<1>1. CASE LoadImage
  <2>1. pc' = "schemas" /\ k' = 1
    BY <1>1 DEF LoadImage, Active
  <2>2. Len(image.schemas)' \in Nat
    BY NextLoadInv DEF LoadInv, Images
  <2> QED BY <2>1, <2>2 DEF Waits
<1>2. CASE RemoveFromRegistry \/ UNCHANGED vars
  <2>1. UNCHANGED <<pc, k, path, image, load, context, pending>>
    BY <1>2 DEF RemoveFromRegistry, vars, loader, pendings
  <2>2. CaptureRight(i)
    BY <2>1 DEF CaptureInv, Active, Waits
  <2>3. UNCHANGED <<SchemaAt(i), Capture, EntitiesOf(i), TypesOf(i), AttributesFor(i)>>
    BY <2>1 DEF SchemaAt, Capture, EntitiesOf, TypesOf, AttributesFor, CompletedOf,
       EntitiesSoFar, TypesSoFar, CompletedSoFar, LaterThanListed, LaterThanCompleted, Run, EndOf
  <2> QED BY <2>1, <2>2, <2>3 DEF CaptureRight, Right
<1>3. CASE Step
  <2>1. /\ Active /\ UNCHANGED <<load, image, path>> /\ k \in Nat \ {0}
        /\ \/ /\ Follows(path, pc, pc') /\ LoopEnds /\ k' = 1 /\ k - 1 = Count(TableOf[pc])
              /\ pc' # "idle"
           \/ pc' = pc /\ k' = k + 1 /\ ~LoopEnds
    BY <1>3, StepsOn
  <2>2. i \in 1..Len(image.schemas) /\ i \in Nat /\ Len(image.schemas) \in Nat
    BY <2>1, Lengths
  <2>3. CASE i = k /\ ((CreateSchema /\ path = "packed") \/ BeginModule)
    BY <2>1, <2>2, <2>3, CaptureBegins
  <2>4. CASE ~(i = k /\ ((CreateSchema /\ path = "packed") \/ BeginModule))
    <3>1. Waits(i) /\ (pc = "modules" => LoopEnds \/ i # k)
      <4>1. CASE Follows(path, pc, pc') /\ k' = 1 /\ k - 1 = Count(TableOf[pc]) /\ pc' # "idle"
        <5>1. pc \in {"schemas", "begin"} => i < k
          BY <2>1, <2>2, <4>1 DEF Count, TableOf
        <5>2. pc = "schemas" => path = "packed"
          BY <2>2, <4>1 DEF Follows, Waits, LoadInv
        <5>3. pc # "modules"
          BY <4>1 DEF Follows
        <5> QED BY <5>1, <5>2, <5>3 DEF Waits
      <4>2. CASE pc' = pc /\ k' = k + 1 /\ ~LoopEnds
        <5>1. /\ pc = "schemas" => CreateSchema /\ path = "packed" /\ i < k + 1
              /\ pc = "begin" => BeginModule /\ i < k + 1
              /\ pc = "modules" => k + 1 <= i
          BY <1>3, <2>1, <4>2, StepOf DEF Waits
        <5> QED BY <2>1, <2>2, <2>4, <5>1 DEF Waits
      <4> QED BY <2>1, <4>1, <4>2
    <3>2. CaptureRight(i)
      BY <2>1, <2>2, <3>1 DEF CaptureInv
    <3> DEFINE m == Capture[SchemaAt(i)]
               n == Capture'[SchemaAt(i)]
    <3>3. SchemaAt(i) \in DOMAIN Capture' /\ n = Gains(m, i)
      BY <1>3, <2>2, <3>1, CaptureMoves
    <3>4. Right(m, i)
      BY <3>2 DEF CaptureRight
    <3>5. SchemaAt(i)' = SchemaAt(i)
      BY <2>1 DEF SchemaAt
    <3>6. /\ n \in RecordLists
          /\ ListOf(n.entities, "entity", load', EntitiesOf(i)')
          /\ ListOf(n.types, "type", load', TypesOf(i)')
          /\ ListOf(n.attributes, "attribute", load', AttributesFor(i)')
      <4> HIDE DEF m, n
      <4> QED BY <1>3, <2>2, <3>3, <3>4, CaptureGains DEF Right
    <3> QED BY <3>3, <3>5, <3>6 DEF CaptureRight, Right
  <2> QED BY <2>3, <2>4
<1> QED BY <1>1, <1>2, <1>3 DEF Next

-----------------------------------------------------------------------------
(* Subtypes of the load are what the image makes them, so that a set of       *)
(* entities that invalidating layouts never leaves is a cycle of the image.   *)

SupersOf(i) == ResolvedFrom(image.entities[i].firstSupertype, image.entities[i].supertypeCount)
SubtypesIn(e) == {EntityAt(i) : i \in {n \in DOMAIN image.entities : e \in Range(SupersOf(n))}}

SubtypesTold ==
    /\ DOMAIN subtypes = Entities
    /\ \A e \in Entities : e[2] = load => subtypes[e] \in Seq(SubtypesIn(e))

LEMMA SupersTyped ==
    ASSUME LoadInv, Active, NEW i \in 1..Len(image.entities)
    PROVE  /\ image.entities[i].supertypeCount \in Nat
           /\ SupersOf(i) \in [1..image.entities[i].supertypeCount -> Range(SupersOf(i))]
BY EntityTyped DEF SupersOf, ResolvedFrom, Range

LEMMA FirstOf ==
    ASSUME NEW c \in Nat, NEW T, NEW f \in [1..c -> T], NEW n \in 0..c
    PROVE  SubSeq(f, 1, n) \in [1..n -> T] /\ SubSeq(f, 1, c) = f
<1>1. ASSUME NEW m \in 0..c PROVE SubSeq(f, 1, m) = [i \in 1..m |-> f[i]]
  <2>1. 1 \in Int /\ m \in Int /\ \A i \in 1..m : f[i] \in T
    OBVIOUS
  <2> DEFINE q == SubSeq(f, 1, m)
  <2>2. /\ q \in Seq(T) /\ Len(q) = IF 1 <= m THEN m - 1 + 1 ELSE 0
        /\ \A i \in 1..(m - 1 + 1) : q[i] = f[1 + i - 1]
    BY ONLY <2>1, SubSeqProperties
  <2> HIDE DEF q
  <2>3. q \in Seq(T) /\ Len(q) = m /\ \A i \in 1..m : q[i] = f[i]
    BY <2>2
  <2>4. q = [i \in 1..m |-> f[i]]
    BY <2>3
  <2> QED BY <2>4 DEF q
<1>2. SubSeq(f, 1, n) = [i \in 1..n |-> f[i]] /\ \A i \in 1..n : f[i] \in T
  BY <1>1
<1>3. c \in 0..c /\ SubSeq(f, 1, c) = [i \in 1..c |-> f[i]]
  BY <1>1
<1>4. SubSeq(f, 1, n) \in [1..n -> T]
  BY <1>2
<1>5. f = [i \in 1..c |-> f[i]]
  OBVIOUS
<1> QED BY <1>3, <1>4, <1>5

(* An entity is repeated in the subtypes of its own supertypes only.          *)
LEMMA RepeatedIn ==
    ASSUME NEW c \in Nat, NEW s, DOMAIN s = 1..c, NEW d, NEW T,
           d \in Range(s) => EntityAt(k) \in T
    PROVE  Repeated(s, d) \in Seq(T)
<1> DEFINE P == {i \in DOMAIN s : s[i] = d}
<1>1. IsFiniteSet(1..c)
  BY FS_Interval
<1>2. IsFiniteSet(P) /\ Cardinality(P) \in Nat
  BY <1>1, FS_Subset, FS_CardinalityType
<1>3. CASE P = {}
  <2>1. Cardinality(P) = 0
    BY <1>3, FS_EmptySet
  <2> QED BY <2>1 DEF Repeated
<1>4. CASE P # {}
  <2>1. d \in Range(s)
    BY <1>4 DEF Range
  <2> HIDE DEF P
  <2>2. [j \in 1..Cardinality(P) |-> EntityAt(k)] \in Seq(T)
    BY <1>2, <2>1
  <2> QED BY <2>2 DEF Repeated, P
<1> QED BY <1>3, <1>4

LEMMA LinkedTold ==
    ASSUME LoadInv, Active, SubtypesTold, k \in 1..Len(image.entities),
           NEW n \in 0..image.entities[k].supertypeCount,
           NEW e \in Entities, e[2] = load
    PROVE  LinkedTo(SubSeq(SupersOf(k), 1, n))[e] \in Seq(SubtypesIn(e))
<1> DEFINE s == SubSeq(SupersOf(k), 1, n)
<1>1. /\ k \in DOMAIN image.entities /\ image.entities[k].supertypeCount \in Nat
      /\ SupersOf(k) \in [1..image.entities[k].supertypeCount -> Range(SupersOf(k))]
  BY EntityTyped, SupersTyped
<1>2. s \in [1..n -> Range(SupersOf(k))]
  BY <1>1, FirstOf
<1>3. n \in Nat /\ DOMAIN s = 1..n
  BY <1>1, <1>2
<1>4. e \in Range(s) => EntityAt(k) \in SubtypesIn(e)
  BY <1>1, <1>2 DEF SubtypesIn, Range
<1> HIDE DEF s
<1>5. Repeated(s, e) \in Seq(SubtypesIn(e))
  BY <1>3, <1>4, RepeatedIn
<1>6. subtypes[e] \in Seq(SubtypesIn(e))
  BY DEF SubtypesTold
<1>7. LinkedTo(s)[e] = subtypes[e] \o Repeated(s, e)
  BY DEF LinkedTo, SubtypesTold
<1>8. LinkedTo(s)[e] \in Seq(SubtypesIn(e))
  BY <1>5, <1>6, <1>7, ConcatProperties
<1> QED BY <1>8 DEF s

LEMMA NextSubtypesTold ==
    ASSUME LoadInv, Tagged, Named, SubtypesTold, [Next]_vars
    PROVE  SubtypesTold'
<1> USE DEF Entities
<1>1. CASE LoadImage
  <2>1. /\ UNCHANGED <<supertypes, subtypes>> /\ load \in Nat /\ load' = load + 1
    BY <1>1 DEF LoadImage, entities, LoadInv
  <2>2. \A e \in Entities : e[2] # load'
    BY <2>1 DEF Tagged, Named
  <2> QED BY <2>1, <2>2 DEF SubtypesTold
<1>2. CASE CreateEntity
  <2>1. /\ UNCHANGED <<load, image>>
        /\ supertypes' = Set(supertypes, EntityAt(k), <<>>)
        /\ subtypes' = Set(subtypes, EntityAt(k), <<>>)
    BY <1>2 DEF CreateEntity, Next1
  <2>2. \A e : SubtypesIn(e)' = SubtypesIn(e)
    BY <2>1 DEF SubtypesIn, SupersOf, ResolvedFrom, Resolved, EntityAt, TypeAt, AggregateAt
  <2>3. DOMAIN subtypes' = Entities'
    BY <2>1 DEF Set, SubtypesTold
  <2>4. ASSUME NEW e \in Entities', e[2] = load PROVE subtypes'[e] \in Seq(SubtypesIn(e))
    <3>1. CASE e = EntityAt(k)
      <4>1. subtypes'[e] = <<>>
        BY <2>1, <2>3, <3>1 DEF Set
      <4> QED BY <4>1
    <3>2. CASE e # EntityAt(k)
      <4>1. e \in Entities /\ subtypes'[e] = subtypes[e]
        BY <2>1, <2>3, <2>4, <3>2 DEF Set, SubtypesTold
      <4> QED BY <2>4, <4>1 DEF SubtypesTold
    <3> QED BY <3>1, <3>2
  <2> QED BY <2>1, <2>2, <2>3, <2>4 DEF SubtypesTold
<1>3. CASE CompleteEntity
  <2> DEFINE c == image.entities[k].supertypeCount
  <2>1. /\ UNCHANGED <<load, image>> /\ Active /\ k \in 1..Len(image.entities)
        /\ Entities' = Entities /\ subtypes' = LinkedTo(SupersOf(k))
    <3>1. UNCHANGED <<load, image>> /\ subtypes' = LinkedTo(SupersOf(k)) /\ Entities' = Entities
      BY <1>3 DEF CompleteEntity, Next1, SupersOf
    <3>2. Active /\ k \in 1..Len(image.entities)
      BY <1>3 DEF CompleteEntity, At, Active, LoadInv, Count, TableOf
    <3> QED BY <3>1, <3>2
  <2>2. \A e : SubtypesIn(e)' = SubtypesIn(e)
    <3>1. load' = load /\ image' = image
      BY <2>1
    <3> QED BY <3>1 DEF SubtypesIn, SupersOf, ResolvedFrom, Resolved, EntityAt, TypeAt, AggregateAt
  <2>3. c \in Nat /\ SupersOf(k) \in [1..c -> Range(SupersOf(k))]
    BY <2>1, SupersTyped
  <2>4. SubSeq(SupersOf(k), 1, c) = SupersOf(k) /\ c \in 0..c
    BY <2>3, FirstOf
  <2>5. \A e \in Entities : e[2] = load => LinkedTo(SupersOf(k))[e] \in Seq(SubtypesIn(e))
    BY <2>1, <2>4, LinkedTold
  <2>6. DOMAIN subtypes' = Entities'
    BY <2>1 DEF LinkedTo, SubtypesTold
  <2> QED BY <2>1, <2>2, <2>5, <2>6 DEF SubtypesTold
<1>4. CASE ~(LoadImage \/ CreateEntity \/ CompleteEntity)
  <2>1. UNCHANGED <<load, image, supertypes, subtypes>>
    BY <1>4 DEF Next, Step, LoopEnds, CreateSchema, BeginModule, CreateType, CreateAggregate,
       ResolveAggregate, CompleteType, Overflow, AddRename, InitializeFromContext,
       InitializeFromImage, RemoveFromRegistry, vars, loader, entities, Next1
  <2>2. \A e : SubtypesIn(e)' = SubtypesIn(e)
    BY <2>1 DEF SubtypesIn, SupersOf, ResolvedFrom, Resolved, EntityAt, TypeAt, AggregateAt
  <2> QED BY <2>1, <2>2 DEF SubtypesTold
<1> QED BY <1>1, <1>2, <1>3, <1>4

(* Where a supertype of the image leads, as the loader and the image say it.  *)
LEMMA SuperNumbered ==
    ASSUME LoadInv, Active, NEW i \in 1..Len(image.entities), NEW j \in 1..Len(image.entities),
           EntityAt(i) \in Range(SupersOf(j))
    PROVE  i \in SupertypesIn(image, j)
<1> DEFINE t == image.entities[j]
<1>1. /\ t.firstSupertype \in Nat /\ t.supertypeCount \in Nat /\ j \in DOMAIN image.entities
  BY EntityTyped
<1>2. /\ InTable(t.firstSupertype, t.supertypeCount, Len(image.references))
      /\ SupertypesAreEntities(image, t)
  BY <1>1 DEF LoadInv, Valid, EntitiesValid
<1>3. PICK m \in 1..t.supertypeCount :
          EntityAt(i) = Resolved(image.references[t.firstSupertype + m])
  BY DEF SupersOf, ResolvedFrom, Range
<1> DEFINE q == image.references[t.firstSupertype + m]
<1>4. q.kind = "entity"
  BY <1>2 DEF SupertypesAreEntities
<1>5. EntityAt(i) = EntityAt(image.schemas[q.schema + 1].firstEntity + q.index + 1)
  BY <1>3, <1>4 DEF Resolved
<1>6. i = image.schemas[q.schema + 1].firstEntity + q.index + 1
  BY <1>5 DEF EntityAt
<1> QED BY <1>6 DEF SupertypesIn

LEMMA OverflowIsCyclic ==
    ASSUME LoadInv, SubtypesTold, Overflow
    PROVE  SupertypesCyclic(image)
<1>1. Active /\ k \in 1..Len(image.entities) /\ OverflowsAt(k)
  BY DEF Overflow, At, Active, LoadInv, Count, TableOf
<1>2. PICK n \in 0..image.entities[k].supertypeCount :
          Endless(LinkedTo(SubSeq(SupersOf(k), 1, n)), EntityAt(k))
  BY <1>1 DEF OverflowsAt, SupersOf
<1> DEFINE subs == LinkedTo(SubSeq(SupersOf(k), 1, n))
<1>3. DOMAIN subs = Entities
  BY DEF LinkedTo, SubtypesTold
<1>4. PICK S \in SUBSET {e \in Entities : e[2] = load} :
          EntityAt(k) \in S /\ \A e \in S : Range(subs[e]) \cap S # {}
  BY <1>2, <1>3 DEF Endless
<1> HIDE DEF subs
<1> DEFINE N == {i \in DOMAIN image.entities : EntityAt(i) \in S}
<1>5. \A e \in S : subs[e] \in Seq(SubtypesIn(e))
  BY <1>1, <1>2, <1>4, LinkedTold DEF subs
<1>6. ASSUME NEW i \in N PROVE \E j \in N : i \in SupertypesIn(image, j)
  <2>1. PICK f \in S : f \in Range(subs[EntityAt(i)])
    BY <1>4, <1>6
  <2>2. f \in SubtypesIn(EntityAt(i))
    <3>1. subs[EntityAt(i)] \in Seq(SubtypesIn(EntityAt(i)))
      BY <1>5, <1>6
    <3> QED BY <2>1, <3>1 DEF Range
  <2>3. PICK j \in DOMAIN image.entities : f = EntityAt(j) /\ EntityAt(i) \in Range(SupersOf(j))
    BY <2>2 DEF SubtypesIn
  <2>4. i \in 1..Len(image.entities) /\ j \in 1..Len(image.entities)
    BY <1>1, <1>6, Lengths
  <2>5. i \in SupertypesIn(image, j)
    BY <1>1, <2>3, <2>4, SuperNumbered
  <2> QED BY <2>1, <2>3, <2>5
<1>7. k \in N
  BY <1>1, <1>4, Lengths
<1> QED BY <1>6, <1>7 DEF SupertypesCyclic

-----------------------------------------------------------------------------
(* The modules of a load get what was captured for them.                      *)

ModulesRight ==
    pc = "modules" => \A i \in 1..Len(image.schemas) : i < k =>
        /\ image.schemas[i].name \in DOMAIN module
        /\ module[image.schemas[i].name].schema = SchemaAt(i)

AONInv ==
    /\ LoadInv /\ AtMostOne /\ Named /\ MadeInv /\ LastModuleCurrent
    /\ Tagged /\ SchemasMade /\ CaptureInv /\ ModulesRight /\ SubtypesTold /\ AllOrNothing

LEMMA NameInPlace ==
    ASSUME LoadInv, Tagged, SchemasMade, pc = "modules", NEW i \in 1..Len(image.schemas)
    PROVE  nameOf[SchemaAt(i)] = image.schemas[i].name
<1>1. Active
  BY DEF Active
<1>2. SchemaAt(i) \in Schemas /\ SchemaAt(i)[2] = load
  BY <1>1 DEF SchemasMade, SchemaAt
<1>3. PICK j \in 1..Len(image.schemas) :
          SchemaAt(i) = SchemaAt(j) /\ nameOf[SchemaAt(i)] = image.schemas[j].name
  BY <1>2 DEF Tagged, SchemaInPlace
<1> QED BY <1>3 DEF SchemaAt

(* All records are in, when the modules' turn comes.                          *)
LEMMA AllIn ==
    ASSUME LoadInv, pc = "modules", NEW i
    PROVE  /\ EntitiesOf(i) = {e \in 1..Len(image.entities) : image.entities[e].schema = i - 1}
           /\ TypesOf(i) = {t \in 1..Len(image.types) : image.types[t].schema = i - 1}
           /\ ListedOf(i) = TypesOf(i) /\ CompletedOf(i) = EntitiesOf(i)
BY DEF EntitiesOf, TypesOf, ListedOf, CompletedOf, EntitiesSoFar, TypesSoFar, ListedSoFar,
   CompletedSoFar, LaterThanEntities, LaterThanTypes, LaterThanListed, LaterThanCompleted

LEMMA RightCounts ==
    ASSUME LoadInv, pc = "modules", NEW i, NEW m, Right(m, i)
    PROVE  CountsAgree(m, i)
<1>1. Active
  BY DEF Active
<1>2. /\ DOMAIN image.entities = 1..Len(image.entities) /\ DOMAIN image.types = 1..Len(image.types)
      /\ DOMAIN image.attributes = 1..Len(image.attributes) /\ Len(image.attributes) \in Nat
  BY <1>1, Lengths
<1>3. /\ ListOf(m.entities, "entity", load, EntitiesOf(i))
      /\ ListOf(m.types, "type", load, TypesOf(i))
      /\ ListOf(m.attributes, "attribute", load, AttributesFor(i))
  BY DEF Right
<1>4. Len(m.entities) = CountOf("entities", i)
  <2>1. EntitiesOf(i) = {j \in DOMAIN image["entities"] : image["entities"][j].schema = i - 1}
    BY <1>2, AllIn
  <2>2. EntitiesOf(i) \in SUBSET Int
    BY AllIn
  <2> QED BY <1>3, <2>1, <2>2, ListLength DEF CountOf
<1>5. Len(m.types) = CountOf("types", i)
  <2>1. TypesOf(i) = {j \in DOMAIN image["types"] : image["types"][j].schema = i - 1}
    BY <1>2, AllIn
  <2>2. TypesOf(i) \in SUBSET Int
    BY AllIn
  <2> QED BY <1>3, <2>1, <2>2, ListLength DEF CountOf
<1>6. ASSUME NEW e \in 1..Len(image.entities)
      PROVE  /\ Run(e) \subseteq DOMAIN image.attributes
             /\ \A j \in DOMAIN image.attributes :
                    j \in Run(e) <=> InSchema(j - 1, image.entities[e].firstAttribute,
                                              image.entities[e].attributeCount)
  <2> DEFINE a == image.entities[e].firstAttribute
             c == image.entities[e].attributeCount
  <2>1. a \in Nat /\ c \in Nat /\ c <= Len(image.attributes) - a
    BY <1>1, <1>2, EntityTyped DEF LoadInv, Valid, EntitiesValid
  <2>2. Run(e) = (a + 1)..(a + c)
    BY DEF Run, EndOf
  <2> HIDE DEF a, c
  <2>3. Run(e) \subseteq DOMAIN image.attributes
    BY <1>2, <2>1, <2>2
  <2>4. \A j \in DOMAIN image.attributes : j \in Run(e) <=> InSchema(j - 1, a, c)
    BY <1>2, <2>1, <2>2 DEF InSchema
  <2> QED BY <2>3, <2>4 DEF a, c
<1>7. Len(m.attributes) = Cardinality({j \in DOMAIN image.attributes :
           \E e \in DOMAIN image.entities :
               /\ image.entities[e].schema = i - 1
               /\ InSchema(j - 1, image.entities[e].firstAttribute,
                                  image.entities[e].attributeCount)})
  <2> DEFINE U == {j \in DOMAIN image.attributes :
                     \E e \in DOMAIN image.entities :
                         /\ image.entities[e].schema = i - 1
                         /\ InSchema(j - 1, image.entities[e].firstAttribute,
                                            image.entities[e].attributeCount)}
  <2>1. AttributesFor(i) = UNION {Run(e) : e \in EntitiesOf(i)}
    BY AllIn DEF AttributesFor
  <2>2. \A e \in EntitiesOf(i) : e \in 1..Len(image.entities) /\ image.entities[e].schema = i - 1
    BY AllIn
  <2>3. ASSUME NEW j \in AttributesFor(i) PROVE j \in U
    <3>1. PICK e \in EntitiesOf(i) : j \in Run(e)
      BY <2>1
    <3> QED BY <1>2, <1>6, <2>2, <3>1
  <2>4. ASSUME NEW j \in U PROVE j \in AttributesFor(i)
    <3>1. PICK e \in DOMAIN image.entities :
              /\ image.entities[e].schema = i - 1
              /\ InSchema(j - 1, image.entities[e].firstAttribute, image.entities[e].attributeCount)
      OBVIOUS
    <3>2. e \in EntitiesOf(i) /\ j \in Run(e)
      BY <1>2, <1>6, <3>1, AllIn
    <3> QED BY <2>1, <3>2
  <2>5. AttributesFor(i) = U /\ U \in SUBSET Int
    BY <1>2, <2>3, <2>4
  <2> HIDE DEF U
  <2>6. Cardinality(U) = Len(m.attributes)
    BY <1>3, <2>5, ListLength
  <2> QED BY <2>6 DEF U
<1> QED BY <1>4, <1>5, <1>7 DEF CountsAgree

(* A module gets what was captured for its schema, and its counts agree.      *)
LEMMA ModuleGets ==
    ASSUME LoadInv, Tagged, SchemasMade, CaptureInv, InitializeFromContext \/ InitializeFromImage
    PROVE  /\ pc = "modules" /\ pc' = pc /\ k' = k + 1 /\ UNCHANGED <<load, image>>
           /\ k \in 1..Len(image.schemas)
           /\ SchemaAt(k) \in DOMAIN Capture /\ Right(Capture[SchemaAt(k)], k)
           /\ module' = Set(module, image.schemas[k].name,
                            [schema |-> SchemaAt(k), records |-> Capture[SchemaAt(k)]])
<1>1. pc = "modules" /\ Active /\ k \in Nat \ {0} /\ k <= Count("schemas")
  BY DEF InitializeFromContext, InitializeFromImage, At, Active, LoadInv, TableOf
<1>2. k \in 1..Len(image.schemas)
  BY <1>1, Lengths DEF Count
<1>3. nameOf[SchemaAt(k)] = image.schemas[k].name
  BY <1>1, <1>2, NameInPlace
<1>4. SchemaAt(k) \in DOMAIN Capture /\ Right(Capture[SchemaAt(k)], k)
  BY <1>1, <1>2 DEF CaptureInv, CaptureRight, Waits
<1>5. CASE InitializeFromContext
  <2>1. path = "packed" /\ SchemaAt(k) \in DOMAIN context
    BY <1>4, <1>5 DEF InitializeFromContext, Capture
  <2> QED BY <1>1, <1>2, <1>3, <1>4, <1>5, <2>1 DEF InitializeFromContext, Capture, Next1
<1>6. CASE InitializeFromImage
  <2>1. path = "tables" /\ Capture = pending
    BY <1>6 DEF InitializeFromImage, Capture
  <2>2. CountsAgree(pending[SchemaAt(k)], k)
    BY <1>1, <1>4, <2>1, RightCounts
  <2> QED BY <1>1, <1>2, <1>3, <1>4, <1>6, <2>1, <2>2 DEF InitializeFromImage, Next1
<1> QED BY <1>5, <1>6

LEMMA NeverFails ==
    ASSUME LoadInv, Tagged, SchemasMade, CaptureInv, [Next]_vars, pc # "failed"
    PROVE  pc' # "failed"
<1>1. CASE InitializeFromContext \/ InitializeFromImage
  BY <1>1, ModuleGets
<1>2. CASE LoopEnds
  <2>1. Follows(path, pc, pc')
    BY <1>2, LoopFollows
  <2> QED BY <2>1 DEF Follows
<1>3. CASE ~(InitializeFromContext \/ InitializeFromImage \/ LoopEnds)
  BY <1>3 DEF Next, Step, CreateSchema, BeginModule, CreateEntity, CreateType, CreateAggregate,
     ResolveAggregate, CompleteType, CompleteEntity, Overflow, AddRename, LoadImage, RemoveFromRegistry,
     loader, vars, At, Next1
<1> QED BY <1>1, <1>2, <1>3

LEMMA NextModulesRight ==
    ASSUME LoadInv, Tagged, SchemasMade, CaptureInv, ModulesRight, [Next]_vars
    PROVE  ModulesRight'
<1> SUFFICES ASSUME pc' = "modules" PROVE ModulesRight'
  BY DEF ModulesRight
<1>1. CASE InitializeFromContext \/ InitializeFromImage
  <2>1. PICK l :
           /\ pc = "modules" /\ k' = k + 1 /\ UNCHANGED <<load, image>>
           /\ k \in 1..Len(image.schemas)
           /\ module' = Set(module, image.schemas[k].name, [schema |-> SchemaAt(k), records |-> l])
    BY <1>1, ModuleGets
  <2>2. Active /\ k \in Nat
    BY <2>1 DEF Active, LoadInv
  <2> SUFFICES ASSUME NEW i \in 1..Len(image.schemas), i < k + 1
               PROVE  /\ image.schemas[i].name \in DOMAIN module'
                      /\ module'[image.schemas[i].name].schema = SchemaAt(i)
    BY <2>1 DEF ModulesRight, SchemaAt
  <2>3. i \in Nat /\ i \in DOMAIN image.schemas /\ k \in DOMAIN image.schemas
    BY <2>1, <2>2, Lengths
  <2>4. CASE i = k
    BY <2>1, <2>4 DEF Set
  <2>5. CASE i # k
    <3>1. image.schemas[i].name # image.schemas[k].name
      BY <2>2, <2>3, <2>5 DEF LoadInv, NamesDiffer
    <3>2. /\ image.schemas[i].name \in DOMAIN module
          /\ module[image.schemas[i].name].schema = SchemaAt(i)
      BY <2>1, <2>2, <2>3, <2>5 DEF ModulesRight
    <3> QED BY <2>1, <3>1, <3>2 DEF Set
  <2> QED BY <2>4, <2>5
<1>2. CASE LoopEnds
  <2>1. k' = 1 /\ image' = image /\ Active
    BY <1>2 DEF LoopEnds, Active
  <2> QED BY <2>1, Lengths DEF ModulesRight
<1>3. CASE RemoveFromRegistry \/ UNCHANGED vars
  <2>1. UNCHANGED <<pc, k, image, load, module>>
    BY <1>3 DEF RemoveFromRegistry, vars, loader, library
  <2> QED BY <2>1 DEF ModulesRight, SchemaAt
<1>4. CASE LoadImage
  BY <1>4 DEF LoadImage
<1>5. CASE \/ CreateSchema \/ BeginModule \/ CreateEntity \/ CreateType \/ CreateAggregate
            \/ ResolveAggregate \/ CompleteType \/ CompleteEntity \/ AddRename \/ Overflow
  BY <1>5 DEF CreateSchema, BeginModule, CreateEntity, CreateType, CreateAggregate,
     ResolveAggregate, CompleteType, CompleteEntity, Overflow, AddRename, At, Next1
<1> QED BY <1>1, <1>2, <1>3, <1>4, <1>5 DEF Next, Step

(* The last module done, everything of the load is there.                     *)
LEMMA LoadEnds ==
    ASSUME AONInv, LoopEnds, pc' = "idle"
    PROVE  AllOrNothing'
<1>1. /\ pc = "modules" /\ Active /\ k \in Nat
      /\ UNCHANGED <<load, image, nameOf, module, schemaSlot, supertypes, entList>>
      /\ k > Len(image.schemas)
  <2>1. Follows(path, pc, "idle")
    BY LoopFollows DEF AONInv
  <2>2. pc = "modules"
    BY <2>1 DEF Follows
  <2> QED BY <2>2 DEF LoopEnds, names, entities, lists, library, Count, TableOf, Active, AONInv,
             LoadInv
<1>2. {d \in Entities : d[2] = load} = {EntityAt(i) : i \in DOMAIN image.entities}
  <2>1. \A i \in DOMAIN image.entities : EntityAt(i) \in Entities /\ EntityAt(i)[2] = load
    BY <1>1, Lengths DEF AONInv, MadeInv, LaterThanEntities, LaterThanTypes, EntityAt
  <2>2. \A d \in Entities : d[2] = load => \E i \in DOMAIN image.entities : d = EntityAt(i)
    BY DEF AONInv, Tagged
  <2> QED BY <2>1, <2>2
<1>3. ASSUME NEW s \in Schemas, s[2] = load
      PROVE  module[nameOf[s]].schema = s /\ schemaSlot[nameOf[s]] = s
  <2>1. PICK i \in 1..Len(image.schemas) :
           /\ s = SchemaAt(i) /\ nameOf[s] = image.schemas[i].name
           /\ schemaSlot[nameOf[s]] = s
    BY <1>3 DEF AONInv, Tagged, SchemaInPlace
  <2>2. i < k
    BY <1>1, Lengths DEF AONInv
  <2> QED BY <1>1, <2>1, <2>2 DEF AONInv, ModulesRight
<1>4. pc' = "idle"
  OBVIOUS
<1> QED BY <1>1, <1>2, <1>3, <1>4 DEF AllOrNothing, Entities, Schemas, EntityAt

LEMMA NextAllOrNothing == AONInv /\ [Next]_vars => AllOrNothing'
<1> SUFFICES ASSUME AONInv, [Next]_vars PROVE AllOrNothing'
  OBVIOUS
<1>0. pc' # "failed"
  BY NeverFails DEF AONInv, AllOrNothing
<1>1. CASE LoopEnds
  <2>1. pc' # "crashed"
    BY <1>1, LoopFollows DEF AONInv, Follows
  <2>2. pc' # "idle" => AllOrNothing'
    BY <1>0, <2>1 DEF AllOrNothing
  <2> QED BY <1>1, <2>2, LoadEnds
<1>2. CASE LoadImage
  <2>1. \A d \in DOMAIN nameOf' : d[2] # load'
    BY <1>2, LoadImageTags DEF AONInv
  <2>2. pc' # "crashed"
    BY <1>2 DEF LoadImage
  <2> QED BY <1>0, <2>1, <2>2 DEF AllOrNothing
<1>3. CASE RemoveFromRegistry \/ UNCHANGED vars
  <2>1. UNCHANGED <<pc, load, image, nameOf, supertypes, entList, module, schemaSlot>>
    BY <1>3 DEF RemoveFromRegistry, vars, loader, names, entities, lists, library
  <2>2. SupertypesCyclic(image)' <=> SupertypesCyclic(image)
    <3>1. SupertypesCyclic(image)' <=> SupertypesCyclic(image')
      BY DEF SupertypesCyclic, SupertypesIn
    <3> QED BY <2>1, <3>1
  <2> QED BY <2>1, <2>2 DEF AONInv, AllOrNothing, Entities, Schemas, EntityAt
<1>4. ASSUME NEW stage \in PackedStages \cup TableStages, RecordStep(stage)
      PROVE  AllOrNothing'
  <2>1. pc' \notin {"idle", "crashed"}
    BY <1>4 DEF RecordStep, At, Next1, PackedStages, TableStages
  <2> QED BY <1>0, <2>1 DEF AllOrNothing
<1>5. CASE Overflow
  <2>1. pc' = "crashed" /\ image' = image
    BY <1>5, OverflowKeeps
  <2>2. SupertypesCyclic(image)'
    <3>1. SupertypesCyclic(image)' <=> SupertypesCyclic(image')
      BY DEF SupertypesCyclic, SupertypesIn
    <3> QED BY <1>5, <2>1, <3>1, OverflowIsCyclic DEF AONInv
  <2> QED BY <2>1, <2>2 DEF AllOrNothing
<1>6. ASSUME Step, ~Overflow, ~LoopEnds
      PROVE  \E stage \in PackedStages \cup TableStages : RecordStep(stage) \/ pc' = "failed"
  BY <1>6 DEF Step, CreateSchema, BeginModule, CreateEntity, CreateType, CreateAggregate,
     ResolveAggregate, CompleteType, CompleteEntity, AddRename, InitializeFromContext,
     InitializeFromImage, RecordStep, At, PackedStages, TableStages
<1> QED BY <1>0, <1>1, <1>2, <1>3, <1>4, <1>5, <1>6 DEF Next

LEMMA NextAONInv == AONInv /\ [Next]_vars /\ LastModuleCurrent' => AONInv'
<1> SUFFICES ASSUME AONInv, [Next]_vars, LastModuleCurrent' PROVE AONInv'
  OBVIOUS
<1>1. LoadInv' /\ MadeInv' /\ Named' /\ AtMostOne'
  BY NextLoadInv, NextMadeInv, NextNamed, NextAtMostOne DEF AONInv
<1>2. Tagged' /\ SchemasMade'
  BY NextTagged, NextSchemasMade DEF AONInv
<1>3. CaptureInv'
  BY NextCaptureInv DEF AONInv
<1>4. ModulesRight'
  BY NextModulesRight DEF AONInv
<1>5. SubtypesTold'
  BY NextSubtypesTold DEF AONInv
<1> QED BY <1>1, <1>2, <1>3, <1>4, <1>5, NextAllOrNothing DEF AONInv

LEMMA InitAONInv == Init /\ LastModuleCurrent => AONInv
<1> SUFFICES ASSUME Init, LastModuleCurrent PROVE AONInv
  OBVIOUS
<1>1. LoadInv /\ MadeInv /\ Named
  BY InitPLInv DEF PLInv
<1>2. AtMostOne /\ SchemasMade /\ CaptureInv /\ ModulesRight
  BY DEF Init, Active, AtMostOne, SchemasMade, CaptureInv, ModulesRight
<1>3. Tagged /\ AllOrNothing /\ SubtypesTold
  BY DEF Init, Tagged, AllOrNothing, SubtypesTold, Entities, Schemas
<1> QED BY <1>1, <1>2, <1>3 DEF AONInv

(* A load that passes the checks builds every descriptor and initializes      *)
(* every module with counts that agree, and one that does not leaves nothing; *)
(* the loads before it, and what was captured for them, do not come between   *)
(* (schemaInit.cc, schemaModule.cc).  A load is cut off half-way only where   *)
(* the supertypes of its image form a cycle (entityDescriptor.cc:223).        *)
THEOREM LoadsAreAllOrNothing == Spec => []AllOrNothing
<1>1. AONInv => AllOrNothing
  BY DEF AONInv
<1> QED BY <1>1, InitAONInv, NextAONInv, RememberedModuleIsCurrent, PTL DEF Spec

-----------------------------------------------------------------------------
(* What a module numbers is what its schema lists: the lists of a schema grow  *)
(* with the records of their loops, as what is captured does.                 *)

Listed(i) ==
    /\ SchemaAt(i) \in DOMAIN entList /\ SchemaAt(i) \in DOMAIN typeList
    /\ ListOf(entList[SchemaAt(i)], "entity", load, EntitiesOf(i))
    /\ ListOf(typeList[SchemaAt(i)], "type", load, ListedOf(i))

ListsInv ==
    Active => \A i \in 1..Len(image.schemas) : (pc = "schemas" => i < k) => Listed(i)

LEMMA ListsMove ==
    ASSUME LoadInv, AtMostOne, Step, Active', NEW i \in 1..Len(image.schemas), Listed(i),
           ~(CreateSchema /\ i = k)
    PROVE  /\ SchemaAt(i) \in DOMAIN entList' /\ SchemaAt(i) \in DOMAIN typeList'
           /\ entList'[SchemaAt(i)] = IF Takes("entities", i)
                  THEN Append(entList[SchemaAt(i)], EntityAt(k)) ELSE entList[SchemaAt(i)]
           /\ typeList'[SchemaAt(i)] = IF Takes("typeMetadata", i)
                  THEN Append(typeList[SchemaAt(i)], TypeAt(k)) ELSE typeList[SchemaAt(i)]
<1>1. /\ Active /\ UNCHANGED <<load, image, path>> /\ k \in Nat \ {0} /\ i \in Nat
      /\ \/ pc' = pc /\ ~LoopEnds /\ k <= Count(TableOf[pc])
         \/ pc' # pc
  <2>1. /\ Active /\ UNCHANGED <<load, image, path>> /\ k \in Nat \ {0}
        /\ \/ Follows(path, pc, pc')
           \/ pc' = pc /\ ~LoopEnds /\ k <= Count(TableOf[pc])
    BY StepsOn
  <2>2. i \in Nat
    BY <2>1, Lengths
  <2>3. Follows(path, pc, pc') => pc' # pc
    BY DEF Follows
  <2> QED BY <2>1, <2>2, <2>3
<1>2. SchemaAt(i) \in DOMAIN entList /\ SchemaAt(i) \in DOMAIN typeList
  BY DEF Listed
<1>3. CASE CreateSchema
  <2>1. SchemaAt(i) # SchemaAt(k)
    BY <1>3 DEF SchemaAt
  <2> QED BY <1>2, <1>3, <2>1 DEF CreateSchema, At, Set, Takes
<1>4. CASE CreateEntity
  <2> DEFINE o == image.entities[k].schema + 1
  <2>1. pc = "entities" /\ pc' = pc /\ UNCHANGED typeList
        /\ entList' = [entList EXCEPT ![SchemaAt(o)] = Append(@, EntityAt(k))]
    BY <1>4 DEF CreateEntity, At, Next1, Appended, SchemaOf
  <2>2. o \in Nat /\ (SchemaAt(o) = SchemaAt(i) <=> o = i)
    BY <1>1, <2>1, EntityTyped, Lengths DEF SchemaAt, Count, TableOf
  <2>3. Takes("entities", i) <=> o = i
    <3>1. k \in 1..Len(image.entities) /\ TableOf["entities"] = "entities"
      BY <1>1, <2>1, Lengths DEF TableOf, Count
    <3>2. image.entities[k].schema \in Nat
      BY <1>1, <3>1, EntityTyped
    <3>3. image.entities[k].schema = i - 1 <=> o = i
      BY <1>1, <3>2
    <3> HIDE DEF o
    <3> QED BY <2>1, <3>1, <3>3, Zenon DEF Takes
  <2> HIDE DEF o
  <2> QED BY <1>2, <2>1, <2>2, <2>3 DEF Takes
<1>5. CASE CompleteType
  <2> DEFINE o == image.types[k].schema + 1
  <2>1. pc = "typeMetadata" /\ pc' = pc /\ UNCHANGED entList
        /\ typeList' = [typeList EXCEPT ![SchemaAt(o)] = Append(@, TypeAt(k))]
    BY <1>5 DEF CompleteType, At, Next1, Appended, SchemaOf
  <2>2. o \in Nat /\ (SchemaAt(o) = SchemaAt(i) <=> o = i)
    BY <1>1, <2>1, TypeTyped, Lengths DEF SchemaAt, Count, TableOf
  <2>3. Takes("typeMetadata", i) <=> o = i
    <3>1. k \in 1..Len(image.types) /\ TableOf["typeMetadata"] = "types"
      BY <1>1, <2>1, Lengths DEF TableOf, Count
    <3>2. image.types[k].schema \in Nat
      BY <1>1, <3>1, TypeTyped
    <3>3. image.types[k].schema = i - 1 <=> o = i
      BY <1>1, <3>2
    <3> HIDE DEF o
    <3> QED BY <2>1, <3>1, <3>3, Zenon DEF Takes
  <2> HIDE DEF o
  <2> QED BY <1>2, <2>1, <2>2, <2>3 DEF Takes
<1>6. CASE ~CreateSchema /\ ~CreateEntity /\ ~CompleteType
  <2>1. UNCHANGED <<entList, typeList>>
    BY <1>6 DEF Step, LoopEnds, BeginModule, CreateType, CreateAggregate, ResolveAggregate,
       CompleteEntity, Overflow, AddRename, InitializeFromContext, InitializeFromImage, lists
  <2>2. ~Takes("entities", i) /\ ~Takes("typeMetadata", i)
    BY <1>1, <1>6, StepOf DEF Takes
  <2> QED BY <1>2, <2>1, <2>2
<1> QED BY <1>3, <1>4, <1>5, <1>6

LEMMA NextListsInv == LoadInv /\ AtMostOne /\ ListsInv /\ [Next]_vars => ListsInv'
<1> SUFFICES ASSUME LoadInv, AtMostOne, ListsInv, [Next]_vars, Active',
                    NEW i \in 1..Len(image.schemas)', pc' = "schemas" => i < k'
             PROVE  Listed(i)'
  BY DEF ListsInv
<1>1. CASE LoadImage
  <2>1. pc' = "schemas" /\ k' = 1
    BY <1>1 DEF LoadImage, Active
  <2>2. Len(image.schemas)' \in Nat
    BY NextLoadInv DEF LoadInv, Images
  <2> QED BY <2>1, <2>2
<1>2. CASE RemoveFromRegistry \/ UNCHANGED vars
  <2>1. UNCHANGED <<pc, k, path, image, load, entList, typeList>>
    BY <1>2 DEF RemoveFromRegistry, vars, loader, lists
  <2>2. Listed(i)
    BY <2>1 DEF ListsInv, Active
  <2> QED BY <2>1, <2>2 DEF Listed, SchemaAt, EntitiesOf, ListedOf, EntitiesSoFar, ListedSoFar,
       LaterThanListed
<1>3. CASE Step
  <2>1. /\ Active /\ UNCHANGED <<load, image, path>> /\ k \in Nat \ {0} /\ i \in Nat
        /\ i \in 1..Len(image.schemas) /\ Len(image.schemas) \in Nat
        /\ \/ /\ Follows(path, pc, pc') /\ LoopEnds /\ k - 1 = Count(TableOf[pc])
           \/ pc' = pc /\ k' = k + 1 /\ ~LoopEnds
    BY <1>3, StepsOn, Lengths
  <2>2. SchemaAt(i)' = SchemaAt(i)
    BY <2>1 DEF SchemaAt
  <2>3. CASE CreateSchema /\ i = k
    <3>1. /\ SchemaAt(i) \in DOMAIN entList' /\ SchemaAt(i) \in DOMAIN typeList'
          /\ entList'[SchemaAt(i)] = <<>> /\ typeList'[SchemaAt(i)] = <<>>
          /\ pc = "schemas" /\ pc' = pc
      BY <2>3 DEF CreateSchema, Set, At, Next1
    <3>2. EntitiesOf(i)' = {} /\ ListedOf(i)' = {}
      BY <3>1 DEF EntitiesOf, ListedOf, EntitiesSoFar, ListedSoFar, LaterThanEntities,
         LaterThanTypes, LaterThanListed
    <3> QED BY <2>2, <3>1, <3>2, EmptyList DEF Listed
  <2>4. CASE ~(CreateSchema /\ i = k)
    <3>1. Listed(i)
      <4>1. pc = "schemas" => i < k
        <5>1. CASE LoopEnds
          BY <2>1, <5>1 DEF Count, TableOf, Follows
        <5>2. CASE pc = "schemas" /\ ~LoopEnds
          <6>1. i # k /\ i < k + 1
            BY <1>3, <2>1, <2>4, <5>2, StepOf
          <6> QED BY <2>1, <6>1
        <5> QED BY <2>1, <5>1, <5>2
      <4> QED BY <2>1, <4>1 DEF ListsInv
    <3> DEFINE e == entList[SchemaAt(i)]
               t == typeList[SchemaAt(i)]
    <3>2. ListOf(e, "entity", load, EntitiesOf(i)) /\ ListOf(t, "type", load, ListedOf(i))
      BY <3>1 DEF Listed
    <3>3. /\ SchemaAt(i) \in DOMAIN entList' /\ SchemaAt(i) \in DOMAIN typeList'
          /\ entList'[SchemaAt(i)] = IF Takes("entities", i) THEN Append(e, EntityAt(k)) ELSE e
          /\ typeList'[SchemaAt(i)] = IF Takes("typeMetadata", i) THEN Append(t, TypeAt(k)) ELSE t
      BY <1>3, <2>1, <2>4, <3>1, ListsMove
    <3> HIDE DEF e, t
    <3>4. load \in Int /\ EntityAt(k) \in Descriptors /\ TypeAt(k) \in Descriptors
      BY <2>1 DEF LoadInv, EntityAt, TypeAt, Descriptors
    <3>5. ListOf(entList'[SchemaAt(i)], "entity", load, EntitiesOf(i)')
      <4>1. CASE Takes("entities", i)
        <5>1. \A n \in EntitiesOf(i) : n \in Int /\ n < k
          BY <4>1, OwnBefore DEF Takes
        <5>2. ListOf(Append(e, EntityAt(k)), "entity", load, EntitiesOf(i) \cup {k})
          BY <2>1, <3>2, <3>4, <5>1, ListAppended DEF EntityAt
        <5> QED BY <1>3, <3>3, <4>1, <5>2, OwnMoves
      <4>2. CASE ~Takes("entities", i)
        BY <1>3, <3>2, <3>3, <4>2, OwnMoves
      <4> QED BY <4>1, <4>2
    <3>6. ListOf(typeList'[SchemaAt(i)], "type", load, ListedOf(i)')
      <4>1. CASE Takes("typeMetadata", i)
        <5>1. \A n \in ListedOf(i) : n \in Int /\ n < k
          BY <4>1, OwnBefore DEF Takes
        <5>2. ListOf(Append(t, TypeAt(k)), "type", load, ListedOf(i) \cup {k})
          BY <2>1, <3>2, <3>4, <5>1, ListAppended DEF TypeAt
        <5> QED BY <1>3, <3>3, <4>1, <5>2, OwnMoves
      <4>2. CASE ~Takes("typeMetadata", i)
        BY <1>3, <3>2, <3>3, <4>2, OwnMoves
      <4> QED BY <4>1, <4>2
    <3> QED BY <2>1, <2>2, <3>3, <3>5, <3>6 DEF Listed
  <2> QED BY <2>3, <2>4
<1> QED BY <1>1, <1>2, <1>3 DEF Next

(* What a filtered sequence has is what the sequence and the set have.      *)
LEMMA FilterHas ==
    ASSUME NEW X, NEW s \in Seq(X), NEW S
    PROVE  Range(Filter(s, S)) = Range(s) \cap S
<1> DEFINE t == Filter(s, S)
<1>1. t \in Seq(X) /\ Picked(t, s, S, Len(s))
  BY FilterEnumerates
<1> HIDE DEF t
<1>2. PICK f : Enumerates(f, t, s, S, Len(s))
  BY <1>1 DEF Picked
<1>3. DOMAIN t = 1..Len(t) /\ DOMAIN s = 1..Len(s)
  BY <1>1
<1>4. /\ f \in [1..Len(t) -> 1..Len(s)]
      /\ \A i \in 1..Len(t) : t[i] = s[f[i]] /\ s[f[i]] \in S
      /\ \A j \in 1..Len(s) : s[j] \in S => \E i \in 1..Len(t) : f[i] = j
  BY <1>2 DEF Enumerates
<1>5. ASSUME NEW x \in Range(t) PROVE x \in Range(s) \cap S
  <2>1. PICK i \in 1..Len(t) : x = t[i]
    BY <1>3 DEF Range
  <2> QED BY <1>3, <1>4, <2>1 DEF Range
<1>6. ASSUME NEW x \in Range(s) \cap S PROVE x \in Range(t)
  <2>1. PICK j \in 1..Len(s) : x = s[j]
    BY <1>3 DEF Range
  <2>2. PICK i \in 1..Len(t) : f[i] = j
    BY <1>4, <2>1
  <2> QED BY <1>3, <1>4, <2>1, <2>2 DEF Range
<1>7. Range(t) = Range(s) \cap S
  BY <1>5, <1>6
<1> QED BY <1>7 DEF t

(* The two attribute lists of an entity have its run between them.            *)
LEMMA AttributesSplit ==
    ASSUME LoadInv, Active, NEW e \in 1..Len(image.entities)
    PROVE  Range(AttributeObjects(AttributesOf(image.entities[e], FALSE)))
               \cup Range(AttributeObjects(AttributesOf(image.entities[e], TRUE)))
                   = {AttributeAt(j) : j \in Run(e)}
<1> DEFINE a == image.entities[e].firstAttribute
           c == image.entities[e].attributeCount
           s == [j \in 1..c |-> a + j]
           S(b) == {x \in DOMAIN image.attributes : (image.attributes[x].kind = "inverse") = b}
           t(b) == AttributesOf(image.entities[e], b)
<1>1. /\ a \in Nat /\ c \in Nat /\ c <= Len(image.attributes) - a
      /\ Len(image.attributes) \in Nat /\ DOMAIN image.attributes = 1..Len(image.attributes)
  BY EntityTyped, Lengths DEF LoadInv, Valid, EntitiesValid
<1>2. \A b : t(b) = Filter(s, S(b))
  BY DEF AttributesOf
<1>3. Run(e) = (a + 1)..(a + c)
  BY DEF Run, EndOf
<1>4. Run(e) \subseteq S(FALSE) \cup S(TRUE)
  <2>1. Run(e) \subseteq DOMAIN image.attributes
    <3> HIDE DEF a, c
    <3> QED BY <1>1, <1>3
  <2> QED BY <2>1
<1> HIDE DEF a, c, S, t
<1>5. s \in Seq(Int)
  BY <1>1
<1>6. Range(s) = Run(e)
  <2>1. \A x \in Run(e) : x - a \in 1..c /\ a + (x - a) = x
    BY <1>1, <1>3
  <2>2. \A j \in 1..c : a + j \in Run(e)
    BY <1>1, <1>3
  <2> QED BY <2>1, <2>2 DEF Range
<1> HIDE DEF s
<1>7. /\ Range(t(FALSE)) = Run(e) \cap S(FALSE)
      /\ Range(t(TRUE)) = Run(e) \cap S(TRUE)
  BY <1>2, <1>5, <1>6, FilterHas
<1>8. \A u : Range(AttributeObjects(u)) = {AttributeAt(x) : x \in Range(u)}
  BY DEF AttributeObjects, Range
<1>9. Range(AttributeObjects(t(FALSE))) \cup Range(AttributeObjects(t(TRUE)))
          = {AttributeAt(j) : j \in Run(e)}
  <2> DEFINE A == Range(t(FALSE))
             B == Range(t(TRUE))
  <2>1. A \cup B = Run(e)
    BY <1>4, <1>7
  <2>2. /\ Range(AttributeObjects(t(FALSE))) = {AttributeAt(x) : x \in A}
        /\ Range(AttributeObjects(t(TRUE))) = {AttributeAt(x) : x \in B}
    BY <1>8, Zenon
  <2> HIDE DEF A, B
  <2>3. {AttributeAt(x) : x \in A} \cup {AttributeAt(x) : x \in B} = {AttributeAt(x) : x \in A \cup B}
    OBVIOUS
  <2> QED BY <2>1, <2>2, <2>3
<1> QED BY <1>9 DEF t

SameDomains ==
    DOMAIN explicitAttr = Entities /\ DOMAIN inverseAttr = Entities /\ DOMAIN typeList = Schemas

LEMMA NextSameDomains == SameDomains /\ [Next]_vars => SameDomains'
<1> SUFFICES ASSUME SameDomains, [Next]_vars PROVE SameDomains'
  OBVIOUS
<1> USE DEF SameDomains, Entities, Schemas
<1>1. CASE CreateSchema
  BY <1>1 DEF CreateSchema, Set, entities
<1>2. CASE CreateEntity
  BY <1>2 DEF CreateEntity, Set, Appended
<1>3. CASE CompleteType
  BY <1>3 DEF CompleteType, Appended, entities
<1>4. CASE CompleteEntity
  BY <1>4 DEF CompleteEntity
<1>5. CASE ~(CreateSchema \/ CreateEntity \/ CompleteType \/ CompleteEntity)
  <2>1. UNCHANGED <<supertypes, explicitAttr, inverseAttr, entList, typeList>>
    BY <1>5 DEF Next, Step, LoopEnds, BeginModule, CreateType, CreateAggregate,
       ResolveAggregate, Overflow, AddRename, InitializeFromContext, InitializeFromImage, LoadImage,
       RemoveFromRegistry, vars, lists, entities
  <2> QED BY <2>1
<1> QED BY <1>1, <1>2, <1>3, <1>4, <1>5

AttrInv ==
    Active => \A e \in CompletedSoFar : AttributesIn(EntityAt(e)) = {AttributeAt(j) : j \in Run(e)}

LEMMA NextAttrInv ==
    LoadInv /\ AtMostOne /\ MadeInv /\ SameDomains /\ AttrInv /\ [Next]_vars => AttrInv'
<1> SUFFICES ASSUME LoadInv, AtMostOne, MadeInv, SameDomains, AttrInv, [Next]_vars, Active',
                    NEW e \in CompletedSoFar'
             PROVE  AttributesIn(EntityAt(e))' = {AttributeAt(j) : j \in Run(e)}'
  BY DEF AttrInv
<1>1. CASE LoadImage
  BY <1>1 DEF LoadImage, Active, CompletedSoFar, LaterThanCompleted, LaterThanListed
<1>2. CASE RemoveFromRegistry \/ UNCHANGED vars
  <2>1. UNCHANGED <<pc, k, path, image, load, explicitAttr, inverseAttr>>
    BY <1>2 DEF RemoveFromRegistry, vars, loader, entities
  <2>2. UNCHANGED <<CompletedSoFar, AttributesIn(EntityAt(e)), {AttributeAt(j) : j \in Run(e)}>>
    BY <2>1 DEF CompletedSoFar, LaterThanCompleted, LaterThanListed, AttributesIn, EntityAt,
       AttributeAt, Run, EndOf
  <2> QED BY <2>1, <2>2 DEF AttrInv, Active
<1>3. CASE Step
  <2>1. /\ Active /\ UNCHANGED <<load, image, path>> /\ k \in Nat \ {0}
    BY <1>3, StepsOn
  <2>2. CompletedSoFar' = IF pc' = pc /\ pc = "entityMetadata" THEN CompletedSoFar \cup {k}
                           ELSE CompletedSoFar
    BY <1>3, SoFarMoves
  <2>3. UNCHANGED <<EntityAt(e), {AttributeAt(j) : j \in Run(e)}>>
    BY <2>1 DEF EntityAt, AttributeAt, Run, EndOf
  <2>4. CASE CompleteEntity
    <3> DEFINE r == image.entities[k]
               d == EntityAt(k)
               x == AttributeObjects(AttributesOf(r, FALSE))
               y == AttributeObjects(AttributesOf(r, TRUE))
    <3>1. /\ explicitAttr' = [explicitAttr EXCEPT ![d] = x]
          /\ inverseAttr' = [inverseAttr EXCEPT ![d] = y]
      BY <2>4 DEF CompleteEntity
    <3>2. pc = "entityMetadata" /\ pc' = pc /\ k \in 1..Len(image.entities)
      BY <2>1, <2>4, Lengths DEF CompleteEntity, At, Next1, Count, TableOf
    <3>3. d \in DOMAIN explicitAttr /\ d \in DOMAIN inverseAttr
      BY <3>2 DEF MadeInv, SameDomains, LaterThanEntities, LaterThanTypes
    <3>4. CASE e = k
      <4>1. Range(x) \cup Range(y) = {AttributeAt(j) : j \in Run(e)}
        BY <2>1, <3>2, <3>4, AttributesSplit
      <4> HIDE DEF d, x, y
      <4>2. AttributesIn(EntityAt(e))' = Range(x) \cup Range(y)
        <5>1. EntityAt(e)' = d
          BY <2>3, <3>4 DEF d
        <5> QED BY <3>1, <3>3, <5>1 DEF AttributesIn
      <4> QED BY <2>3, <4>1, <4>2
    <3>5. CASE e # k
      <4>1. e \in CompletedSoFar
        BY <2>2, <3>2, <3>5
      <4>2. EntityAt(e) # d
        BY <3>5 DEF EntityAt
      <4> HIDE DEF d, x, y
      <4>3. AttributesIn(EntityAt(e))' = AttributesIn(EntityAt(e))
        BY <2>3, <3>1, <4>2 DEF AttributesIn
      <4> QED BY <2>1, <2>3, <4>1, <4>3 DEF AttrInv
    <3> QED BY <3>4, <3>5
  <2>5. CASE ~CompleteEntity
    <3>1. e \in CompletedSoFar /\ EntityAt(e) \in DOMAIN explicitAttr /\ EntityAt(e) \in DOMAIN inverseAttr
      <4>1. e \in CompletedSoFar
        BY <1>3, <2>2, <2>5, StepOf, StepsOn DEF Follows
      <4>2. e \in 1..Len(image.entities) /\ pc \in LaterThanEntities
        BY <2>1, <4>1, Lengths DEF CompletedSoFar, LaterThanCompleted, LaterThanListed, LaterThanEntities, LaterThanTypes,
           AtMostOne, Count, TableOf
      <4> QED BY <4>1, <4>2 DEF MadeInv, SameDomains
    <3>2. explicitAttr'[EntityAt(e)] = explicitAttr[EntityAt(e)]
          /\ inverseAttr'[EntityAt(e)] = inverseAttr[EntityAt(e)]
      <4>1. CASE CreateEntity
        BY <3>1, <4>1 DEF CreateEntity, At, CompletedSoFar, LaterThanCompleted, LaterThanListed
      <4>2. CASE ~CreateEntity
        BY <1>3, <2>5, <4>2 DEF Step, LoopEnds, CreateSchema, BeginModule, CreateType,
           CreateAggregate, ResolveAggregate, CompleteType, Overflow, AddRename, InitializeFromContext,
           InitializeFromImage, entities
      <4> QED BY <4>1, <4>2
    <3>3. AttributesIn(EntityAt(e))' = AttributesIn(EntityAt(e))
      BY <2>3, <3>2 DEF AttributesIn
    <3> QED BY <2>1, <2>3, <3>1, <3>3 DEF AttrInv
  <2> QED BY <2>4, <2>5
<1> QED BY <1>1, <1>2, <1>3 DEF Next

LEMMA RangeOfList ==
    ASSUME NEW s, NEW kind, NEW l, NEW N, ListOf(s, kind, l, N)
    PROVE  Range(s) = {<<kind, l, n>> : n \in N} /\ DOMAIN s = 1..Len(s)
<1>1. DOMAIN s = 1..Len(s)
  BY DEF ListOf
<1>2. ASSUME NEW d \in Range(s) PROVE d \in {<<kind, l, n>> : n \in N}
  <2>1. PICK i \in 1..Len(s) : d = s[i]
    BY <1>1 DEF Range
  <2> QED BY <2>1 DEF ListOf
<1>3. ASSUME NEW n \in N PROVE <<kind, l, n>> \in Range(s)
  <2>1. PICK i \in 1..Len(s) : s[i] = <<kind, l, n>>
    BY DEF ListOf
  <2> QED BY <1>1, <2>1 DEF Range
<1> QED BY <1>1, <1>2, <1>3

(* Entity after entity, and the attributes of each in their order.            *)
LEMMA RunsNumbered ==
    ASSUME LoadInv, Active, NEW E \in SUBSET (1..Len(image.entities)), NEW ents, NEW attrs,
           ListOf(ents, "entity", load, E),
           ListOf(attrs, "attribute", load, UNION {Run(e) : e \in E}),
           \A e \in E : AttributesIn(EntityAt(e)) = {AttributeAt(j) : j \in Run(e)}
    PROVE  InOrder(attrs, ents)
<1> DEFINE U == UNION {Run(e) : e \in E}
<1>1. /\ Range(ents) = {EntityAt(e) : e \in E} /\ DOMAIN ents = 1..Len(ents)
      /\ Range(attrs) = {AttributeAt(j) : j \in U} /\ DOMAIN attrs = 1..Len(attrs)
  <2>1. Range(ents) = {<<"entity", load, e>> : e \in E} /\ DOMAIN ents = 1..Len(ents)
    BY RangeOfList
  <2> HIDE DEF U
  <2>2. ListOf(attrs, "attribute", load, U)
    BY DEF U
  <2>3. Range(attrs) = {<<"attribute", load, j>> : j \in U} /\ DOMAIN attrs = 1..Len(attrs)
    BY <2>2, RangeOfList
  <2> QED BY <2>1, <2>3 DEF EntityAt, AttributeAt
<1>2. Range(attrs) = UNION {AttributesIn(e) : e \in Range(ents)}
  <2>1. ASSUME NEW d \in Range(attrs) PROVE d \in UNION {AttributesIn(e) : e \in Range(ents)}
    <3>1. PICK e \in E : \E j \in Run(e) : d = AttributeAt(j)
      BY <1>1
    <3>2. d \in AttributesIn(EntityAt(e)) /\ EntityAt(e) \in Range(ents)
      BY <1>1, <3>1
    <3> QED BY <3>2
  <2>2. ASSUME NEW x \in Range(ents), NEW d \in AttributesIn(x) PROVE d \in Range(attrs)
    <3>1. PICK e \in E : x = EntityAt(e)
      BY <1>1
    <3>2. PICK j \in Run(e) : d = AttributeAt(j)
      BY <3>1
    <3> QED BY <1>1, <3>1, <3>2
  <2> QED BY <2>1, <2>2
<1>3. ASSUME NEW i \in DOMAIN attrs, NEW j \in DOMAIN attrs, i < j,
             NEW p \in DOMAIN ents, NEW q \in DOMAIN ents,
             attrs[i] \in AttributesIn(ents[p]), attrs[j] \in AttributesIn(ents[q])
      PROVE  p < q \/ (p = q /\ attrs[i][3] < attrs[j][3])
  <2> DEFINE x == attrs[i][3]
             y == attrs[j][3]
             e == ents[p][3]
             f == ents[q][3]
  <2>1. x < y
    BY <1>1, <1>3 DEF ListOf
  <2>2. /\ e \in E /\ ents[p] = EntityAt(e) /\ f \in E /\ ents[q] = EntityAt(f)
        /\ q < p => f < e
    BY <1>1 DEF ListOf, EntityAt
  <2>3. x \in Run(e) /\ y \in Run(f)
    <3>1. attrs[i] \in {AttributeAt(n) : n \in Run(e)} /\ attrs[j] \in {AttributeAt(n) : n \in Run(f)}
      BY <1>3, <2>2
    <3> HIDE DEF e, f
    <3>2. PICK n \in Run(e) : attrs[i] = AttributeAt(n)
      BY <3>1
    <3>3. PICK n2 \in Run(f) : attrs[j] = AttributeAt(n2)
      BY <3>1
    <3> QED BY <3>2, <3>3 DEF AttributeAt
  <2>4. ASSUME f < e PROVE FALSE
    <3>1. e \in 1..Len(image.entities) /\ f \in 1..Len(image.entities)
      BY <2>2
    <3> HIDE DEF e, f, x, y
    <3>2. f \in 1..(e - 1) /\ e \in Int
      BY <2>4, <3>1
    <3> DEFINE b == image.entities[e].firstAttribute
               c == EndOf(f)
    <3>3. c <= b
      BY <3>1, <3>2, RunsInOrder
    <3>4. b \in Int /\ c \in Int
      BY <3>1, EntityTyped DEF EndOf
    <3>5. y \in Int /\ y <= c
      <4>1. image.entities[f].firstAttribute \in Int /\ c \in Int
        BY <3>1, <3>4, EntityTyped
      <4> HIDE DEF c
      <4>2. y \in (image.entities[f].firstAttribute + 1)..c
        BY <2>3 DEF Run, c
      <4> QED BY <4>1, <4>2
    <3>6. x \in Int /\ b < x
      <4>1. EndOf(e) \in Int
        BY <3>1, EntityTyped DEF EndOf
      <4>2. x \in (b + 1)..EndOf(e)
        BY <2>3 DEF Run
      <4> HIDE DEF b
      <4> QED BY <3>4, <4>1, <4>2
    <3> HIDE DEF b, c
    <3> QED BY <2>1, <3>3, <3>4, <3>5, <3>6
  <2>5. p \in Int /\ q \in Int
    BY <1>1
  <2> HIDE DEF e, f, x, y
  <2>6. p < q \/ p = q
    BY <2>2, <2>4, <2>5
  <2> QED BY <2>1, <2>6 DEF x, y
<1> QED BY <1>2, <1>3 DEF InOrder

LEMMA RightNumbers ==
    ASSUME LoadInv, AttrInv, pc = "modules", NEW i \in 1..Len(image.schemas), Listed(i),
           NEW m, Right(m, i)
    PROVE  /\ m.entities = entList[SchemaAt(i)] /\ m.types = typeList[SchemaAt(i)]
           /\ InOrder(m.attributes, entList[SchemaAt(i)])
<1>1. Active
  BY DEF Active
<1>2. /\ EntitiesOf(i) \in SUBSET (1..Len(image.entities)) /\ EntitiesOf(i) \in SUBSET Nat
      /\ TypesOf(i) \in SUBSET Nat
      /\ ListedOf(i) = TypesOf(i) /\ AttributesFor(i) = UNION {Run(e) : e \in EntitiesOf(i)}
  <2>1. ListedOf(i) = TypesOf(i) /\ AttributesFor(i) = UNION {Run(e) : e \in EntitiesOf(i)}
    BY AllIn DEF AttributesFor
  <2>2. /\ EntitiesOf(i) = {e \in 1..Len(image.entities) : image.entities[e].schema = i - 1}
        /\ TypesOf(i) = {t \in 1..Len(image.types) : image.types[t].schema = i - 1}
    BY AllIn
  <2> QED BY <2>1, <2>2
<1> DEFINE e == entList[SchemaAt(i)]
           t == typeList[SchemaAt(i)]
<1>3. /\ ListOf(e, "entity", load, EntitiesOf(i)) /\ ListOf(t, "type", load, TypesOf(i))
  BY <1>2 DEF Listed
<1>4. /\ ListOf(m.entities, "entity", load, EntitiesOf(i))
      /\ ListOf(m.types, "type", load, TypesOf(i))
      /\ ListOf(m.attributes, "attribute", load, AttributesFor(i))
  BY DEF Right
<1> HIDE DEF e, t
<1>5. m.entities = e
  BY <1>2, <1>3, <1>4, SameList
<1>6. m.types = t
  BY <1>2, <1>3, <1>4, SameList
<1>7. InOrder(m.attributes, e)
  <2>1. \A x \in EntitiesOf(i) : AttributesIn(EntityAt(x)) = {AttributeAt(j) : j \in Run(x)}
    <3>1. EntitiesOf(i) = CompletedOf(i)
      BY AllIn
    <3> QED BY <1>1, <3>1 DEF AttrInv, CompletedOf
  <2>2. ListOf(m.attributes, "attribute", load, UNION {Run(x) : x \in EntitiesOf(i)})
    BY <1>2, <1>4
  <2> DEFINE E == EntitiesOf(i)
             a == m.attributes
  <2>3. E \in SUBSET (1..Len(image.entities)) /\ ListOf(e, "entity", load, E)
    BY <1>2, <1>3
  <2> HIDE DEF E, a
  <2>4. /\ \A x \in E : AttributesIn(EntityAt(x)) = {AttributeAt(j) : j \in Run(x)}
        /\ ListOf(a, "attribute", load, UNION {Run(x) : x \in E})
    BY <2>1, <2>2 DEF E, a
  <2>5. InOrder(a, e)
    BY <1>1, <2>3, <2>4, RunsNumbered
  <2> QED BY <2>5 DEF a
<1> QED BY <1>5, <1>6, <1>7 DEF e, t

SettledModule(m) ==
    LET s == m.schema
    IN  /\ s \in Schemas
        /\ s[2] = load => pc \in {"modules", "idle", "failed", "crashed"}
        /\ \A e \in Range(entList[s]) : e \in Entities /\ e[2] = s[2]
        /\ Numbers(m)

Settled == \A n \in DOMAIN module : module[n].schema # NoObject => SettledModule(module[n])

LEMMA OldStays ==
    ASSUME SameDomains, [Next]_vars, NEW s \in Schemas,
           s[2] = load => pc \in {"modules", "idle", "failed", "crashed"}
    PROVE  /\ s \in Schemas' /\ entList'[s] = entList[s] /\ typeList'[s] = typeList[s]
           /\ \A e \in Entities : e[2] = s[2] =>
                  /\ e \in Entities'
                  /\ explicitAttr'[e] = explicitAttr[e] /\ inverseAttr'[e] = inverseAttr[e]
<1> USE DEF SameDomains, Schemas, Entities
<1>1. CASE CreateSchema
  <2>1. s # SchemaAt(k)
    BY <1>1 DEF CreateSchema, At, SchemaAt
  <2> QED BY <1>1, <2>1 DEF CreateSchema, Set, entities
<1>2. CASE CreateEntity
  <2>1. s # SchemaOf(image.entities[k]) /\ \A e \in Entities : e[2] = s[2] => e # EntityAt(k)
    BY <1>2 DEF CreateEntity, At, SchemaOf, SchemaAt, EntityAt
  <2> QED BY <1>2, <2>1 DEF CreateEntity, Set, Appended
<1>3. CASE CompleteType
  <2>1. s # SchemaOf(image.types[k])
    BY <1>3 DEF CompleteType, At, SchemaOf, SchemaAt
  <2> QED BY <1>3, <2>1 DEF CompleteType, Appended, entities
<1>4. CASE CompleteEntity
  <2>1. \A e \in Entities : e[2] = s[2] => e # EntityAt(k)
    BY <1>4 DEF CompleteEntity, At, EntityAt
  <2> QED BY <1>4, <2>1 DEF CompleteEntity
<1>5. CASE ~(CreateSchema \/ CreateEntity \/ CompleteType \/ CompleteEntity)
  <2>1. UNCHANGED <<supertypes, explicitAttr, inverseAttr, entList, typeList>>
    BY <1>5 DEF Next, Step, LoopEnds, BeginModule, CreateType, CreateAggregate,
       ResolveAggregate, Overflow, AddRename, InitializeFromContext, InitializeFromImage, LoadImage,
       RemoveFromRegistry, vars, lists, entities
  <2> QED BY <2>1
<1> QED BY <1>1, <1>2, <1>3, <1>4, <1>5

(* What is settled stays so.                                                  *)
LEMMA StaysSettled ==
    ASSUME LoadInv, AtMostOne, Tagged, SameDomains, [Next]_vars, NEW m, SettledModule(m)
    PROVE  SettledModule(m)'
<1> DEFINE s == m.schema
<1>1. /\ s \in Schemas /\ (s[2] = load => pc \in {"modules", "idle", "failed", "crashed"})
      /\ \A e \in Range(entList[s]) : e \in Entities /\ e[2] = s[2]
      /\ m.records.entities = entList[s] /\ m.records.types = typeList[s]
      /\ InOrder(m.records.attributes, entList[s])
  BY DEF SettledModule, Numbers
<1> HIDE DEF s
<1>2. /\ s \in Schemas' /\ entList'[s] = entList[s] /\ typeList'[s] = typeList[s]
      /\ \A e \in Range(entList[s]) :
             e \in Entities' /\ AttributesIn(e)' = AttributesIn(e)
  <2>1. /\ s \in Schemas' /\ entList'[s] = entList[s] /\ typeList'[s] = typeList[s]
        /\ \A e \in Entities : e[2] = s[2] =>
               /\ e \in Entities'
               /\ explicitAttr'[e] = explicitAttr[e] /\ inverseAttr'[e] = inverseAttr[e]
    BY <1>1, OldStays
  <2> QED BY <1>1, <2>1 DEF AttributesIn
<1>3. InOrder(m.records.attributes, entList[s])'
  <2> DEFINE a == m.records.attributes
             l == entList[s]
  <2>1. \A e \in Range(l) : AttributesIn(e)' = AttributesIn(e)
    BY <1>2
  <2>2. InOrder(a, l)
    BY <1>1
  <2>3. \A p \in DOMAIN l : l[p] \in Range(l)
    BY DEF Range
  <2>4. entList'[s] = l
    BY <1>2
  <2> HIDE DEF a, l
  <2>5. UNION {AttributesIn(e)' : e \in Range(l)} = UNION {AttributesIn(e) : e \in Range(l)}
    BY <2>1
  <2>6. \A p \in DOMAIN l : AttributesIn(l[p]) = Range(explicitAttr'[l[p]]) \cup Range(inverseAttr'[l[p]])
    BY <2>1, <2>3 DEF AttributesIn
  <2>7. UNION {AttributesIn(e) : e \in Range(l)}
            = UNION {Range(explicitAttr'[e]) \cup Range(inverseAttr'[e]) : e \in Range(l)}
    BY <2>1 DEF AttributesIn
  <2>8. /\ Range(a) = UNION {Range(explicitAttr'[e]) \cup Range(inverseAttr'[e]) : e \in Range(l)}
        /\ \A i, j \in DOMAIN a : i < j =>
             \A p, q \in DOMAIN l :
               a[i] \in Range(explicitAttr'[l[p]]) \cup Range(inverseAttr'[l[p]])
               /\ a[j] \in Range(explicitAttr'[l[q]]) \cup Range(inverseAttr'[l[q]]) =>
                   p < q \/ (p = q /\ a[i][3] < a[j][3])
    BY <2>2, <2>6, <2>7 DEF InOrder
  <2>9. InOrder(a, l)'
    BY <2>4, <2>8 DEF InOrder, AttributesIn, a, l
  <2> QED BY <2>9 DEF a, l
<1>4. s[2] = load' => pc' \in {"modules", "idle", "failed", "crashed"}
  <2>1. CASE LoadImage
    <3>1. s[2] \in 0..load /\ load' = load + 1 /\ load \in Nat
      BY <1>1, <2>1 DEF Tagged, LoadImage, LoadInv
    <3> QED BY <3>1
  <2>2. CASE RemoveFromRegistry \/ UNCHANGED vars
    BY <1>1, <2>2 DEF RemoveFromRegistry, vars, loader
  <2>3. CASE Step /\ Active'
    <3>1. Active /\ UNCHANGED load /\ ((Follows(path, pc, pc') /\ pc' # "idle") \/ pc' = pc)
      BY <2>3, StepsOn
    <3>2. pc = "modules" => ~(Follows(path, pc, pc') /\ pc' # "idle")
      BY DEF Follows
    <3> QED BY <1>1, <3>1, <3>2 DEF Active
  <2>4. CASE Step /\ ~Active'
    BY <2>4 DEF Active
  <2> QED BY <2>1, <2>2, <2>3, <2>4 DEF Next
<1> QED BY <1>1, <1>2, <1>3, <1>4 DEF SettledModule, Numbers, s

LEMMA NewSettled ==
    ASSUME LoadInv, MadeInv, SchemasMade, ListsInv, AttrInv, pc = "modules",
           k \in 1..Len(image.schemas), NEW r, Right(r, k),
           NEW m, m = [schema |-> SchemaAt(k), records |-> r]
    PROVE  SettledModule(m)
<1>1. Active
  BY DEF Active
<1>2. SchemaAt(k) \in Schemas /\ SchemaAt(k)[2] = load
  BY <1>1 DEF SchemasMade, SchemaAt
<1>3. Listed(k)
  BY <1>1 DEF ListsInv
<1>4. ASSUME NEW e \in Range(entList[SchemaAt(k)]) PROVE e \in Entities /\ e[2] = load
  <2>1. Range(entList[SchemaAt(k)]) = {<<"entity", load, n>> : n \in EntitiesOf(k)}
    BY <1>3, RangeOfList DEF Listed
  <2>2. PICK n \in EntitiesOf(k) : e = EntityAt(n)
    BY <1>4, <2>1 DEF EntityAt
  <2>3. n \in 1..Len(image.entities)
    BY AllIn
  <2> QED BY <2>2, <2>3 DEF MadeInv, LaterThanEntities, LaterThanTypes, EntityAt
<1>5. /\ r.entities = entList[SchemaAt(k)] /\ r.types = typeList[SchemaAt(k)]
      /\ InOrder(r.attributes, entList[SchemaAt(k)])
  BY <1>3, RightNumbers
<1>6. m.schema = SchemaAt(k) /\ m.records = r
  OBVIOUS
<1> QED BY <1>2, <1>4, <1>5, <1>6 DEF SettledModule, Numbers

LEMMA NextSettled ==
    ASSUME LoadInv, AtMostOne, MadeInv, Tagged, SchemasMade, CaptureInv, ListsInv, AttrInv,
           SameDomains, Settled, [Next]_vars
    PROVE  Settled'
<1>1. ASSUME NEW n \in DOMAIN module', NEW m, m = module'[n], SettledModule(m)
      PROVE  SettledModule(module[n])'
  <2>1. SettledModule(m)'
    BY <1>1, StaysSettled
  <2> QED BY <1>1, <2>1 DEF SettledModule, Numbers
<1>2. CASE InitializeFromContext \/ InitializeFromImage
  <2> DEFINE new == [schema |-> SchemaAt(k), records |-> Capture[SchemaAt(k)]]
  <2>1. /\ pc = "modules" /\ k \in 1..Len(image.schemas)
        /\ Right(Capture[SchemaAt(k)], k)
        /\ module' = Set(module, image.schemas[k].name, new)
    BY <1>2, ModuleGets
  <2>2. SettledModule(new)
    BY <2>1, NewSettled
  <2> HIDE DEF new
  <2> SUFFICES ASSUME NEW n \in DOMAIN module', module'[n].schema # NoObject
               PROVE  SettledModule(module[n])'
    BY DEF Settled
  <2>3. module'[n] = new \/ (n \in DOMAIN module /\ module'[n] = module[n])
    BY <2>1 DEF Set
  <2>4. SettledModule(module'[n])
    <3>1. CASE module'[n] = new
      BY <2>2, <3>1
    <3>2. CASE n \in DOMAIN module /\ module'[n] = module[n]
      BY <3>2 DEF Settled
    <3> QED BY <2>3, <3>1, <3>2
  <2> QED BY <1>1, <2>4
<1>3. CASE ~(InitializeFromContext \/ InitializeFromImage)
  <2>1. module' = module
    BY <1>3 DEF Next, Step, LoopEnds, CreateSchema, BeginModule, CreateEntity, CreateType,
       CreateAggregate, ResolveAggregate, CompleteType, CompleteEntity, Overflow, AddRename, LoadImage,
       RemoveFromRegistry, vars, library
  <2> SUFFICES ASSUME NEW n \in DOMAIN module', module'[n].schema # NoObject
               PROVE  SettledModule(module[n])'
    BY DEF Settled
  <2>2. SettledModule(module[n])
    BY <2>1 DEF Settled
  <2> QED BY <1>1, <2>1, <2>2
<1> QED BY <1>2, <1>3

NumberInv == AONInv /\ SameDomains /\ ListsInv /\ AttrInv /\ Settled

LEMMA InitNumberInv == Init /\ LastModuleCurrent => NumberInv
<1> SUFFICES ASSUME Init, LastModuleCurrent PROVE NumberInv
  OBVIOUS
<1>1. AONInv
  BY InitAONInv
<1>2. SameDomains /\ ListsInv /\ AttrInv /\ Settled
  BY DEF Init, Active, SameDomains, Entities, Schemas, ListsInv, AttrInv, Settled
<1> QED BY <1>1, <1>2 DEF NumberInv

LEMMA NextNumberInv == NumberInv /\ [Next]_vars /\ LastModuleCurrent' => NumberInv'
<1> SUFFICES ASSUME NumberInv, [Next]_vars, LastModuleCurrent' PROVE NumberInv'
  OBVIOUS
<1>1. AONInv'
  BY NextAONInv DEF NumberInv
<1>2. SameDomains' /\ ListsInv'
  BY NextSameDomains, NextListsInv DEF NumberInv, AONInv
<1>3. AttrInv'
  BY NextAttrInv DEF NumberInv, AONInv
<1>4. Settled'
  BY NextSettled DEF NumberInv, AONInv
<1> QED BY <1>1, <1>2, <1>3, <1>4 DEF NumberInv

(* Whatever the images and however many loads: between loads every module     *)
(* numbers the entities and types of its schema as the schema lists them, and *)
(* their attributes entity by entity in the image's order, each once; later   *)
(* loads change none of it (schemaModule.cc).                                 *)
THEOREM NumbersAreStable == Spec => []ModulesNumberDescriptors
<1>1. NumberInv => ModulesNumberDescriptors
  BY DEF NumberInv, Settled, SettledModule, ModulesNumberDescriptors
<1> QED BY <1>1, InitNumberInv, NextNumberInv, RememberedModuleIsCurrent, PTL DEF Spec

-----------------------------------------------------------------------------
(* The registry: under which names the entities are entered                   *)

NotYetEntered ==
    \/ pc \in {"schemas", "begin", "entities", "types", "aggregates", "aggregateReferents",
               "typeMetadata"}
    \/ path = "tables" /\ pc = "renames"

EntitiesTyped == \A e \in Entities : e[1] = "entity" /\ e # NoObject

(* Whatever is entered under a name has this name, of its own or from a       *)
(* schema; a packed entity is entered under its own only.                     *)
EnteredInv ==
    \A n \in DOMAIN primordialSwamp :
        LET e == primordialSwamp[n]
        IN  /\ e \in Entities /\ n \in NamesOf(e)
            /\ NotYetEntered => e[2] # load
            /\ path = "packed" /\ Active /\ e[2] = load => n = nameOf[e]

AltsTagged ==
    \A d \in DOMAIN altNames :
        /\ d[2] \in 0..load
        /\ path = "packed" /\ Active /\ pc \notin {"renames", "modules"} => d[2] # load

(* Until something is removed, an entity that is complete is entered, under   *)
(* its own name and, from tables, under those it got before.                  *)
Completed(e) ==
    \/ pc \in {"idle", "modules"}
    \/ pc = "renames" /\ path = "packed"
    \/ pc = "entityMetadata" /\ \E i \in 1..(k - 1) : e = EntityAt(i)

HasNames ==
    removals \in Nat /\ (removals = 0 =>
        \A e \in Entities :
            /\ (e[2] = load => Completed(e)) => nameOf[e] \in DOMAIN primordialSwamp
            /\ path = "tables" /\ e[2] = load /\ Completed(e) =>
                   AltNamesIn(AltsOf(e)) \subseteq DOMAIN primordialSwamp)

SchemasNumbered == DOMAIN active_schemas \subseteq Int

(* Names are given in three loops, and schemas give theirs in one.            *)
LEMMA NamingSteps ==
    ASSUME LoadInv, [Next]_vars
    PROVE  /\ \/ UNCHANGED nameOf
              \/ /\ pc \in {"schemas", "entities", "types"} /\ UNCHANGED <<pc, load, path>>
                 /\ \E d, n : d[2] = load /\ nameOf' = Set(nameOf, d, n)
           /\ \/ UNCHANGED altNames
              \/ /\ pc = "renames" /\ UNCHANGED <<pc, load, path, nameOf, primordialSwamp>>
                 /\ Entities' = Entities
                 /\ \E d, a : d[2] = load /\ altNames' = Set(altNames, d, a)
<1>1. CASE AddRename
  <2> DEFINE r == image.renames[k]
             d == Resolved(r.descriptor)
  <2>1. /\ pc = "renames" /\ UNCHANGED <<pc, load, path, nameOf, primordialSwamp>>
        /\ Entities' = Entities
        /\ \E a : altNames' = Set(altNames, d, a)
    BY <1>1 DEF Overflow, AddRename, At, Next1, registry, entities, Entities
  <2>2. r.descriptor.kind \in {"entity", "type"}
    <3>1. k \in DOMAIN image.renames /\ Active
      BY <1>1 DEF Overflow, AddRename, At, Count, TableOf, LoadInv, Active, Images
    <3> QED BY <3>1 DEF LoadInv, Valid, RenamesValid
  <2>3. d[2] = load
    BY <2>2 DEF Resolved, EntityAt, TypeAt
  <2> HIDE DEF d
  <2> QED BY <2>1, <2>3
<1>2. CASE CreateSchema
  <2>1. SchemaAt(k)[2] = load /\ UNCHANGED altNames
    BY <1>2 DEF CreateSchema, SchemaAt
  <2>2. pc = "schemas" /\ UNCHANGED <<pc, load, path>> /\ \E n : nameOf' = Set(nameOf, SchemaAt(k), n)
    BY <1>2 DEF CreateSchema, At, Next1
  <2> QED BY <2>1, <2>2
<1>3. CASE CreateEntity
  <2>1. EntityAt(k)[2] = load /\ UNCHANGED altNames
    BY <1>3 DEF CreateEntity, EntityAt
  <2>2. /\ pc = "entities" /\ UNCHANGED <<pc, load, path>>
        /\ \E n : nameOf' = Set(nameOf, EntityAt(k), n)
    BY <1>3 DEF CreateEntity, At, Next1
  <2> QED BY <2>1, <2>2
<1>4. CASE CreateType
  <2>1. TypeAt(k)[2] = load /\ UNCHANGED altNames
    BY <1>4 DEF CreateType, TypeAt
  <2>2. pc = "types" /\ UNCHANGED <<pc, load, path>> /\ \E n : nameOf' = Set(nameOf, TypeAt(k), n)
    BY <1>4 DEF CreateType, At, Next1
  <2> QED BY <2>1, <2>2
<1>5. CASE ~(AddRename \/ CreateSchema \/ CreateEntity \/ CreateType)
  BY <1>5 DEF Next, Step, LoopEnds, Overflow, BeginModule, CreateAggregate, ResolveAggregate, CompleteType,
     CompleteEntity, InitializeFromContext, InitializeFromImage, LoadImage, RemoveFromRegistry,
     vars, names
<1> QED BY <1>1, <1>2, <1>3, <1>4, <1>5

LEMMA OldNamesStay ==
    ASSUME LoadInv, [Next]_vars, NEW e, e[2] # load
    PROVE  /\ e \in DOMAIN nameOf => nameOf'[e] = nameOf[e]
           /\ AltsOf(e)' = AltsOf(e)
<1>1. \/ UNCHANGED nameOf
      \/ \E d, n : d[2] = load /\ nameOf' = Set(nameOf, d, n)
  BY NamingSteps
<1>2. \/ UNCHANGED altNames
      \/ \E d, a : d[2] = load /\ altNames' = Set(altNames, d, a)
  BY NamingSteps
<1>3. e \in DOMAIN nameOf => nameOf'[e] = nameOf[e]
  BY <1>1 DEF Set
<1>4. AltsOf(e)' = AltsOf(e)
  BY <1>2 DEF Set, AltsOf
<1> QED BY <1>3, <1>4

LEMMA NextAltsTagged == LoadInv /\ AltsTagged /\ [Next]_vars => AltsTagged'
<1> SUFFICES ASSUME LoadInv, AltsTagged, [Next]_vars PROVE AltsTagged'
  OBVIOUS
<1>1. CASE UNCHANGED altNames
  <2>1. CASE LoadImage
    <3>1. load' = load + 1 /\ load \in Nat
      BY <2>1 DEF LoadImage, LoadInv
    <3> QED BY <1>1, <3>1 DEF AltsTagged
  <2>2. CASE LoopEnds
    <3>1. Follows(path, pc, pc') /\ UNCHANGED <<load, path>> /\ Active
      BY <2>2, LoopFollows DEF LoopEnds, Active
    <3>2. path = "packed" /\ Active' /\ pc' \notin {"renames", "modules"} => pc \notin {"renames", "modules"}
      BY <3>1 DEF Follows, Active
    <3> QED BY <1>1, <3>1, <3>2 DEF AltsTagged
  <2>3. CASE ~LoadImage /\ ~LoopEnds
    <3>1. UNCHANGED <<load, path>> /\ (UNCHANGED pc \/ pc' \in {"failed", "crashed"})
      BY <2>3, StepKinds DEF Next, RecordStep, Next1, RemoveFromRegistry, vars, loader
    <3> QED BY <1>1, <3>1 DEF AltsTagged, Active
  <2> QED BY <2>1, <2>2, <2>3
<1>2. CASE /\ pc = "renames" /\ UNCHANGED <<pc, load, path>>
           /\ \E d, a : d[2] = load /\ altNames' = Set(altNames, d, a)
  BY <1>2 DEF AltsTagged, Set, LoadInv
<1> QED BY <1>1, <1>2, NamingSteps

LEMMA NextEntitiesTyped == LoadInv /\ EntitiesTyped /\ [Next]_vars => EntitiesTyped'
<1> SUFFICES ASSUME LoadInv, EntitiesTyped, [Next]_vars PROVE EntitiesTyped'
  OBVIOUS
<1>1. CASE CreateEntity
  <2>1. \A e \in Entities' : e \in Entities \/ e = EntityAt(k)
    BY <1>1 DEF CreateEntity, Entities, Set
  <2>2. EntityAt(k) \in (Kinds \cup {"schema", "attribute"}) \X (1..MaxLoads) \X Nat
    BY <1>1 DEF CreateEntity, At, LoadInv, Active, EntityAt, Kinds
  <2>3. EntityAt(k) # NoObject /\ EntityAt(k)[1] = "entity"
    BY <2>2, NullAssumption DEF EntityAt
  <2> QED BY <2>1, <2>3 DEF EntitiesTyped
<1>2. CASE ~CreateEntity
  <2>1. Entities' = Entities
    BY <1>2 DEF Next, Step, Entities, entities, LoopEnds, CreateSchema, BeginModule, CreateType,
       CreateAggregate, ResolveAggregate, CompleteType, CompleteEntity, Overflow, AddRename,
       InitializeFromContext, InitializeFromImage, LoadImage, RemoveFromRegistry, vars
  <2> QED BY <2>1 DEF EntitiesTyped
<1> QED BY <1>1, <1>2

(* The registry changes where an entity is complete, and at removals.         *)
LEMMA SwampSteps ==
    ASSUME [Next]_vars
    PROVE  \/ UNCHANGED primordialSwamp
           \/ CompleteEntity
           \/ /\ RemoveFromRegistry
              /\ \E n \in DOMAIN primordialSwamp :
                    primordialSwamp' = Without(primordialSwamp, RemovedNames(n))
<1>1. CASE RemoveFromRegistry
  BY <1>1 DEF RemoveFromRegistry, RemoveEntity, RemoveSchema, RemoveType
<1>2. CASE ~RemoveFromRegistry /\ ~CompleteEntity
  BY <1>2 DEF Next, Step, registry, LoopEnds, CreateSchema, BeginModule, CreateEntity, CreateType,
     CreateAggregate, ResolveAggregate, CompleteType, Overflow, AddRename, AddSchema, AddType,
     InitializeFromContext, InitializeFromImage, LoadImage, vars
<1> QED BY <1>1, <1>2

(* What AddEntity enters.                                                     *)
LEMMA EntityEnters ==
    ASSUME NEW d, AddEntity(d)
    PROVE  /\ DOMAIN primordialSwamp' = DOMAIN primordialSwamp \cup NamesOf(d)
           /\ \A n \in DOMAIN primordialSwamp : primordialSwamp'[n] = primordialSwamp[n]
           /\ \A n \in NamesOf(d) \ DOMAIN primordialSwamp : primordialSwamp'[n] = d
BY DEF AddEntity, Cloned, With, NamesOf

LEMMA CompleteEntityEnters ==
    ASSUME LoadInv, MadeInv, Tagged, Named, AltsTagged, EnteredInv, CompleteEntity
    PROVE  EnteredInv'
<1> DEFINE d == EntityAt(k)
<1>1. /\ pc = "entityMetadata" /\ k \in 1..Len(image.entities) /\ Active
      /\ UNCHANGED <<pc, load, image, path, nameOf, altNames>> /\ Entities' = Entities
      /\ AddEntity(d)
  BY Lengths DEF CompleteEntity, At, Next1, Count, TableOf, LoadInv, Active, names, Entities
<1>2. d \in Entities /\ d[2] = load
  BY <1>1 DEF MadeInv, LaterThanEntities, LaterThanTypes, EntityAt
<1>3. path = "packed" => NamesOf(d) = {nameOf[d]}
  BY <1>1, <1>2 DEF AltsTagged, NamesOf, AltsOf, AltNamesIn
<1>4. \A e : NamesOf(e)' = NamesOf(e)
  BY <1>1 DEF NamesOf, AltsOf
<1> HIDE DEF d
<1> SUFFICES ASSUME NEW n \in DOMAIN primordialSwamp'
             PROVE  /\ primordialSwamp'[n] \in Entities /\ n \in NamesOf(primordialSwamp'[n])
                    /\ path = "packed" /\ Active /\ primordialSwamp'[n][2] = load =>
                           n = nameOf[primordialSwamp'[n]]
  BY <1>1, <1>4 DEF EnteredInv, NotYetEntered, Active
<1>5. CASE n \in DOMAIN primordialSwamp
  <2>1. primordialSwamp'[n] = primordialSwamp[n]
    BY <1>1, <1>5, EntityEnters
  <2> QED BY <1>5, <2>1 DEF EnteredInv
<1>6. CASE n \notin DOMAIN primordialSwamp
  <2>1. n \in NamesOf(d) /\ primordialSwamp'[n] = d
    BY <1>1, <1>6, EntityEnters
  <2> QED BY <1>2, <1>3, <2>1
<1> QED BY <1>5, <1>6

LEMMA NextEnteredInv ==
    ASSUME LoadInv, MadeInv, Tagged, Named, AltsTagged, EnteredInv, [Next]_vars
    PROVE  EnteredInv'
<1>0. Entities \subseteq Entities'
  BY Grows
<1>1. \A e \in Entities : e[2] # load => NamesOf(e)' = NamesOf(e)
  BY OldNamesStay DEF Named, NamesOf
<1>2. CASE CompleteEntity
  BY <1>2, CompleteEntityEnters
<1>3. CASE LoadImage
  <2>1. /\ UNCHANGED <<primordialSwamp, nameOf, altNames>> /\ Entities' = Entities
        /\ load' = load + 1 /\ load \in Nat
    BY <1>3 DEF LoadImage, registry, names, entities, Entities, LoadInv
  <2>2. \A e \in Entities : e[2] # load'
    BY <2>1 DEF Named, Tagged
  <2>3. \A e : NamesOf(e)' = NamesOf(e)
    BY <2>1 DEF NamesOf, AltsOf
  <2> QED BY <2>1, <2>2, <2>3 DEF EnteredInv
<1>4. CASE RemoveFromRegistry
  <2>1. /\ UNCHANGED <<load, image, path, pc, k, nameOf, altNames>> /\ Entities' = Entities
    BY <1>4 DEF RemoveFromRegistry, names, loader, entities, Entities
  <2>2. /\ DOMAIN primordialSwamp' \subseteq DOMAIN primordialSwamp
        /\ \A n \in DOMAIN primordialSwamp' : primordialSwamp'[n] = primordialSwamp[n]
    <3>1. \/ UNCHANGED primordialSwamp
          \/ \E n \in DOMAIN primordialSwamp :
                primordialSwamp' = Without(primordialSwamp, RemovedNames(n))
      BY <1>4 DEF RemoveFromRegistry, RemoveEntity, RemoveSchema, RemoveType
    <3> QED BY <3>1 DEF Without, Restrict
  <2>3. \A e : NamesOf(e)' = NamesOf(e)
    BY <2>1 DEF NamesOf, AltsOf
  <2> QED BY <2>1, <2>2, <2>3 DEF EnteredInv, NotYetEntered, Active
<1>5. CASE Step /\ ~CompleteEntity
  <2>1. UNCHANGED <<primordialSwamp, load, path>>
    <3>1. UNCHANGED primordialSwamp
      BY <1>5, SwampSteps DEF RemoveFromRegistry, Step, LoopEnds, CreateSchema, BeginModule,
         CreateEntity, CreateType, CreateAggregate, ResolveAggregate, CompleteType, Overflow, AddRename,
         InitializeFromContext, InitializeFromImage, AddSchema, AddType, registry
    <3> QED BY <1>5, <3>1, StepKinds DEF LoopEnds, RecordStep, Next1
  <2>2. /\ Active' => Active
        /\ NotYetEntered' => NotYetEntered
    <3>1. CASE LoopEnds
      <4>1. Follows(path, pc, pc') /\ Active
        BY <3>1, LoopFollows DEF LoopEnds, Active
      <4>2. path \in {"packed", "tables"}
        BY DEF LoadInv
      <4> QED BY <2>1, <4>1, <4>2 DEF Follows, NotYetEntered
    <3>2. CASE ~LoopEnds
      <4>1. pc' = pc \/ pc' \in {"failed", "crashed"}
        BY <1>5, <3>2, StepKinds DEF RecordStep, Next1
      <4> QED BY <2>1, <4>1 DEF NotYetEntered, Active
    <3> QED BY <3>1, <3>2
  <2>3. CASE UNCHANGED <<nameOf, altNames>>
    <3>1. \A e : NamesOf(e)' = NamesOf(e)
      BY <2>3 DEF NamesOf, AltsOf
    <3> QED BY <1>0, <2>1, <2>2, <2>3, <3>1 DEF EnteredInv
  <2>4. CASE NotYetEntered
    <3>1. ASSUME NEW n \in DOMAIN primordialSwamp, NEW e, e = primordialSwamp[n]
          PROVE  e \in Entities' /\ n \in NamesOf(e)' /\ e[2] # load
      BY <1>0, <1>1, <2>4, <3>1 DEF EnteredInv
    <3> QED BY <2>1, <3>1 DEF EnteredInv
  <2>5. CASE pc = "renames" /\ path = "packed"
    <3>1. UNCHANGED nameOf
      BY <2>5, NamingSteps
    <3>2. Active /\ ~NotYetEntered'
      BY <1>5, <2>5, <2>1, StepKinds, LoopFollows
         DEF Active, NotYetEntered, LoopEnds, RecordStep, Next1, Follows
    <3>3. ASSUME NEW n \in DOMAIN primordialSwamp, NEW e, e = primordialSwamp[n]
          PROVE  /\ e \in Entities' /\ n \in NamesOf(e)'
                 /\ e[2] = load => n = nameOf[e]
      <4>1. e \in Entities /\ n \in NamesOf(e) /\ (e[2] = load => n = nameOf[e])
        BY <2>5, <3>2, <3>3 DEF EnteredInv
      <4>2. CASE e[2] = load
        BY <1>0, <3>1, <4>1, <4>2 DEF NamesOf
      <4>3. CASE e[2] # load
        BY <1>0, <1>1, <4>1, <4>3
      <4> QED BY <4>2, <4>3
    <3> QED BY <2>1, <3>1, <3>2, <3>3 DEF EnteredInv
  <2>6. \/ UNCHANGED <<nameOf, altNames>> \/ NotYetEntered \/ (pc = "renames" /\ path = "packed")
    BY NamingSteps DEF NotYetEntered, LoadInv
  <2> QED BY <2>3, <2>4, <2>5, <2>6
<1>6. CASE UNCHANGED vars
  <2>1. UNCHANGED <<load, path, pc, nameOf, altNames, primordialSwamp>>
    BY <1>6 DEF vars, registry, names, loader
  <2>2. \A e : NamesOf(e)' = NamesOf(e)
    BY <2>1 DEF NamesOf, AltsOf
  <2> QED BY <1>0, <2>1, <2>2 DEF EnteredInv, NotYetEntered, Active
<1> QED BY <1>2, <1>3, <1>4, <1>5, <1>6 DEF Next

(* An entity of the load that is complete now was so, or is the one at hand.  *)
LEMMA CompletedBefore ==
    ASSUME LoadInv, Tagged, Step, NEW e \in Entities, e[2] = load, Completed(e)'
    PROVE  Completed(e) \/ (CompleteEntity /\ e = EntityAt(k))
<1>0. k \in Nat \ {0} /\ path \in {"packed", "tables"}
  BY DEF LoadInv
<1>1. CASE LoopEnds
  <2>1. /\ Follows(path, pc, pc') /\ UNCHANGED <<load, path>> /\ k' = 1 /\ Active
        /\ pc = "entityMetadata" => k > Len(image.entities)
    BY <1>1, LoopFollows DEF LoopEnds, Active, Count, TableOf
  <2>2. \/ pc' \in {"idle", "modules"} \/ (pc' = "renames" /\ path = "packed")
    BY <2>1 DEF Completed
  <2>3. CASE pc = "entityMetadata"
    <3>1. PICK i \in DOMAIN image.entities : e = EntityAt(i)
      BY DEF Tagged
    <3>2. i \in 1..(k - 1)
      BY <1>0, <2>1, <2>3, Lengths
    <3> QED BY <2>3, <3>1, <3>2 DEF Completed
  <2>4. CASE pc # "entityMetadata"
    <3>1. pc = "modules" \/ (pc = "renames" /\ path = "packed")
      BY <1>0, <2>1, <2>2, <2>4 DEF Follows
    <3> QED BY <3>1 DEF Completed
  <2> QED BY <2>3, <2>4
<1>2. CASE pc' \in {"failed", "crashed"}
  BY <1>2 DEF Completed
<1>3. ASSUME NEW stage \in PackedStages \cup TableStages, RecordStep(stage)
      PROVE  Completed(e) \/ (CompleteEntity /\ e = EntityAt(k))
  <2>1. UNCHANGED <<pc, path, load>> /\ k' = k + 1 /\ pc = stage
    BY <1>3 DEF RecordStep, At, Next1
  <2>2. CASE pc = "entityMetadata"
    <3>1. PICK i \in 1..k : e = EntityAt(i)
      <4>1. PICK i \in 1..(k' - 1) : e = EntityAt(i)'
        BY <2>1, <2>2 DEF Completed
      <4> QED BY <1>0, <2>1, <4>1 DEF EntityAt
    <3>2. CASE i = k
      <4>1. CompleteEntity \/ LoopEnds
        BY <2>1, <2>2, OverflowKeeps DEF Step, CreateSchema, BeginModule, CreateEntity,
           CreateType, CreateAggregate,
           ResolveAggregate, CompleteType, AddRename, InitializeFromContext,
           InitializeFromImage, At
      <4>2. ~LoopEnds
        BY <1>0, <1>3, <2>1 DEF LoopEnds, RecordStep, At, Count
      <4> QED BY <3>1, <3>2, <4>1, <4>2
    <3>3. CASE i # k
      <4>1. i \in 1..(k - 1)
        BY <1>0, <3>3
      <4> QED BY <2>2, <3>1, <4>1 DEF Completed
    <3> QED BY <3>2, <3>3
  <2>3. CASE pc # "entityMetadata"
    BY <2>1, <2>3 DEF Completed
  <2> QED BY <2>2, <2>3
<1> QED BY <1>1, <1>2, <1>3, StepKinds

LEMMA NextHasNames ==
    ASSUME LoadInv, Tagged, Named, HasNames, [Next]_vars
    PROVE  HasNames'
<1>1. CASE RemoveFromRegistry
  BY <1>1 DEF RemoveFromRegistry, HasNames
<1>2. CASE UNCHANGED vars
  <2>1. UNCHANGED <<removals, load, path, pc, k, nameOf, altNames, primordialSwamp>>
        /\ Entities' = Entities
    BY <1>2 DEF vars, registry, names, loader, entities, Entities
  <2>2. \A e : Completed(e)' <=> Completed(e)
    BY <2>1 DEF Completed, EntityAt
  <2>3. \A e : AltsOf(e)' = AltsOf(e)
    BY <2>1 DEF AltsOf
  <2> QED BY <2>1, <2>2, <2>3 DEF HasNames
<1>3. CASE LoadImage
  <2>1. /\ UNCHANGED <<removals, primordialSwamp, nameOf, altNames>> /\ Entities' = Entities
        /\ load' = load + 1 /\ load \in Nat /\ pc = "idle"
    BY <1>3 DEF LoadImage, registry, names, entities, Entities, LoadInv
  <2>2. \A e \in Entities : e[2] # load' /\ Completed(e)
    BY <2>1 DEF Named, Tagged, Completed
  <2> QED BY <2>1, <2>2 DEF HasNames
<1>4. CASE Step
  <2>1. /\ UNCHANGED <<removals, load, path>>
        /\ DOMAIN primordialSwamp \subseteq DOMAIN primordialSwamp'
    <3>1. UNCHANGED <<load, path>>
      BY <1>4, StepKinds DEF LoopEnds, RecordStep, Next1
    <3>2. UNCHANGED removals
      BY <1>4 DEF Step, LoopEnds, CreateSchema, BeginModule, CreateEntity, CreateType,
         CreateAggregate, ResolveAggregate, CompleteType, CompleteEntity, Overflow, AddRename,
         InitializeFromContext, InitializeFromImage
    <3>3. ~RemoveFromRegistry
      BY <3>2 DEF RemoveFromRegistry, HasNames
    <3>4. CompleteEntity => AddEntity(EntityAt(k))
      BY DEF CompleteEntity
    <3>5. DOMAIN primordialSwamp \subseteq DOMAIN primordialSwamp'
      BY <3>3, <3>4, SwampSteps, EntityEnters
    <3> QED BY <3>1, <3>2, <3>5
  <2>2. ASSUME NEW e \in Entities', removals = 0, e[2] = load => Completed(e)'
        PROVE  nameOf'[e] \in DOMAIN primordialSwamp'
    <3>1. CASE UNCHANGED nameOf /\ e \in Entities
      <4>1. CASE CompleteEntity /\ e = EntityAt(k)
        <5>1. AddEntity(e)
          BY <4>1 DEF CompleteEntity
        <5> QED BY <3>1, <5>1, EntityEnters DEF NamesOf
      <4>2. CASE ~(CompleteEntity /\ e = EntityAt(k))
        <5>1. e[2] = load => Completed(e)
          BY <1>4, <2>2, <3>1, <4>2, CompletedBefore
        <5> QED BY <2>1, <2>2, <3>1, <5>1 DEF HasNames
      <4> QED BY <4>1, <4>2
    <3>2. CASE ~UNCHANGED nameOf
      <4>1. pc \in {"schemas", "entities", "types"} /\ pc' = pc
        BY <3>2, NamingSteps
      <4>2. e[2] # load
        BY <2>2, <4>1 DEF Completed
      <4>3. e \in Entities
        <5>1. CASE CreateEntity
          <6>1. e \in Entities \/ e = EntityAt(k)
            BY <5>1 DEF CreateEntity, Entities, Set
          <6> QED BY <4>2, <6>1 DEF EntityAt
        <5>2. CASE ~CreateEntity
          BY <1>4, <5>2 DEF Step, Entities, entities, LoopEnds, CreateSchema, BeginModule, CreateType,
             CreateAggregate, ResolveAggregate, CompleteType, CompleteEntity, Overflow, AddRename,
             InitializeFromContext, InitializeFromImage
        <5> QED BY <5>1, <5>2
      <4>4. nameOf'[e] = nameOf[e]
        BY <4>2, <4>3, OldNamesStay DEF Named
      <4> QED BY <2>1, <2>2, <4>2, <4>3, <4>4 DEF HasNames
    <3>3. CASE UNCHANGED nameOf /\ e \notin Entities
      <4>1. CreateEntity
        BY <1>4, <3>3 DEF Step, Entities, entities, LoopEnds, CreateSchema, BeginModule, CreateType,
           CreateAggregate, ResolveAggregate, CompleteType, CompleteEntity, Overflow, AddRename,
           InitializeFromContext, InitializeFromImage
      <4>2. e = EntityAt(k) /\ pc' = "entities"
        BY <3>3, <4>1 DEF CreateEntity, Entities, Set, At, Next1
      <4> QED BY <2>2, <4>2 DEF EntityAt, Completed
    <3> QED BY <3>1, <3>2, <3>3
  <2>3. ASSUME NEW e \in Entities', removals = 0, path = "tables", e[2] = load, Completed(e)'
        PROVE  AltNamesIn(AltsOf(e)') \subseteq DOMAIN primordialSwamp'
    <3>0. e \in Entities
      <4>1. ~CreateEntity
        BY <2>3 DEF CreateEntity, At, Next1, Completed
      <4> QED
        BY <1>4, <4>1 DEF Step, Entities, entities, LoopEnds, CreateSchema, BeginModule, CreateType,
           CreateAggregate, ResolveAggregate, CompleteType, CompleteEntity, Overflow, AddRename,
           InitializeFromContext, InitializeFromImage
    <3>1. UNCHANGED altNames
      BY <2>1, <2>3, NamingSteps DEF Completed
    <3>2. AltsOf(e)' = AltsOf(e)
      BY <3>1 DEF AltsOf
    <3>3. CASE CompleteEntity /\ e = EntityAt(k)
      <4>1. AddEntity(e)
        BY <3>3 DEF CompleteEntity
      <4> QED BY <3>2, <4>1, EntityEnters DEF NamesOf
    <3>4. CASE ~(CompleteEntity /\ e = EntityAt(k))
      <4>1. Completed(e)
        BY <1>4, <2>3, <3>0, <3>4, CompletedBefore
      <4> QED BY <2>1, <2>3, <3>0, <3>2, <4>1 DEF HasNames
    <3> QED BY <3>3, <3>4
  <2>4. \A e : AltNamesIn(AltsOf(e))' = AltNamesIn(AltsOf(e)')
    BY DEF AltNamesIn
  <2> QED BY <2>1, <2>2, <2>3, <2>4 DEF HasNames
<1> QED BY <1>1, <1>2, <1>3, <1>4 DEF Next

LEMMA NextSchemasNumbered == LoadInv /\ SchemasNumbered /\ [Next]_vars => SchemasNumbered'
<1> SUFFICES ASSUME LoadInv, SchemasNumbered, [Next]_vars PROVE SchemasNumbered'
  OBVIOUS
<1>1. CASE CreateSchema
  <2>1. pc = "schemas" /\ k <= Count("schemas") /\ k \in Nat \ {0} /\ Active
    BY <1>1 DEF CreateSchema, At, TableOf, LoadInv, Active
  <2>2. k \in 1..Len(image.schemas) /\ image.schemas \in Seq(SchemaRecords)
    BY <2>1, Lengths DEF Count, LoadInv, Images, SchemaRecords
  <2>3. image.schemas[k].name \in Int
    <3>1. image.schemas[k] \in SchemaRecords
      BY <2>2
    <3> QED BY <3>1 DEF SchemaRecords
  <2>4. DOMAIN active_schemas' = DOMAIN active_schemas \cup {image.schemas[k].name}
    BY <1>1 DEF CreateSchema, AddSchema, With
  <2> QED BY <2>3, <2>4 DEF SchemasNumbered
<1>2. CASE RemoveFromRegistry
  <2>1. DOMAIN active_schemas' \subseteq DOMAIN active_schemas
    BY <1>2 DEF RemoveFromRegistry, RemoveEntity, RemoveSchema, RemoveType, Without, Restrict
  <2> QED BY <2>1 DEF SchemasNumbered
<1>3. CASE ~CreateSchema /\ ~RemoveFromRegistry
  <2>1. UNCHANGED active_schemas
    BY <1>3 DEF Next, Step, registry, LoopEnds, BeginModule, CreateEntity, CreateType,
       CreateAggregate, ResolveAggregate, CompleteType, CompleteEntity, Overflow, AddRename, AddEntity,
       AddType, InitializeFromContext, InitializeFromImage, LoadImage, vars
  <2> QED BY <2>1 DEF SchemasNumbered
<1> QED BY <1>1, <1>2, <1>3

-----------------------------------------------------------------------------
(* Entities are found under their names, and go with all of them.             *)

RegInv ==
    /\ LoadInv /\ Named /\ MadeInv /\ Tagged
    /\ AltsTagged /\ EntitiesTyped /\ EnteredInv /\ HasNames /\ SchemasNumbered

LEMMA InitRegInv == Init => RegInv
<1> SUFFICES ASSUME Init PROVE RegInv
  OBVIOUS
<1>1. LoadInv /\ MadeInv /\ Named
  BY InitPLInv DEF PLInv
<1>2. Tagged /\ AltsTagged /\ EntitiesTyped
  BY DEF Init, Tagged, AltsTagged, EntitiesTyped, Entities, Schemas
<1>3. EnteredInv /\ HasNames /\ SchemasNumbered
  BY DEF Init, EnteredInv, HasNames, SchemasNumbered, Entities
<1> QED BY <1>1, <1>2, <1>3 DEF RegInv

LEMMA NextRegInv == RegInv /\ [Next]_vars => RegInv'
BY NextLoadInv, NextMadeInv, NextNamed, NextTagged, NextAltsTagged, NextEntitiesTyped,
   NextEnteredInv, NextHasNames, NextSchemasNumbered DEF RegInv

(* Nothing is found under the name of one entity but this entity.             *)
LEMMA OnlyOne ==
    ASSUME RegInv, Distinct, NEW e \in Entities, NEW n \in NamesOf(e), n \in DOMAIN primordialSwamp
    PROVE  primordialSwamp[n] = e
BY DEF RegInv, EnteredInv, Distinct

LEMMA NamesEntered ==
    ASSUME RegInv, pc = "idle", removals = 0, NEW e \in Entities,
           AltsOf(e) = <<>> \/ (path = "tables" /\ e[2] = load)
    PROVE  NamesOf(e) \subseteq DOMAIN primordialSwamp
<1>1. nameOf[e] \in DOMAIN primordialSwamp
  BY DEF RegInv, HasNames, Completed
<1>2. CASE AltsOf(e) = <<>>
  BY <1>1, <1>2 DEF NamesOf, AltNamesIn
<1>3. CASE path = "tables" /\ e[2] = load
  BY <1>1, <1>3 DEF NamesOf, RegInv, HasNames, Completed
<1> QED BY <1>2, <1>3

(* An entity from the tables, with all that schemas call it, and one that has *)
(* no other name, is found under the name that each schema uses for it and    *)
(* under no other of its names, for any images (Registry.cc:69-75).           *)
THEOREM RenamesAreFound == Spec => []TablesFindRenames
<1>1. ASSUME RegInv PROVE TablesFindRenames
  <2> SUFFICES ASSUME pc = "idle", removals = 0, Distinct, NEW e \in Entities,
                      AltsOf(e) = <<>> \/ (path = "tables" /\ e[2] = load),
                      NEW s \in DOMAIN active_schemas, NEW n \in NamesOf(e)
               PROVE  FindEntity(n, s) = IF n = NameIn(e, s) THEN e ELSE NoObject
    BY DEF TablesFindRenames, FoundUnder
  <2>1. n \in DOMAIN primordialSwamp /\ primordialSwamp[n] = e
    BY <1>1, NamesEntered, OnlyOne
  <2>2. e # NoObject /\ s # NoSchema
    BY <1>1, NullAssumption DEF RegInv, EntitiesTyped, SchemasNumbered
  <2>3. FindEntity(n, s) = IF Accepts(e, n, s) THEN e ELSE NoObject
    BY <2>1, <2>2 DEF FindEntity, Found
  <2>4. Accepts(e, n, s) <=> n = NameIn(e, s)
    BY <2>2 DEF Accepts, NameIn
  <2> QED BY <2>3, <2>4
<1> QED BY <1>1, InitRegInv, NextRegInv, PTL DEF Spec

(* An entity that is taken out under its own name is gone under every other,  *)
(* where names of different entities do not meet (Registry.cc).               *)
THEOREM RemovalIsComplete == Spec => RemovedIsGone
<1>1. ASSUME RegInv, [Next]_vars
      PROVE  Distinct =>
               \A e \in Range(primordialSwamp) :
                   nameOf[e] \in DOMAIN primordialSwamp \ DOMAIN primordialSwamp'
                   /\ primordialSwamp[nameOf[e]] = e => e \notin Range(primordialSwamp')
  <2> SUFFICES ASSUME Distinct, NEW e \in Range(primordialSwamp),
                      nameOf[e] \in DOMAIN primordialSwamp,
                      nameOf[e] \notin DOMAIN primordialSwamp',
                      primordialSwamp[nameOf[e]] = e
               PROVE  e \notin Range(primordialSwamp')
    OBVIOUS
  <2>1. PICK m \in DOMAIN primordialSwamp :
           primordialSwamp' = Without(primordialSwamp, RemovedNames(m))
    <3>1. CompleteEntity => AddEntity(EntityAt(k))
      BY DEF CompleteEntity
    <3> QED BY <1>1, <3>1, SwampSteps, EntityEnters
  <2> DEFINE f == primordialSwamp[m]
  <2>2. /\ DOMAIN primordialSwamp' = DOMAIN primordialSwamp \ RemovedNames(m)
        /\ \A n \in DOMAIN primordialSwamp' : primordialSwamp'[n] = primordialSwamp[n]
    BY <2>1 DEF Without, Restrict
  <2>3. e \in Entities /\ f \in Entities /\ m \in NamesOf(f) /\ f # NoObject
    BY <1>1 DEF RegInv, EnteredInv, EntitiesTyped
  <2>4. RemovedNames(m) = {m} \cup AltNamesIn(AltsOf(f))
    BY <2>3 DEF RemovedNames, Found
  <2>5. nameOf[e] \in RemovedNames(m) /\ nameOf[e] \in NamesOf(e)
    BY <2>2 DEF NamesOf
  <2>6. nameOf[e] \in NamesOf(f)
    BY <2>3, <2>4, <2>5 DEF NamesOf
  <2>7. e = f
    BY <2>3, <2>5, <2>6 DEF Distinct
  <2>8. NamesOf(e) \subseteq RemovedNames(m)
    BY <2>4, <2>5, <2>7 DEF NamesOf
  <2>9. \A n \in DOMAIN primordialSwamp : primordialSwamp[n] = e => n \in NamesOf(e)
    BY <1>1 DEF RegInv, EnteredInv
  <2> QED BY <2>2, <2>8, <2>9 DEF Range
<1> QED BY <1>1, InitRegInv, NextRegInv, PTL DEF Spec, RemovedIsGone
==============================================================================
