------------------------------ MODULE LazyInstMgr ------------------------------
(***************************************************************************)
(* The lazy instance manager of src/cllazyfile: instances of a Part 21     *)
(* file are materialized on demand, with every instance they refer to,     *)
(* either for good (loadInstance called by a client) or for as long as a   *)
(* LazyInstanceBatch pins them (loadBatch).                                *)
(*                                                                         *)
(* The manager is single threaded, so a step is the stretch of code        *)
(* between two calls, returns or polls of the cancellation callback.  The  *)
(* C++ call stack is the variable stack: one frame per active call of      *)
(* loadInstance or lazyRefs, the callee at the head.  The one loadBatch    *)
(* that may be active lies below them all and is the variable build.       *)
(***************************************************************************)
EXTENDS Integers, Sequences, FiniteSets

CONSTANTS
    Ids,                 \* instance identifiers (instanceID)
    Handles,             \* LazyInstanceBatch objects of the client
    Indexes,             \* the indexes a scan may have built
    RootSets,            \* arguments the client passes to loadBatch
    Uses,                \* which entry points the client uses
    Cancellable,         \* may the cancellation callback answer true?
    IntMax,              \* INT_MAX, the largest id an SDAI object can have
    MaxMaterializations  \* bound: no client call starts beyond it

NoHandle == "no handle"
Null == 0                \* the null pointer, also the stream's "nowhere"
Position == [rec : Ids \cup {Null}, k : Nat]

Entries == {"absent", "good", "alien", "many", "unregistered"}

(* What a scan leaves behind: where each id was found (_instanceStreamPos; *)
(* "many" is an id with several positions, "unregistered" one whose DATA   *)
(* section failed, "alien" a type the registry cannot create), the         *)
(* references of its record in file order (_fwdInstanceRefs), and for each *)
(* inverse attribute of its type the instances whose type is the inverted  *)
(* entity or a subtype of it.  Only a record that was found has references.*)
Index == {x \in [entry : [Ids -> Entries], fwd : [Ids -> Seq(Ids)],
                 inverseAttrs : [Ids -> SUBSET SUBSET Ids]] :
             \A i \in Ids : x.entry[i] = "absent" => x.fwd[i] = <<>>}

ASSUME IdsAssumption == Ids \subseteq Nat \ {0} /\ IsFiniteSet(Ids)
ASSUME HandlesAssumption == IsFiniteSet(Handles) /\ NoHandle \notin Handles
ASSUME IndexesAssumption == Indexes \subseteq Index
ASSUME ClientAssumption ==
    /\ RootSets \subseteq SUBSET Ids
    /\ Uses \subseteq {"loadInstance", "loadBatch"}
    /\ Cancellable \in BOOLEAN
    /\ IntMax \in Nat
    /\ MaxMaterializations \in Nat

VARIABLES
    index,                       \* the index, fixed once the files are open
    instancesLoaded,             \* _instancesLoaded: ids with a live object
    obj,                         \* the loaded objects: whom they point to
    instancesLoading,            \* _instancesLoading
    batchOwnedInstances, permanentlyLoadedInstances, deferredInverseInstances,
    pinCounts,                   \* _pinCounts, 0 for an id without an entry
    batchLoadDepth,
    stats,                       \* the counters of LazyCacheStatistics
    cancelled,                   \* _cancelled
    stream,                      \* where the shared std::ifstream stands
    thrown,                      \* has a call ended with an exception?
    stack, ret,                  \* the active calls and the last result
    build,                       \* the loadBatch call in progress
    live, held                   \* handles with a manager; their _instances

cache   == <<instancesLoaded, obj, batchOwnedInstances, permanentlyLoadedInstances>>
loading == <<instancesLoading, deferredInverseInstances>>
calls   == <<stack, ret>>
batches == <<pinCounts, batchLoadDepth, build, live, held>>
vars    == <<index, cache, loading, stats, cancelled, stream, thrown, calls, batches>>

-----------------------------------------------------------------------------
(* Data *)

Fwd(i)      == {index.fwd[i][k] : k \in 1..Len(index.fwd[i])}
Referrers(i) == {r \in Ids : i \in Fwd(r)}                \* _revInstanceRefs
Known(i)    == index.entry[i] # "absent"
Loadable(i) == index.entry[i] = "good" /\ i <= IntMax

(* "aggregates" are the inverse attributes that have one, not the null     *)
(* pointer, and inverse[a] is what the aggregate of a contains.            *)
NoObject == [refs |-> {}, aggregates |-> {}, inverse |-> [a \in SUBSET Ids |-> {}],
             stale |-> {}, misread |-> FALSE]
Object   == [refs : SUBSET Ids, aggregates : SUBSET SUBSET Ids,
             inverse : [SUBSET Ids -> SUBSET Ids], stale : SUBSET Ids, misread : BOOLEAN]
InverseOf(o) == UNION {o.inverse[a] : a \in o.aggregates}

Stats == [loaded : Int, materializations : Nat, evictions : Nat,
          activeBatches : Nat]

Build == [phase : {"idle", "closure", "pin", "load"},
          handle : Handles \cup {NoHandle}, todo : SUBSET Ids,
          closure : SUBSET Ids, pinned : SUBSET Ids]
NoBuild == [phase |-> "idle", handle |-> NoHandle, todo |-> {}, closure |-> {},
            pinned |-> {}]

First(S, i) == i \in S /\ \A j \in S : i <= j     \* std::set iteration order

Start(i) == [rec |-> i, k |-> 0]

LoadFrame == [op : {"load"}, pc : {"enter", "read", "await", "resolve"},
              id : Ids, promote : BOOLEAN, reSeek : BOOLEAN, oldPos : Position,
              next : Nat, got : SUBSET Ids, misread : BOOLEAN, todo : SUBSET Ids]
RefsFrame == [op : {"lazyRefs"}, pc : {"enter", "attrs", "load", "await"},
              id : Ids, attrs : SUBSET SUBSET Ids, attr : SUBSET Ids, null : BOOLEAN,
              referents : SUBSET Ids, todo : SUBSET Ids]
Frame == LoadFrame \cup RefsFrame

loadInstance(i, reSeek, promoteCached) ==
    [op |-> "load", pc |-> "enter", id |-> i, promote |-> promoteCached,
     reSeek |-> reSeek, oldPos |-> Start(Null), next |-> 0, got |-> {},
     misread |-> FALSE, todo |-> {}]
lazyRefs(i) ==
    [op |-> "lazyRefs", pc |-> "enter", id |-> i, attrs |-> {}, attr |-> {},
     null |-> FALSE, referents |-> {}, todo |-> {}]

Top == Head(stack)
At(op, pc) == stack # <<>> /\ Top.op = op /\ Top.pc = pc
Become(f)  == stack' = <<f>> \o Tail(stack) /\ UNCHANGED ret
Call(f, g) == stack' = <<g, f>> \o Tail(stack) /\ UNCHANGED ret
Return(v)  == stack' = Tail(stack) /\ ret' = v

(* Fault: the callback is asked, the latch is not. *)
PollsFalse_Unlatched == TRUE

(* `_cancelled || _cancellationCallback()`: both may be enabled, which is  *)
(* the callback's choice; once _cancelled is set only the first is.        *)
PollsTrue  == cancelled \/ Cancellable
PollsFalse == ~cancelled

Idle == stack = <<>> /\ build.phase = "idle"

-----------------------------------------------------------------------------
(* loadInstance, up to the switch on the number of positions *)

LoadCancelled ==
    /\ At("load", "enter") /\ batchLoadDepth > 0 /\ PollsTrue
    /\ cancelled' = TRUE
    /\ Return(Null)
    /\ UNCHANGED <<index, cache, loading, stats, stream, thrown, batches>>

Entered == At("load", "enter") /\ (batchLoadDepth > 0 => PollsFalse)

CacheHit ==
    /\ Entered /\ Top.id \in instancesLoaded
    /\ permanentlyLoadedInstances' =
           IF Top.promote /\ batchLoadDepth = 0
           THEN permanentlyLoadedInstances \cup {Top.id}
           ELSE permanentlyLoadedInstances
    /\ Return(Top.id)
    /\ UNCHANGED <<index, instancesLoaded, obj, batchOwnedInstances, loading,
                   stats, cancelled, stream, thrown, batches>>

CacheMiss == Entered /\ Top.id \notin instancesLoaded

IdTooLarge ==
    /\ CacheMiss /\ Top.id > IntMax
    /\ Return(Null)
    /\ UNCHANGED <<index, cache, loading, stats, cancelled, stream, thrown, batches>>

(* The diagnostic names the type, which typeFromFile reads by seeking the  *)
(* shared stream to the record; nothing puts it back.                      *)
CyclicDependency ==
    /\ CacheMiss /\ Top.id <= IntMax /\ Top.id \in instancesLoading
    /\ stream' = Start(Top.id)
    /\ Return(Null)
    /\ UNCHANGED <<index, cache, loading, stats, cancelled, thrown, batches>>

Begin == CacheMiss /\ Top.id <= IntMax /\ Top.id \notin instancesLoading

(* Not found, found in several sections, or in one that failed to index:   *)
(* the id enters and leaves _instancesLoading within the step.             *)
NoPosition ==
    /\ Begin /\ index.entry[Top.id] \in {"absent", "many", "unregistered"}
    /\ Return(Null)
    /\ UNCHANGED <<index, cache, loading, stats, cancelled, stream, thrown, batches>>

(* ObjCreate answers NilSTEPentity; the poll after getRealInstance still   *)
(* happens.                                                                *)
UnknownType ==
    /\ Begin /\ index.entry[Top.id] = "alien"
    /\ stream' = IF Top.reSeek THEN stream ELSE Start(Top.id)
    /\ \/ UNCHANGED cancelled
       \/ batchLoadDepth > 0 /\ Cancellable /\ cancelled' = TRUE
    /\ Return(Null)
    /\ UNCHANGED <<index, cache, loading, stats, thrown, batches>>

StartRead ==
    /\ Begin /\ index.entry[Top.id] = "good"
    /\ instancesLoading' = instancesLoading \cup {Top.id}
    /\ stream' = Start(Top.id)
    /\ Become([Top EXCEPT !.pc = "read", !.oldPos = stream])
    /\ UNCHANGED <<index, cache, deferredInverseInstances, stats, cancelled,
                   thrown, batches>>

-----------------------------------------------------------------------------
(* getRealInstance and STEPread: the references of the record, in order.   *)
(* The parser takes what stands at the stream's position, which is its     *)
(* own record as long as nobody moved the stream under it.                 *)

InPlace == stream = [rec |-> Top.id, k |-> Top.next]
Unread  == At("load", "read") /\ Top.next < Len(index.fwd[Top.id])

(* ReadEntityRef -> instMgrAdapter::FindFileId -> mgrNodeHelper            *)
ReadReference ==
    /\ Unread
    /\ stream.rec # Null /\ stream.k < Len(index.fwd[stream.rec])
    /\ stream' = [stream EXCEPT !.k = @ + 1]
    /\ Call([Top EXCEPT !.pc = "await", !.next = @ + 1,
                        !.misread = @ \/ ~InPlace],
            loadInstance(index.fwd[stream.rec][stream.k + 1], TRUE, FALSE))
    /\ UNCHANGED <<index, cache, loading, stats, cancelled, thrown, batches>>

(* Out of place the parser may find no reference for the attribute.        *)
ReadGarbage ==
    /\ Unread /\ ~InPlace
    /\ Become([Top EXCEPT !.next = @ + 1, !.misread = TRUE])
    /\ UNCHANGED <<index, cache, loading, stats, cancelled, stream, thrown, batches>>

GotReference ==
    /\ At("load", "await")
    /\ Become([Top EXCEPT !.pc = "read",
                          !.got = IF ret = Null THEN @ ELSE @ \cup {ret}])
    /\ UNCHANGED <<index, cache, loading, stats, cancelled, stream, thrown, batches>>

AllRead == At("load", "read") /\ Top.next = Len(index.fwd[Top.id])

(* Fault: the stream is left where the read ended. *)
EndRead_NoSeek ==
    /\ AllRead
    /\ UNCHANGED stream
    /\ instancesLoading' = instancesLoading \ {Top.id}

(* Fault: the loading guard is not released. *)
EndRead_Guarded ==
    /\ AllRead
    /\ stream' = IF Top.reSeek THEN Top.oldPos ELSE stream
    /\ UNCHANGED instancesLoading

EndRead ==
    /\ AllRead
    /\ stream' = IF Top.reSeek THEN Top.oldPos ELSE stream
    /\ instancesLoading' = instancesLoading \ {Top.id}

(* A cancellation seen after STEPread deletes the object again. *)
DropPartial ==
    /\ EndRead /\ batchLoadDepth > 0 /\ PollsTrue
    /\ cancelled' = TRUE
    /\ Return(Null)
    /\ UNCHANGED <<index, cache, deferredInverseInstances, stats, thrown, batches>>

Insert ==
    /\ EndRead
    /\ instancesLoaded' = instancesLoaded \cup {Top.id}
    /\ obj' = [obj EXCEPT ![Top.id] = [NoObject EXCEPT
                  !.refs = Top.got, !.misread = Top.misread \/ ~InPlace]]
    /\ stats' = [stats EXCEPT !.loaded = @ + 1, !.materializations = @ + 1]
    /\ UNCHANGED <<index, deferredInverseInstances, cancelled, thrown, batches>>

InsertBatchOwned ==
    /\ Insert /\ batchLoadDepth > 0 /\ PollsFalse
    /\ batchOwnedInstances' = batchOwnedInstances \cup {Top.id}
    /\ UNCHANGED permanentlyLoadedInstances
    /\ Return(Top.id)

InsertPermanent ==
    /\ Insert /\ batchLoadDepth = 0
    /\ permanentlyLoadedInstances' = permanentlyLoadedInstances \cup {Top.id}
    /\ UNCHANGED batchOwnedInstances
    /\ Call([Top EXCEPT !.pc = "resolve"], lazyRefs(Top.id))

-----------------------------------------------------------------------------
(* resolveDeferredInverses, run by the loadInstance that called lazyRefs *)

ResolveNext ==
    /\ At("load", "resolve") /\ \E i \in Top.todo : First(Top.todo, i) /\
         LET rest == [Top EXCEPT !.todo = @ \ {i}] IN
         IF i \in instancesLoaded THEN Call(rest, lazyRefs(i)) ELSE Become(rest)
    /\ UNCHANGED <<index, cache, loading, stats, cancelled, stream, thrown, batches>>

(* Fault: the deferred set is emptied instead of swapped. *)
ResolveSwap_Drop ==
    /\ At("load", "resolve") /\ Top.todo = {}
    /\ instancesLoading = {} /\ deferredInverseInstances # {}
    /\ UNCHANGED calls
    /\ deferredInverseInstances' = {}
    /\ UNCHANGED <<index, cache, instancesLoading, stats, cancelled, stream,
                   thrown, batches>>

(* Fault: the deferred set is copied instead of swapped. *)
ResolveSwap_Copy ==
    /\ At("load", "resolve") /\ Top.todo = {}
    /\ instancesLoading = {} /\ deferredInverseInstances # {}
    /\ Become([Top EXCEPT !.todo = deferredInverseInstances])
    /\ UNCHANGED <<index, cache, loading, stats, cancelled, stream, thrown, batches>>

ResolveSwap ==
    /\ At("load", "resolve") /\ Top.todo = {}
    /\ instancesLoading = {} /\ deferredInverseInstances # {}
    /\ Become([Top EXCEPT !.todo = deferredInverseInstances])
    /\ deferredInverseInstances' = {}
    /\ UNCHANGED <<index, cache, instancesLoading, stats, cancelled, stream,
                   thrown, batches>>

ResolveDone ==
    /\ At("load", "resolve") /\ Top.todo = {}
    /\ instancesLoading # {} \/ deferredInverseInstances = {}
    /\ Return(Top.id)
    /\ UNCHANGED <<index, cache, loading, stats, cancelled, stream, thrown, batches>>

-----------------------------------------------------------------------------
(* lazyRefs: find the instances that refer to this one through an inverse  *)
(* attribute, load them, and enter those that do in the attribute.         *)

NoInverses ==
    /\ At("lazyRefs", "enter")
    /\ index.inverseAttrs[Top.id] = {} \/ Referrers(Top.id) = {}
    /\ Return(ret)
    /\ UNCHANGED <<index, cache, loading, stats, cancelled, stream, thrown, batches>>

HasInverses == /\ At("lazyRefs", "enter")
               /\ index.inverseAttrs[Top.id] # {} /\ Referrers(Top.id) # {}
Typed(r) == index.entry[r] \in {"good", "alien"}   \* typeFromFile answers

(* mapRefsToTypes: every referrer's type is read from the file; the stream *)
(* stays behind at the last one.                                           *)
MapRefsToTypes ==
    /\ HasInverses /\ \A r \in Referrers(Top.id) : Typed(r)
    /\ \E r \in Referrers(Top.id) : stream' = Start(r)
    /\ Become([Top EXCEPT !.pc = "attrs", !.attrs = index.inverseAttrs[Top.id]])
    /\ UNCHANGED <<index, cache, loading, stats, cancelled, thrown, batches>>

(* `new std::string( type )` with a null type: std::logic_error leaves     *)
(* every active call, the loading guards erase their ids on the way.       *)
NullType ==
    /\ HasInverses /\ \E r \in Referrers(Top.id) : ~Typed(r)
    /\ \E r \in Referrers(Top.id) \cup {stream.rec} : stream' = Start(r)
    /\ thrown' = TRUE
    /\ stack' = <<>> /\ ret' = Null
    /\ instancesLoading' = {}
    /\ UNCHANGED <<index, cache, deferredInverseInstances, stats, cancelled, batches>>

(* checkAnInvAttr: _referentInstances keeps growing from one attribute to  *)
(* the next; one referent still being read defers the whole instance.      *)
(* Whether the attribute has an aggregate is looked up here, once.         *)
CheckAnInvAttr ==
    /\ At("lazyRefs", "attrs")
    /\ \E a \in Top.attrs :
         LET referents == Top.referents \cup (a \cap Referrers(Top.id))
             f == [Top EXCEPT !.attrs = @ \ {a}, !.referents = referents]
         IN  IF referents \cap instancesLoading # {}
             THEN /\ deferredInverseInstances' = deferredInverseInstances \cup {Top.id}
                  /\ Become(f)
             ELSE /\ UNCHANGED deferredInverseInstances
                  /\ Become([f EXCEPT !.pc = "load", !.attr = a, !.todo = referents,
                                      !.null = a \notin obj[Top.id].aggregates])
    /\ UNCHANGED <<index, cache, instancesLoading, stats, cancelled, stream,
                   thrown, batches>>

RefsDone ==
    /\ At("lazyRefs", "attrs") /\ Top.attrs = {}
    /\ Return(ret)
    /\ UNCHANGED <<index, cache, loading, stats, cancelled, stream, thrown, batches>>

(* loadInstIFFreferent.  Its own isMaterializing test repeats the one of   *)
(* CheckAnInvAttr: instancesLoading is back to what it was after each call.*)
LoadReferent ==
    /\ At("lazyRefs", "load")
    /\ \E r \in Top.todo :
         First(Top.todo, r) /\ Call([Top EXCEPT !.pc = "await"],
                                    loadInstance(r, FALSE, TRUE))
    /\ UNCHANGED <<index, cache, loading, stats, cancelled, stream, thrown, batches>>

(* refersToCurrentInst, then AddNode without duplicates.  The iAstruct is  *)
(* passed by value: where it was null, each referrer gets a new aggregate, *)
(* which setInvAttr puts in the place of the one before.                   *)
Enter(r) ==
    [obj EXCEPT ![Top.id].aggregates = @ \cup {Top.attr},
                ![Top.id].inverse[Top.attr] = IF Top.null THEN {r} ELSE @ \cup {r}]

GotReferent ==
    /\ At("lazyRefs", "await")
    /\ \E r \in Top.todo :
         /\ First(Top.todo, r)
         /\ obj' = IF ret = r /\ r \in Top.attr /\ Top.id \in obj[r].refs
                   THEN Enter(r) ELSE obj
         /\ Become([Top EXCEPT !.pc = "load", !.todo = @ \ {r}])
    /\ UNCHANGED <<index, instancesLoaded, batchOwnedInstances,
                   permanentlyLoadedInstances, loading, stats, cancelled, stream,
                   thrown, batches>>

AttrDone ==
    /\ At("lazyRefs", "load") /\ Top.todo = {}
    /\ Become([Top EXCEPT !.pc = "attrs"])
    /\ UNCHANGED <<index, cache, loading, stats, cancelled, stream, thrown, batches>>

-----------------------------------------------------------------------------
(* loadBatch *)

Building(phase) == build.phase = phase /\ stack = <<>>

(* Fault: the direct references of the roots only. *)
ExpandClosure_Direct ==
    /\ Building("closure") /\ PollsFalse
    /\ \E i \in build.todo :
         build' = [build EXCEPT !.todo = @ \ {i},
                                !.closure = @ \cup {r \in Fwd(i) : Known(r)}]
    /\ UNCHANGED <<index, cache, loading, stats, cancelled, stream, thrown, calls,
                   pinCounts, batchLoadDepth, live, held>>

(* dependencyClosure, one queue element at a time.  The queue is kept as a *)
(* set: its order only decides what a cancellation leaves out.             *)
ExpandClosure ==
    /\ Building("closure") /\ PollsFalse
    /\ \E i \in build.todo :
         LET new == {r \in Fwd(i) : Known(r)} \ build.closure IN
         build' = [build EXCEPT !.todo = (@ \ {i}) \cup new,
                                !.closure = @ \cup new]
    /\ UNCHANGED <<index, cache, loading, stats, cancelled, stream, thrown, calls,
                   pinCounts, batchLoadDepth, live, held>>

ClosureCancelled ==
    /\ Building("closure") /\ build.todo # {} /\ PollsTrue
    /\ cancelled' = TRUE
    /\ build' = [build EXCEPT !.todo = {}]
    /\ UNCHANGED <<index, cache, loading, stats, stream, thrown, calls,
                   pinCounts, batchLoadDepth, live, held>>

ClosureDone ==
    /\ Building("closure") /\ build.todo = {}
    /\ build' = [build EXCEPT !.phase = "pin", !.todo = build.closure]
    /\ UNCHANGED <<index, cache, loading, stats, cancelled, stream, thrown, calls,
                   pinCounts, batchLoadDepth, live, held>>

Pin ==
    /\ Building("pin") /\ PollsFalse
    /\ \E i \in build.todo :
         /\ First(build.todo, i)
         /\ pinCounts' = [pinCounts EXCEPT ![i] = @ + 1]
         /\ build' = [build EXCEPT !.todo = @ \ {i}, !.pinned = @ \cup {i}]
    /\ UNCHANGED <<index, cache, loading, stats, cancelled, stream, thrown, calls,
                   batchLoadDepth, live, held>>

(* Fault: the rest of the closure is not erased. *)
PinCancelled_Keep ==
    /\ Building("pin") /\ build.todo # {} /\ PollsTrue
    /\ cancelled' = TRUE
    /\ build' = [build EXCEPT !.todo = {}]
    /\ UNCHANGED <<index, cache, loading, stats, stream, thrown, calls,
                   pinCounts, batchLoadDepth, live, held>>

(* closure.erase( id, closure.end() ) *)
PinCancelled ==
    /\ Building("pin") /\ build.todo # {} /\ PollsTrue
    /\ cancelled' = TRUE
    /\ build' = [build EXCEPT !.todo = {}, !.closure = build.pinned]
    /\ UNCHANGED <<index, cache, loading, stats, stream, thrown, calls,
                   pinCounts, batchLoadDepth, live, held>>

PinDone ==
    /\ Building("pin") /\ build.todo = {}
    /\ stats' = [stats EXCEPT !.activeBatches = @ + 1]
    /\ batchLoadDepth' = batchLoadDepth + 1
    /\ build' = [build EXCEPT !.phase = "load", !.todo = build.closure]
    /\ UNCHANGED <<index, cache, loading, cancelled, stream, thrown, calls,
                   pinCounts, live, held>>

MaterializeNext ==
    /\ Building("load") /\ PollsFalse
    /\ \E i \in build.todo :
         /\ First(build.todo, i)
         /\ build' = [build EXCEPT !.todo = @ \ {i}]
         /\ stack' = <<loadInstance(i, TRUE, TRUE)>> /\ UNCHANGED ret
    /\ UNCHANGED <<index, cache, loading, stats, cancelled, stream, thrown,
                   pinCounts, batchLoadDepth, live, held>>

MaterializeCancelled ==
    /\ Building("load") /\ build.todo # {} /\ PollsTrue
    /\ cancelled' = TRUE
    /\ build' = [build EXCEPT !.todo = {}]
    /\ UNCHANGED <<index, cache, loading, stats, stream, thrown, calls,
                   pinCounts, batchLoadDepth, live, held>>

(* return LazyInstanceBatch( this, roots, closure ) *)
LoadBatchDone ==
    /\ Building("load") /\ build.todo = {}
    /\ batchLoadDepth' = batchLoadDepth - 1
    /\ live' = live \cup {build.handle}
    /\ held' = [held EXCEPT ![build.handle] = build.closure]
    /\ build' = NoBuild
    /\ UNCHANGED <<index, cache, loading, stats, cancelled, stream, thrown, calls,
                   pinCounts>>

-----------------------------------------------------------------------------
(* releaseBatch( held[h] ): drop the pins, evict what only batches owned   *)

(* Faults: evict whatever is released; test the count before the decrement. *)
Unpinned_Any(S)   == S
Unpinned_Early(S) == {i \in S : pinCounts[i] = 0}

Unpinned(S) == {i \in S : pinCounts[i] = 1}
Evicted(S)  == {i \in Unpinned(S) : i \in batchOwnedInstances
                                 /\ i \notin permanentlyLoadedInstances
                                 /\ i \in instancesLoaded}

(* What an eviction does to the objects: the evicted are deleted, and a    *)
(* pointer a survivor has to one of them dangles from now on.              *)
Survivor(o, gone) ==
    [o EXCEPT !.refs = @ \ gone,
              !.inverse = [a \in SUBSET Ids |-> @[a] \ gone],
              !.stale = @ \cup ((o.refs \cup InverseOf(o)) \cap gone)]

(* The decrement of the pins and the eviction, for the instances of h. *)
Release(h) ==
    LET gone == Evicted(held[h]) IN
    /\ pinCounts' = [i \in Ids |-> IF i \in held[h] /\ pinCounts[i] > 0
                                  THEN pinCounts[i] - 1 ELSE pinCounts[i]]
    /\ instancesLoaded' = instancesLoaded \ gone
    /\ batchOwnedInstances' = batchOwnedInstances \ gone
    /\ obj' = [i \in Ids |-> IF i \in gone THEN NoObject
                                            ELSE Survivor(obj[i], gone)]
    /\ stats' = [stats EXCEPT !.loaded = @ - Cardinality(gone),
                              !.evictions = @ + Cardinality(gone),
                              !.activeBatches = IF @ > 0 THEN @ - 1 ELSE @]
    /\ UNCHANGED <<index, permanentlyLoadedInstances, loading, cancelled, stream,
                   thrown, calls, batchLoadDepth, build>>

-----------------------------------------------------------------------------
(* The client *)

LoadInstance ==
    /\ Idle /\ "loadInstance" \in Uses
    /\ stats.materializations < MaxMaterializations
    /\ \E i \in Ids : stack' = <<loadInstance(i, FALSE, TRUE)>>
    /\ UNCHANGED <<index, cache, loading, stats, cancelled, stream, thrown, ret,
                   batches>>

LoadBatch(h) ==
    /\ Idle /\ "loadBatch" \in Uses /\ h \notin live
    /\ stats.materializations < MaxMaterializations
    /\ \E roots \in RootSets :
         build' = [NoBuild EXCEPT !.phase = "closure", !.handle = h,
                                  !.todo = roots, !.closure = roots]
    /\ UNCHANGED <<index, cache, loading, stats, cancelled, stream, thrown, calls,
                   pinCounts, batchLoadDepth, live, held>>

(* release() or the destructor *)
ReleaseBatch(h) ==
    /\ Idle /\ h \in live
    /\ Release(h)
    /\ live' = live \ {h}
    /\ held' = [held EXCEPT ![h] = {}]

(* Fault: what h held is overwritten without being released. *)
MoveBatch_Forget(g, h) ==
    /\ Idle /\ g \in live /\ g # h
    /\ held' = [held EXCEPT ![h] = held[g], ![g] = {}]
    /\ live' = (live \ {g}) \cup {h}
    /\ UNCHANGED <<index, cache, loading, stats, cancelled, stream, thrown, calls,
                   pinCounts, batchLoadDepth, build>>

(* h = std::move( g ): what h held is released first, then h takes g's.    *)
MoveBatch(g, h) ==
    /\ Idle /\ g \in live /\ g # h
    /\ held' = [held EXCEPT ![h] = held[g], ![g] = {}]
    /\ live' = (live \ {g}) \cup {h}
    /\ \/ h \in live /\ Release(h)
       \/ /\ h \notin live
          /\ UNCHANGED <<index, cache, loading, stats, cancelled, stream, thrown,
                         calls, pinCounts, batchLoadDepth, build>>

-----------------------------------------------------------------------------
Init ==
    /\ index \in Indexes
    /\ instancesLoaded = {} /\ instancesLoading = {}
    /\ obj = [i \in Ids |-> NoObject]
    /\ batchOwnedInstances = {} /\ permanentlyLoadedInstances = {}
    /\ deferredInverseInstances = {}
    /\ pinCounts = [i \in Ids |-> 0]
    /\ batchLoadDepth = 0
    /\ stats = [loaded |-> 0, materializations |-> 0, evictions |-> 0,
                activeBatches |-> 0]
    /\ cancelled = FALSE /\ thrown = FALSE
    /\ stream = Start(Null)
    /\ stack = <<>> /\ ret = Null
    /\ build = NoBuild
    /\ live = {} /\ held = [h \in Handles |-> {}]

LoadStep ==
    \/ LoadCancelled \/ CacheHit \/ IdTooLarge \/ CyclicDependency
    \/ NoPosition \/ UnknownType \/ StartRead
    \/ ReadReference \/ ReadGarbage \/ GotReference
    \/ DropPartial \/ InsertBatchOwned \/ InsertPermanent
    \/ ResolveNext \/ ResolveSwap \/ ResolveDone

RefsStep ==
    \/ NoInverses \/ MapRefsToTypes \/ NullType \/ CheckAnInvAttr \/ RefsDone
    \/ LoadReferent \/ GotReferent \/ AttrDone

BatchStep ==
    \/ ExpandClosure \/ ClosureCancelled \/ ClosureDone
    \/ Pin \/ PinCancelled \/ PinDone
    \/ MaterializeNext \/ MaterializeCancelled \/ LoadBatchDone

(* A call once made runs to its end by itself. *)
Running == LoadStep \/ RefsStep \/ BatchStep

Client == \/ LoadInstance
          \/ \E h \in Handles : LoadBatch(h) \/ ReleaseBatch(h)
          \/ \E g, h \in Handles : MoveBatch(g, h)

Next == Running \/ Client

Spec == Init /\ [][Next]_vars /\ WF_vars(Running)

-----------------------------------------------------------------------------
(* Properties *)

(* The ids of the calls that are between _instancesLoading.insert and the  *)
(* release of their loading guard.                                         *)
Reading == {stack[k].id : k \in {n \in 1..Len(stack) :
                stack[n].op = "load" /\ stack[n].pc \in {"read", "await"}}}

Holders(i) == {h \in Handles : i \in held[h]}

(* Every variable has its type. *)
TypeOK ==
    /\ index \in Indexes
    /\ instancesLoaded \subseteq Ids /\ instancesLoading \subseteq Ids
    /\ batchOwnedInstances \subseteq Ids /\ permanentlyLoadedInstances \subseteq Ids
    /\ deferredInverseInstances \subseteq Ids
    /\ obj \in [Ids -> Object]
    /\ pinCounts \in [Ids -> Nat]
    /\ batchLoadDepth \in Nat
    /\ stats \in Stats
    /\ cancelled \in BOOLEAN /\ thrown \in BOOLEAN
    /\ stream \in Position
    /\ stack \in Seq(Frame)
    /\ ret \in Ids \cup {Null}
    /\ build \in Build
    /\ live \subseteq Handles
    /\ held \in [Handles -> SUBSET Ids]

(* The pin count of an instance is the number of batches that hold it, the *)
(* one under construction included: loadBatch, a cancellation in the       *)
(* middle of it, moves and releases never lose or double a pin.            *)
PinsMatchBatches ==
    \A i \in Ids : pinCounts[i] = Cardinality(Holders(i))
                                  + (IF i \in build.pinned THEN 1 ELSE 0)

(* What is in the cache and was not loaded for good is pinned: batches     *)
(* return the cache to its size (lazy_test.cc:185, 198).                   *)
OnlyPinnedOrPermanent ==
    \A i \in instancesLoaded \ permanentlyLoadedInstances : pinCounts[i] > 0

(* No step takes an instance out of the cache that a client loaded for     *)
(* good or that a remaining batch holds (lazy_test.cc:180).                *)
EvictsOnlyUnheld ==
    [][\A i \in instancesLoaded \ instancesLoaded' :
           /\ i \notin permanentlyLoadedInstances
           /\ \A h \in live' : i \notin held'[h]]_vars

(* The counters of cacheStatistics agree with the cache and the batches.   *)
CacheAccounting ==
    /\ stats.loaded = Cardinality(instancesLoaded)
    /\ stats.materializations - stats.evictions = stats.loaded
    /\ stats.activeBatches = Cardinality(live) + batchLoadDepth

(* _instancesLoading holds the ids being read, on every path out of        *)
(* loadInstance, and never one that is already cached: otherwise a later   *)
(* load is refused as cyclic for ever.                                     *)
LoadingIsStack ==
    instancesLoading = Reading /\ instancesLoading \cap instancesLoaded = {}

(* While no batch was cut short, no live object points to a deleted one. *)
NoDangling == ~cancelled => \A i \in instancesLoaded : obj[i].stale = {}

(* A batch that was not cut short holds, and has materialized, everything  *)
(* its instances depend on (lazySupport.h:91).                             *)
BatchIsClosed ==
    ~cancelled => \A h \in live : \A i \in held[h] :
        /\ \A r \in Fwd(i) : Known(r) => r \in held[h]
        /\ Loadable(i) => i \in instancesLoaded

(* A parser goes on where it stopped: the load of a referenced instance    *)
(* puts the stream back (lazyInstMgr.h:268, \param reSeek).                *)
ResumesInPlace == At("load", "read") => InPlace

(* No cached object misses a reference its record has: in particular the   *)
(* object that a cancellation interrupted is not cached.                   *)
ReferencesComplete ==
    \A i \in instancesLoaded :
        ~obj[i].misread
        /\ \A r \in Fwd(i) : Loadable(r) => r \in obj[i].refs \cup obj[i].stale

(* Between calls the inverse attributes of the loaded instances are        *)
(* resolved: each possible referrer was loaded, an attribute for which one *)
(* of them does refer to the instance is not empty, and it contains no     *)
(* instance that does not; no deferred resolution is forgotten.  Of        *)
(* several referrers, only one need be there.                              *)
InversesResolved ==
    Idle => \A i \in instancesLoaded : \A a \in index.inverseAttrs[i] :
        /\ \A r \in a \cap Referrers(i) : Loadable(r) =>
               r \in instancesLoaded /\ (i \in obj[r].refs => obj[i].inverse[a] # {})
        /\ obj[i].inverse[a] \subseteq {r \in a \cap instancesLoaded : i \in obj[r].refs}

(* Once cancelled, a batch caches nothing more. *)
CancelledBatchLoadsNothing ==
    [][cancelled /\ batchLoadDepth > 0 => instancesLoaded' \subseteq instancesLoaded]_vars

(* Every call returns: recursion over references and inverse attributes,   *)
(* and the loop over the deferred instances, come to an end.               *)
CallsReturn == ~Idle ~> Idle

(* An instance loaded for good never points to a deleted one: what a       *)
(* client got from loadInstance stays usable (lazyInstMgr.h:269).          *)
RetainedIntact == \A i \in permanentlyLoadedInstances : obj[i].stale = {}

-----------------------------------------------------------------------------
(* The cache a client sees: the handle of a loadBatch in progress holds    *)
(* what it has pinned so far.                                              *)
Holds == [h \in Handles |-> IF h = build.handle THEN build.pinned ELSE held[h]]

Cache == INSTANCE PinnedCache WITH
             cached <- instancesLoaded, kept <- permanentlyLoadedInstances,
             holds <- Holds

(* The manager implements PinnedCache, however loads, batches, moves,      *)
(* cancellations and inverse attributes are mixed.                         *)
ImplementsPinnedCache == Cache!Spec

==============================================================================
