# Verification of STEPcode

STEPcode reads EXPRESS schemas and generates C++ class libraries that read and
write Part 21 (STEP) files. This directory holds TLA+ specifications of the
parts of it whose state is hard to keep right, the TLC configurations that
check them on small instances, and TLAPS proofs of their main properties. All
paths below are relative to the repository; `lazyInstMgr.cc` and the like are
under `src/cllazyfile`, `instmgr.cc` and the like under `src/clstepcore`.

Contents: [1 the system](#1-the-system), [2 lazy instance manager](#2-the-lazy-instance-manager),
[3 instance manager](#3-the-instance-manager), [4 hash tables](#4-hash-tables),
[5 registry and schema loading](#5-registry-and-schema-loading), [6 Part 21 files](#6-part-21-files),
[7 editor lists](#7-editor-lists), [8 complex entity matching](#8-complex-entity-matching),
[9 runs](#9-runs-and-bounds), [10 proofs](#10-proofs), [11 disagreements](#11-disagreements-and-known-behaviours),
[12 not modelled](#12-what-is-not-modelled-and-why), [13 plan](#13-plan).

To run one: `tlc -config LazyMixed.cfg MCLazyInstMgr`; to prove: `tlapm
LazyInstMgrProofs.tla`. `PROJECT.json` lists the runs, the source lines of every
definition, the faults that each property is shown to detect, and the hazards.

## 1 The system

Nothing is persisted but the files written on request, so there are no crashes
to recover from and no messages to lose; one thread does everything but ask for
the progress of a read. What is hard are calls that re-enter each other over
cyclic data, pointers that outlive what they point to, long sequences of legal
calls, calls that fail or are cancelled half-way, two passes over one file that must
agree, and structures that grow or are changed while somebody iterates over them.

### The runtime libraries

| Component | State | Operations | Must hold | Modelled |
|---|---|---|---|---|
| Lazy instance manager (`lazyInstMgr`, `lazyRefs`, `LazyInstanceBatch`) | index of positions and references, cache of objects, pins, in-progress set, deferred inverses, cancellation latch, shared stream | `loadInstance`, `loadBatch`, release and move of batches | pins exact; nothing evicted early or left over; references and inverse attributes complete; parsers resume in place; every call returns | section 2 |
| Lazy readers (`sectionReader`, `lazyFileReader`, data and header section readers) | a stream position, section ids | scan a file into the index, re-read one record | the index is what the file says; the stream is put back | only the re-read |
| Instance manager (`InstMgr`, `MgrNodeArray`, `GenNodeArray`, `MgrNode`) | growing array of nodes, map id to node, id counter | append, delete, clear, find, next id | array, index, map and counter agree; ids unique | section 3 |
| Hash tables (`sc_hash.cc`, `express/hash.c`) | segments, split pointer, iteration cursor | insert, find, delete, iterate, split, copy | every key stays findable through splits; iteration returns each once | section 4 |
| Registry, data dictionary | tables of descriptors, alternative names | add, remove, find | an entity is found under the name a schema gives it, and no other | section 5 |
| Schema loading, schema modules (`schemaInit.cc`, `schemaModule.cc`) | descriptors, records captured for the modules | load a packed image or tables | what passes the checks loads; modules number descriptors stably | section 5 |
| STEP file reader and writer (`STEPfile`) | header and data instances, id increment, counts, file type, progress | read or append exchange and working files, write working files | the passes agree; files do not mix; losses are told; sessions survive | section 6 |
| Editor lists and commands (`GenNodeList`, `MgrNodeList`, `DisplayNodeList`, `CmdMgr`) | rings of nodes, one sentinel each; replicate list | change list or state, clear, delete | lists stay rings; no list leads to a deleted node | section 7 |
| Complex entity matching (`ComplexCollect`, `EntList` family) | AND/OR/ANDOR trees, marks on the names of an instance | `supports` | accepts exactly the combinations the schema allows, and ends | section 8 |
| Application and complex instances | attributes, inverse attributes, chain of parts | read, write, `ReadEntityRef` | references lead to the instance meant | `ReadEntityRef` in sections 2 and 6 |
| Attribute values, aggregates, selects | literal values | parse, format | | no: pure conversion |
| SDAI session objects (`cldai`) | growable arrays of handles | insert, remove, find | | no: same array as section 3 |
| Strings, errors, directories (`clutils`) | | | | no |

### The compilers

| Component | State | Must hold | Modelled |
|---|---|---|---|
| EXPRESS scanner, parser | generated automata | | no |
| EXPRESS resolver (`express.c`, `resolve.c`, `scope.c`) | resolution state of each object, passes over schemas and use/reference lists | every name resolved once, cycles detected, passes end | no |
| EXPRESS support (`linklist.c`, `alloc.c`, `error.c`) | lists, free lists, bounded buffer of sorted messages | buffer never overruns, messages in line order | only `hash.c`, section 4 |
| `exp2cxx`: code writing | | | no: formatting; its copy of the matching code is section 8 |
| `exp2cxx`: schema ordering (`multpass.c`) | marks on schemas, types and entities | passes end and order types before their users | no |
| `exp2python`, `exppp`, schema scanner | | | no: formatting |
| Judy arrays, benchmark timer | | | no: third party, timing |

### How the parts meet

- `STEPfile` creates instances through the registry, numbers them through
  `InstMgr::Append` and finds referenced ones by `InstMgr::FindFileId` (`ReadEntityRef`).
- The lazy manager gives `ReadEntityRef` an `instMgrAdapter` in place of the
  instance manager: `FindFileId` then is a call of `lazyInstMgr::loadInstance`,
  so reading one record re-enters the manager for each reference in it.
- `loadInstance` ends with `lazyRefs`, which looks for instances that refer to the
  new one, and loads those: a second way the manager re-enters itself.
- All lazy reads share one `std::ifstream` per file, whose position is state
  that each nested read must put back.
- The registry's tables are hash tables; `SchemaLoad` uses them as the maps that
  `HashTable` is shown to implement.
- The editor's lists and `CmdMgr` point at `MgrNode`s that `InstMgr` owns.

## 2 The lazy instance manager

`PinnedCache` says what a client is promised: an instance is in the cache for good
or as long as a handle holds it. `LazyInstMgr` is the code. `MCLazyInstMgr` holds
the reference graphs of the runs. The proofs are in `LazyInstMgrProofs` (ownership),
`LazyLoadProofs` (bookkeeping, cancellation, closed batches, inverse attributes, and what a
client of batches finds in the objects).

**State.** Each member of `lazyInstMgr` that decides something is a variable of the same
name: `instancesLoaded`, `instancesLoading`, `batchOwnedInstances`,
`permanentlyLoadedInstances`, `deferredInverseInstances`, `pinCounts`, `batchLoadDepth`, `cancelled`,
and `stats`. `obj` is the heap: whom each object points to (`refs`), which of its inverse attributes have an
aggregate (`aggregates`) and who is in it (`inverse`), which of its pointers lead to deleted objects
(`stale`), and whether its parser was ever out of place (`misread`). `stream` is
the shared file position. `live` and `held` are the client's `LazyInstanceBatch`es.
`index` is what the scan left; it is chosen at the start and never changes.

**Steps.** The C++ call stack is the variable `stack`, one frame per active
`loadInstance` or `lazyRefs`; `ret` is the value just returned; `build` is the active
`loadBatch`. A step is the code between two calls, returns or polls of the
cancellation callback. Thus `loadInstance` is `LoadCancelled`, `CacheHit`,
`IdTooLarge`, `CyclicDependency`, `NoPosition`, `UnknownType`, `StartRead` (its entry
and early returns), `ReadReference`, `ReadGarbage`, `GotReference` (the parser calling
back), `DropPartial`, `InsertBatchOwned`, `InsertPermanent` (its end) and `ResolveNext`,
`ResolveSwap`, `ResolveDone` (the loop over deferred inverses). `lazyRefs` is the actions of
`RefsStep`, `loadBatch` those of `BatchStep`. Releases and moves of batches are one
step each: they call nothing that calls back.

The poll `_cancelled || callback()` is a choice (`PollsTrue`, `PollsFalse`); the latch
is never reset, as in the code.

**Abstractions.** Values of attributes do not exist, only references. An inverse attribute is named by the
set of the instances whose type may refer through it. All are aggregates (single-valued ones
differ only in the value kept). `checkAnInvAttr` fetches the aggregate once for all referrers (`null` of the frame): where
there was none, each referrer gets a new one in the place of the one before (`Enter`).
The queue of `dependencyClosure` is a set and the model takes its elements in any
order: the closure does not depend on it, and a cancellation can come after any
part. Left out: the byte and hit counters, the high-water
marks, `_instanceTypes`, and the calls that validate or report and change nothing.
Callbacks of the client do not call the manager. One stream stands for all files.

**Properties.** `PinsMatchBatches`, `OnlyPinnedOrPermanent`, `EvictsOnlyUnheld` (the last two
are proved, not run) and `ImplementsPinnedCache` are about ownership; `NoDangling`, `BatchIsClosed`, `ReferencesComplete` and
`InversesResolved` about what a client finds in the objects; `ResumesInPlace` about the
stream; `LoadingIsStack` and `CacheAccounting` about the bookkeeping on every path
out of a call; `CancelledBatchLoadsNothing` about cancellation; `CallsReturn` about
termination of the mutual recursion.

**Fairness.** `WF_vars(Running)`: a call once made goes on by itself, since there is one
thread and it executes it. Clients need not call anything. Cancellation is not
assumed to happen or not to happen.

## 3 The instance manager

`InstanceTable` is the promise: an ordered table, each instance at most once, each
with a number no other has and that it keeps until it leaves. `InstMgr` is the
code, `MCInstMgr` the instance for TLC, `InstMgrProofs` the proofs.

**State.** `buf`, `bufsize`, `count` are `_buf`, `_bufsize`, `_count` of the master array;
`sortedMaster`, `maxFileId`, `ownsInstances` are members of the same name. `node` and
`allocated` are the heap of `MgrNode`s, `alive` and `fileId` that of the instances.
Nodes and instances are addresses: one that was freed can be handed out again,
so a kept pointer leads to another object and not to a tidy null.

**Steps.** One per call. `Append` has three ends: `AppendListed` (the instance is found
under its own id), `AppendRenumbered` (another is), `AppendNumbered`. `Delete` does
all of `InstMgr::Delete` and what it calls: the map entry, the array with the shift
and renumbering of the entries above, the node and the instance with it.
`ClearInstances` zeroes the used slots and leaks the nodes; `DeleteInstances` leaves
freed pointers in the slots; `Renew` is a destructor and a new manager.
`GetMgrNode` changes state too: `operator[]` grows the array to any index asked for.
`Create` and `Dispose` are the client's.

**Assumptions on the client.** The constant `Client` can let it append an instance whose id
is 0 and that is in the list ("reappend"), or let ids reach `INT_MAX` ("overflow").
The run and the theorems have neither (`Client = {}`); section 11 says what each does.
The model's client also does not call `StepFileId( id )` on a listed instance, which
the code does not guard against; in the repository only `STEPread` sets the id of
a listed instance, to the one it was found by. A client never calls `Delete` for an
instance that is not in the list: the code dereferences the null `FindFileId` returns.

**Properties.** `SlotsExact`: entries are live, and know their index. `MapExact`: `FindFileId`
finds what is listed and only that. `ImplementsInstanceTable`. `OneNodePerInstance` and
`CounterAhead` (the next id is free, which `Append` relies on without looking) are
proved. No liveness: every call is one terminating step, so the specification
has no fairness.

## 4 Hash tables

`Dictionary` is a map; `HashTable` is the linear hashing that `sc_hash.cc` and `express/hash.c`
share, with the copy and the cursor. `at` and `ahead` say in which bucket each element is and in what order
the chain holds them; `directory`, `maxp`, `p`, `keyCount`, `segmentCount` are the members of the
table; `cursor` is a `HashEntry`, kept between calls while the table changes.
A search finds an element only in the bucket its key selects *now*, so an
element that a split forgot to move is lost. `segmentCount` counts up with every
split although a segment is allocated only for every `SEGMENT_SIZE`-th of them, as in the code: the
load is that of the count, and walks reach as far as it says.

`WellPlaced`: addresses, buckets and segments agree through every split.
`KeyCountExact`: the count that triggers splits is right, nothing is leaked.
`ListsOnce`: a walk returns what was there and stayed, once, whatever is inserted and
deleted between two calls; a split under the walk, or the deletion of the
element the cursor holds, ends the promise.
`ImplementsDictionary`; `ChainsOrdered` is proved. The run ends in no deadlock and needs no fairness.

## 5 Registry and schema loading

`Registry` holds the three tables by name and the alternative names (`SchRename`) that
decide whether a name is accepted. `SchemaLoad` extends it with the two ways to
load: `InitializeSchemaFromImage`, which checks a packed image (`Valid`, check by check)
and then runs the loops of `Stages.packed`, and the functions that generated code calls table
by table (`Stages.tables`). One step is one record of one loop. `context` and `pending` are what
`SchemaLoadContext` and `PendingSchemaModules` capture for the modules; `lastSchema`, `lastModule` are the
latter's one-entry cache.

Linking an entity to its supertypes and adding an attribute to it drop the layouts of all its subtypes, with a
recursion that keeps no record of where it was (`InvalidateLateBoundLayout`). Where the links made so far lead round a
cycle below the entity (`Endless`), it overflows the stack: `CompleteEntity` gives way to `Overflow`, and the program ends
with what the registry holds by then (`pc = "crashed"`).

`AllOrNothing`: what the checks let through cannot fail later, what they refuse leaves
nothing, and only an image whose supertypes form a cycle ends in an overflow (section 11). `PointersLead`: no descriptor points outside its load. `ModulesNumberDescriptors`:
a module numbers the entities and types of its schema as the schema lists them, and their
attributes entity by entity in the image's order, each once, although the records of several schemas
are mixed and each entity sorts its attributes into two lists; later loads change none of it. `LastModuleCurrent`: the cache is never stale. `TablesFindRenames`, `RemovedIsGone`: names.
Schemas are named by numbers, in the order `SchRename` sorts by. Where a name must lead to one
entity, names of different entities are taken not to meet (`Distinct`); one image of the run has
names that do, section 11 says what happens then.

`Images` says what the records of an image are, `ImagesAssumption` what may be loaded: a packed image may have any numbers in
its records, and it is `Valid` that refuses it; the tables of generated code are consistent,
but may have cycles of supertypes (the compiler's own test for them, `ENTITY_check_subsuper_cyclicity`, returns early).
The schemas of one library differ in their slots and modules (`NamesDiffer`).

## 6 Part 21 files

`StepFile` models `STEPfile::AppendFile` and its callers: opening, header
(`ReadHeader`, verification, merging), id increment, pass 1 (`ReadData1`, `CreateInstance`), reopening, pass 2 (`ReadData2`,
`ReadInstance`), both with the early end at `_maxErrorCount`, and the working session with its letters. The instance
manager is its sequence of instances and its largest id; section 3 is about
how it holds them. A record is what the passes tell apart: letter, id, whether an
instance can be made of it (`form`), and the values of the head of its parts and of the others (`head`, `rest`): the ids they refer to, and
what kinds of required values are missing. A simple record has no others. What is missing is an error when reading strictly; when not, a
missing text is only a message and a missing number is worse than an error (`SeverityRead`). The second pass can fail before it starts in two ways: the file does not open again (`ReopenFails`), or its DATA
section is not found again (`DataNotFound`), which sets no error.
A step is one record of one pass; the progress (`size`, `position`) is visible between steps.

`IdsKept`, `ReferencesStayInFile`: the increment keeps appended files apart. `HeaderComplete`:
the three required entities survive any merge. `PassesAgree`: an instance holds the
values of the record it was made of. `ErrorTellsLoss`: where neither `_error` nor the result has
anything to say, every record became an instance, and the values of its head part are all there. `SessionRestored`: a written session reads back as it was. Their conditions (`headerIdSet`,
`RepeatedLate` in a theorem,
`NoRejectedTwin`, at most `_maxErrorCount` deleted instances) are behaviours of the code, section 11.
The client reads files and edits states; it need not do either: no fairness.

## 7 Editor lists

`GenNodeList` has the pointer operations on rings (`Unlink`, `LinkBefore`, `LinkAfter`, clearing), `Editor` the
commands on lists of states and of displays, the destructor, `DeleteEntries` entry by entry,
and the replicate list. `CommandLists` is the abstract view: sequences in which a command
moves only its own node.

`ListsWellLinked`, `DestroyedIsOffLists`, `KeepsOrder` (the refinement), `DeletingEnds` (the model
takes the first node each time; `gennodelist.cc:73-81` follows the next pointer it saved before the delete, the same node). Fairness:
`WF_vars(DeleteFirst)`, the loop of `DeleteEntries` goes on by itself. The cancel
list, which no constructor creates, is left out (section 11).

## 8 Complex entity matching

`EntityTrees` has the trees of names and, as operators, the member functions that match
them: `matchNonORs`, `matchORs`, `tryNext`, `acceptChoice`, `unmarkAll`, `hit`, `reset`. A function that changes the
tree and the marks answers both; `The({ e : a \in {v} })` names a value v that is used several times. `ComplexMatch` is `ComplexCollect::supports`: one list after
another, or the lists that share an entity joined under one AND for the
call and put back after it. One step is one `matches` up to its loop, or one round of the loop.
`lists` keeps the trees between calls, with all that calls leave in them.

`AnswersRight` compares with the sets a tree stands for (`Allowed`, `Legal`). Without shared entities no other
combination is accepted, for any trees, and all of them are accepted if each name has one place: what an AND or an
ANDOR joins has no name in common (`OnePlace`). With one shared entity no illegal combination is accepted if no AND
that an ANDOR may leave out has it (`NotTied`). Both conditions are needed: section 11 has the smallest trees for which the
answer is wrong without them. They are stated in the property and not left to the
families, which hold trees on both sides of them. `Restored`: a call leaves each list as it
was or reset; the pointers that link the lists to each other during a call (`collect.cc:155-163`)
are not modelled, so it is about marks and choices. `SearchEnds`: no more rounds than combinations of choices, although later ORs
start over after each new choice; as each step is determined by the one before,
this is termination, and needs no fairness. `CHECK_DEADLOCK FALSE`: a call through a null
pointer (section 11) ends the program.

## 9 Runs and bounds

| Run | Shows | Bounds |
|---|---|---|
| `lazy_batch` | batches that were not cut short are closed and complete, nothing dangles, parsers resume in place, an interrupted object is never cached, for a client that only uses `loadBatch` | 3 ids, 2 handles, every acyclic graph that leads up or down, records that cannot be loaded for each reason, cancellation at any poll; client calls stop after 6 materializations |
| `lazy_inverse` | inverse attributes resolved between calls; every call returns | every graph on 3 ids without self-reference, cycles included; 2 choices of inverse attributes |
| `lazy_mixed` | pins, accounting, in-progress set, cancellation, refinement, under everything at once | 10 indexes, both entry points, cancellation at any poll, moves, `IntMax` 2 so that id 3 is too large |
| `inst_mgr` | array, index and map agree; the manager is a table of numbered instances | 3 instances, 3 nodes, initial size 1, ids -4..3 |
| `hash_table` | the table stays a map, walks return it exactly | 4 keys that collide and part, 2 types, segments of 2 buckets, 3 segments, load factor 0 so that each insertion splits |
| `schema_load` | loads complete or leave nothing, ids stable, names found | 2 loads, 1 removal; 2 or 3 schemas, 3 entities, 2 types, an aggregate, renames; every image off in one number; an entity that is its own supertype, two that are each other's |
| `step_file` | passes agree, files do not mix, losses are told, sessions survive | not strict; 2 reads in any of 4 ways of 14 files or the session written, `_maxErrorCount` 2, 1 edit |
| `editor` | rings stay rings and keep the order; deleting a list ends | 2 nodes, 2 lists of states, 2 of displays |
| `complex_match` | answers right, backtracking ends, lists restored | one tree: every one with two-way joins and up to 4 leaves, repeated names included, and deeper ones; or 2 trees that share a subtype, up to 3 leaves each or with a subtype of a subtype; every request, any number of calls |
| `lazy_retained`, `schema_renames`, `complex_shared` | section 11 | the smallest that show it |

Why these are enough to be interesting: three ids make a chain, a fan, a shared
reference, cycles of two and of three, and a referrer that is being read while
its referent is resolved; two handles overlap, move over each other and release in
either order; five or six materializations reload what was evicted. An array
that starts with one slot is full after the first entry, and grows by the
second or by a read before it; three nodes are fewer than the entries and deletions of a run, so that
addresses are reused; ids up to 3 make given, assigned and colliding ids meet. Four keys
fill the buckets of a whole round of splits, which starts again with a doubled
table, until the directory is full. Two schemas refer to each other's entities and a third is empty;
two loads meet in one registry and one cache of captured modules. Two
reads make appended ids, merged headers and a session written between. Two nodes in one ring
with its head have different neighbours on both sides and swap. Trees with four leaves have a choice below
a choice and names in several places, the only reasons to backtrack. Larger instances are what the
proofs are for.

`MaxMaterializations` only stops new client calls, never a call under way, so
`CallsReturn` is not cut short; the same holds of `MaxLoads`, `MaxRemovals`, `MaxReads`, `MaxEdits`.
`CHECK_DEADLOCK FALSE` is set in the runs in which a client that has reached such a bound
makes no more calls. The runs `inst_mgr`, `hash_table` and `editor` check for deadlock.
Instances and nodes are symmetric in `inst_mgr`; ids are not
(the code orders them), so the lazy runs use no symmetry.

Every property of a passing run is shown to fail when a definition it depends on
is replaced by a plausible bug (the operators marked "Fault" in the modules,
paired with the runs in `PROJECT.json`).

## 10 Proofs

All theorems hold for every value of the constants the assumptions allow: any
finite set of ids and handles and any indexes; any sets of instances and
nodes, any initial size and any `INT_MAX`; any keys, hash function, sizes and load factor;
any images; any files and `_maxErrorCount`; any finite sets of nodes and lists. Each invariant below was
first checked by TLC in the runs of section 9.

**Assumptions on constants.** `FilesAssumption` says what a file may contain and `ImagesAssumption` what an
image may (section 5); `CountAssumption` that `_maxErrorCount` is a number; `NullAssumption` that the null pointer is no
descriptor's address; `NodesAssumption` that lists of states, lists of displays and nodes are different cells. In four places a theorem has
hypotheses: `Client = {}` in `InstMgrProofs` (section 3), `BatchesOnly` and `AcyclicReferences` for what a client of batches finds,
`LoadsOnly` and `ReferrersTyped` for inverse attributes, `FilesLate` for headers. They restrict what the client does or the files hold, as the runs do; section 11 says
what happens outside them. A batch resolves no inverse attributes, and a referrer whose record cannot be read throws before
the remaining ones are seen.

**LazyInstMgrProofs.** `TypeCorrect` needs to know that `batchLoadDepth` is 1 exactly while
the batch under construction loads (`Phase`). `PinsExact` adds `Handover`: a batch is
pinned id by id, the pins pass to a handle that holds nothing, and are released
from that handle, so each pin has one owner. `NoEarlyEviction` follows from both.
`NoUnheldLeftover` (nothing stays cached without a pin) is the hard one: an object
loaded by a batch must be in what the batch pinned, hence the closure must be
closed under references (`Closed`) and every frame of the batch must be inside the
closure, which includes that the parser stands in the record it thinks it reads
(`BatchFrames`, `BatchStack`): a nested load that did not put the stream back could
load an instance the batch does not hold. `Refines` maps each step to a step of
`PinnedCache` or a stutter with those invariants.

**LazyLoadProofs** holds for every reference graph and, but for its last four theorems, for every client. `LoadingGuardsExact`: the in-progress set is the
set of ids whose frame is past its entry and not yet cached, and no id has two such frames (`Guards`). `CountersExact`: an
insertion counts up only because the guard says the id was not cached, a release counts down by the cardinality of what
it evicts. `CancelledLoadsNothing` is an action property: the latch is read again after the last
reference, immediately before the insertion. `BatchesComplete` adds `Progress`: of the ids the
batch still has to load, none is forgotten when a nested load was cancelled, failed or found the id in the cache.
`InversesAreResolved` says of each loadable referrer of a loaded instance that it was loaded and, if it refers to the instance, that the
attribute is not empty, or that the instance is in the deferred set, or
that a call on the stack still owes it (`DuesCovered`, `Owes`); and that what was entered does refer to the instance (`Genuine`). A `lazyRefs` counts a referrer as done when its load has returned, so
that load must have cached it (`Answered`); it returns without the instance only when it meets it in the in-progress set, and
`checkAnInvAttr` has set the instance aside before a `lazyRefs` could wait for one that a call below is reading (`Nested`). The set is empty when no call is left, since the
lowest call empties it before it returns (`NothingDeferred`).

For batches alone, over files whose references lead one way, the stack is a path of the reference
graph: each frame was called for the reference its caller has just read, and the record and place that
the caller left are those the stream is put back to. `ParsersResume` is that invariant; `ObjectsComplete` adds that a frame
has kept every loadable reference it has passed (`PlainFrames`); with `BatchesComplete`, what an object of a
batch points to is held with it by each batch that is left, whence `NothingDangles`.

**InstMgrProofs.** Under `Client = {}`: `ManagerTypeCorrect`, `EntriesExact`, `OneToOne`,
`FindsByIdExactly`, `CounterIsAhead`. No one of them is inductive alone, all five together
are: deletion by index is right because entries know their index, the map
entry removed is the right one because ids are exact, an instance is not
entered twice because the map finds it, and the assigned id is free because the
counter is ahead. `EnterInv`, `DeleteInv`, `SameListInv`, `EmptyInv` are the four kinds of
steps, and give the step of `InstanceTable` along with the invariant;
`ImplementsTable` collects them.

**HashTableProofs.** `Addressing`, `CountIsExact` and `ChainsStayLines` rest on one invariant; its
heart is arithmetic of the split: a key of bucket p selects p or maxp + p afterwards and no other key
changes its bucket (`HashIn` before and after), and p = maxp - 1 ends the round with the same
addresses under the doubled maxp. `WellPlaced` gives that a search finds exactly what is there,
whence `ImplementsMap`: insertions, deletions and lookups are those of `Dictionary`; splits, copies and walks are stutters.
`WalksAreComplete` needs what a walk has before it (`Left`): every element it owes was returned, or is the cursor's next,
behind that in the chain or in a later bucket (`Walk`); and that the walk goes on with the least nonempty bucket, which
exists because a nonempty set of naturals has a least element. `TypeCorrect` comes out of both.

**SchemaLoadProofs.** `RememberedModuleIsCurrent`: by itself inductive; the lemmas are about captures that
go through the cache, and about its being forgotten with what it pointed to. `PointersStayInTables`: the loops make
descriptors before the later loops resolve references to them, so the invariant says for each loop what is already made
(`PLInv`), and `Valid`, about numbers of records, is turned into the existence of descriptors.
`LoadsAreAllOrNothing` compares, at the end, the numbers of captured entities, types and attributes with
the image, schema by schema. Of an overflow it says that the links made so far are those of the image's records (`SubtypesTold`), so
that the cycle they lead round is one of the image. The invariant says more than the numbers (`CaptureInv`): what waits for a module, in the context
or behind the cache, lists the records of its schema that the loops have taken so far, in the order of their numbers (`ListOf`);
each step lengthens the lists of one schema by one record or by one run of attributes (`Gains`). The lengths then
agree with the counts of the image, as both count the same record numbers.
`NumbersAreStable` adds that the lists of a schema grow with the same records as its capture (`ListsInv`), that the two
attribute lists of a finished entity divide its run of attributes between them (`AttrInv`, where `FilterEnumerates` is used), and that
what a module of an earlier load has is as it was (`Settled`): no step of a later load touches a descriptor or a list of another load.
`RenamesAreFound` and `RemovalIsComplete` rest on one invariant of the registry (`RegInv`): an entry is under the entity's own
name or one of its alternative names, from a packed image under its own only, and from tables under all of them once the entity is complete.

**StepFileProofs.** `RecordsKeepTheirIds` and `FilesDoNotMix`: the invariant says that every id is at most
`maxFileId`, ids of earlier loads are at most the current increment, and those of the current load are
above it; so a reference, which is above it too, is found only in its own file, and
`CreateInstance` meets no id that would make `Append` renumber. `PassesMakeAndFill` and `SilenceMeansComplete` are about the end of a
read and need what holds at record k of a pass (`PInv`): pass 1 has made an instance of the first record of each id that can be made
(`Entered`, `FirstOfId`), pass 2 finds it by that id and has filled those before k (`FilledToK`), and as long as the counters
and `_error` show nothing, none was left out on the way (`AllMade`, `AllFilled`). A second pass that cannot begin
shows in the result alone, and what further parts of a complex record lack shows in neither, so the theorem speaks of both and of the head.

`SessionComesBack` follows the reading of a session record by record: after k records of pass 1 the instances are those of the
saved ones before k that were not deleted (`Picks`), the count of the others is what `_maxErrorCount` allows (`Deleted`),
and pass 2 has given those before k their references again (`Refilled`); a filter is known by the increasing enumeration of what it keeps.
`HeaderStaysComplete` is an induction along the header of a file (`HeaderReadsOn`): each required entity read has its own id, as
no other id below 4 is handed out and ids are distinct. Its hypothesis `FilesLate` is needed: `InstMgr::Append` gives the second
of two `FILE_NAME`s the next id above the largest, and that is 3 when `FILE_SCHEMA` has not been read yet.

**EditorProofs.** `EveryListIsARing` and `NoListLeadsToDestroyed`. That a ring closes is said without counting steps:
the smallest set that holds the head and is closed under next is a ring of its own, and next and
prev are inverse on linked cells. An injection of a finite set into itself is onto, which gives
the way back. Each operation is one of unlink, link and clear, each proved once for any heap.
`WalksKeepOrder`, the refinement of `CommandLists`, is about walks: the cells of a ring from the head on are its only
sequence whose neighbours are linked, starts after the head and ends before it. Unlinking takes one cell
out of that sequence and linking puts one in; every other list has the same cells as before, and so the same sequence.

**InductionLemmas** serves the last three and `HashTableProofs`. The library's induction theorems take an operator as a parameter; here the property is the
set of the numbers that have it, and the principle (`Induction`) is that a nonempty set of naturals has a least element (`LeastNumber`).
From it follow the definition of functions by recursion on a number (`Recursion`), the increasing enumeration of a finite set of
numbers, and that `Filters!Filter` is its image (`FilterEnumerates`).

**Only model-checked.**
- Liveness, which is out of the prover's reach: `CallsReturn`, `DeletingEnds`.
- What `RECURSIVE` operators over trees compute: all of `EntityTrees` and `ComplexMatch` (`SearchEnds`, `AnswersRight`, `Restored`).

## 11 Disagreements and known behaviours

Three runs end with a counterexample; `PROJECT.json` quotes the comments the code contradicts.

- `lazy_retained`: `loadInstance` of A, whose reference B only a batch owns, stores B's
  pointer without retaining B; releasing the batch deletes B under A.
- `schema_renames`: `InitializeSchemaFromImage` adds alternative names after the entity has
  entered the registry, which then does not find it under them, and refuses its
  own name to the schema that renamed it. The tables do it in the right order.
- `complex_shared`: an ANDOR stops at the first child that marks the last name; whether a shared entity was
  matched is then read off children nobody looked at, and a legal instance is refused.

The properties are conditional on these further behaviours, or the model leaves them out:

- Lazy manager. `loadBatch` cancelled while pinning returns a valid batch over part
  of a closure; a pinned instance can lose what it points to. Outside batches the
  stream position is restored before `lazyRefs` runs, which moves it (a referrer's parser goes on in another record).
  Inverse discovery can ask for an instance still being read and report a cyclic dependency in an acyclic file.
  A bad record among the referrers makes the load of a good instance throw `std::logic_error`.
  The id of a DATA section that failed to index is used again by the next file.
  Of several referrers of an instance only the last entered stays in an inverse attribute: `lazyRefs.h:101` fetches the aggregate once
  and passes it by value, so line 120 finds it null for each and `setInvAttr` (`sdaiApplication_instance.cc:963`) replaces
  the aggregate that holds the ones before, against "Do not partially populate an inverse attribute" (`lazyRefs.h:90`).
- Instance manager. The first instance of an empty manager gets id 0, "no id"; appending
  it again enters it twice (an example works around it, `example/ap203min/ap203min.cpp:492`). Past
  `INT_MAX` assigned ids are ones in use. After `DeleteInstances` freed nodes stay in `_buf` beyond
  `_count`, where `GetMgrNode( index )` reads them.
- Registry. A name that two entities share leads to the one entered first. `RemoveClones` deletes by name without looking
  at the entity: removing one of the two takes out the entry of the other, which stays under its other names.
- Schema loading. The checks of `schemaInit.cc:427-432` accept a cycle of supertypes; when the links are
  made, `InvalidateLateBoundLayout` (`entityDescriptor.cc:223-231`) then recurses without end and the stack overflows with the registry
  already changed, against `schemaModule.h:46-49`: "Runtime loading validates the complete block before constructing
  descriptors or changing a Registry". An entity that is only its own supertype overflows when an attribute or a further link follows.
- Hash tables. Deleting the element a cursor holds leaves the cursor on freed memory; a
  split under a walk can make it skip or repeat.
- Part 21 files. `_headerId` starts at 0 and only `ReadExchangeFile` sets it to 5, so before the first such call user
  entities of a header take the ids of required ones; so does a required entity that is repeated before all three were read. A record of an unknown entity followed by a good one with
  the same id: pass 2 reads the first into the instance of the second. The error of a simple instance is cleared
  before `ReadData2` counts it, so it counts as valid; an aborted pass 1 goes on to pass 2; `AppendFile` can return
  `SEVERITY_NULL` while `_error` tells of an error (`ErrorTellsLoss` is about `_error`). A DATA section that the second pass does
  not find (`STEPfile.cc:1718-1722`) leaves `_error` as it was, only the result tells. `STEPcomplex::STEPread` drops what reading each part
  returns and reports the error of the head alone (`STEPcomplex.cc:360`), so a value lost in another part counts as
  read, and the instance as complete, against `STEPfile.cc:1159-1162` (it "must keeps track of error messages encountered"). When not strict, the number put in the place
  of a missing one is quoted (`STEPattribute.cc:238-250`) and does not parse: the "For compatibility, replacing with" never comes
  about for numbers, which give `SEVERITY_BUG`. In a session a record without
  a letter after a deleted one is created by pass 1 and skipped by pass 2. More deleted instances than
  `_maxErrorCount` end the reading of a session. `GetReadProgress` of another thread may divide by a size
  reset to 0, and `_iFileStage1Done` is never reset. Several instances in one `&SCOPE` are stored
  through `*scopelist[i]`, right only for the first.
- Editor lists. `CmdMgr` never creates `cancelList`, which `CancelCmdList` and `ClearInstances` use. `ReplicateList::Remove`
  does not update `tail`: after the last entry is removed, what is added is written through a freed
  entry and lost (`tailFreed`); the list keeps nodes that were destroyed. `DisplayNode` leaves `see` uninitialised.
  `MgrNodeList::Append` says it puts a node at the front and puts it at the end (`mgrnodelist.cc:34-38`).
- Complex entities. `firstCandidate( child->prev )` of a first child calls `lastNot` on a null `this`; most builds make it
  return null, and the model has the crash as an alternative. With two shared entities an OR without a choice
  "hits" both, and an illegal instance can be accepted. With one it can be accepted too: whether each list matched it is not asked
  when the lists need no choice (`complexlist.cc:175`, against its comment at 213-219), and an UNKNOWN or passed-over OR "hits" it. With s over
  a ANDOR (c AND d) and t over c, {a, c, s, t} is accepted, although s allows no c without d; so is
  {b, c, s, t} with s over c and t over b ANDOR e, where c is a subtype of e too and the e is missing. A legal combination of a list that has a name in two joined
  places can be refused: {a, s} with s over (a AND ONEOF(b, c)) ANDOR a, where the first a is undone with the choice that fails and the
  second had been satisfied by it, and {a, d, s} with s over ONEOF(d, c) AND ONEOF(ONEOF(d, a), d). The
  conditions of `AnswersRight` leave these out and nothing else that the runs reach.

## 12 What is not modelled, and why

- Parsing and formatting of values, code writing, pretty printing: pure
  conversions, long and sequential; nothing in them is an order of events. They, with generated
  and third-party code (parser, scanner, header schema, Judy), are most of the lines of the repository,
  so the modelled share of all lines is small.
- EXPRESS resolver and schema ordering: their state is the whole syntax tree; a model
  faithful to the passes would restate it. The message buffer of `error.c` is one loop.
- In the modelled components: `openFile` and the scan (the index is any of a set
  of indexes a scan may leave); the diagnostics of the lazy manager; `VerifyInstances` and other
  queries that change nothing; the packed complex image and the initialization from arrays of slots;
  destruction of the registry; writing exchange files, scopes, recovery from records
  that do not parse; `CancelCmdList`, `ClearInstances`, `SingleLinkList::DeleteNode` and `DeleteFollowingNodes`;
  building and removing the lists of complex entities (`buildList`, `insert`, `remove`, `InitializeComplexSupport`).
- `EntityTrees` takes each list of a schema as a supertype and one tree, the form the generator writes.

## 13 Plan

What a next step would add, in order: `openFile`, section ids and duplicate ids, feeding the index of
`LazyInstMgr`; the passes of `multpass.c` (termination, order); `buildList` and renaming of complex entities.
