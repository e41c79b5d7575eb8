-------------------------------- MODULE InstMgr --------------------------------
(***************************************************************************)
(* The instance manager of src/clstepcore: the master array of the nodes   *)
(* (MgrNodeArray, a growing C array), the map from file ids to nodes, and  *)
(* the counter that numbers instances which come without an id or with one *)
(* that is taken.  One client creates instances, enters and deletes them;  *)
(* each call is one step.                                                  *)
(*                                                                         *)
(* Addresses are modelled: a node freed or an instance deleted may come    *)
(* back as another one, as the C++ allocator may do, so that a pointer     *)
(* kept too long is seen as a pointer to something else.                   *)
(***************************************************************************)
EXTENDS Integers, FiniteSets

CONSTANTS
    Instances,      \* addresses of SDAI_Application_instance objects
    Nodes,          \* addresses of MgrNode objects; bound: memory for them
    NoInstance, NoNode,  \* null pointers
    DefaultSize,    \* ARRAY_DEFAULT_SIZE, slots the array starts with
    IntMax,         \* INT_MAX
    FileNumbers,    \* ids instances are created with, 0 for none
    MaxIndex,       \* bound: the largest index the client asks for
    Client          \* what the client does beyond the usual: see below

(* "reappend": enters an instance again that is listed with the id 0.      *)
(* "overflow": lets the ids run up to INT_MAX.                             *)
ASSUME ClientAssumption == Client \subseteq {"reappend", "overflow"}
ASSUME SizesAssumption ==
    /\ DefaultSize \in Nat \ {0} /\ IntMax \in Nat \ {0} /\ MaxIndex \in Nat
    /\ FileNumbers \subseteq 0..IntMax
ASSUME PointersAssumption == NoInstance \notin Instances /\ NoNode \notin Nodes

FileIds == (-IntMax - 1)..IntMax        \* int

VARIABLES
    alive,            \* the instances that exist
    fileId,           \* STEPfile_id of each, 0 for none
    allocated,        \* the nodes that exist
    node,             \* their se and arrayIndex
    buf, bufsize, count,  \* _buf, _bufsize and _count of the master array
    sortedMaster,     \* the map: file id -> node, NoNode for no entry
    maxFileId,
    ownsInstances     \* _ownsInstances

objects == <<alive, fileId>>
nodes   == <<allocated, node>>
array   == <<buf, bufsize, count>>
ids     == <<sortedMaster, maxFileId>>
vars    == <<objects, nodes, array, ids, ownsInstances>>

-----------------------------------------------------------------------------
FreeNode == [se |-> NoInstance, arrayIndex |-> -1]
MgrNode(se, i) == [se |-> se, arrayIndex |-> i]

Slots   == 0..(count - 1)
Entry(k) == node[buf[k]].se
Listed  == {Entry(k) : k \in Slots}

FindFileId(id) == sortedMaster[id]

(* int arithmetic: beyond INT_MAX it wraps, as compilers make it do here.  *)
Increment(i) == IF i = IntMax THEN -IntMax - 1 ELSE i + 1

EmptyMap == [id \in FileIds |-> NoNode]
NewBuffer == [k \in 0..(DefaultSize - 1) |-> NoNode]

(* Fault: the buffer grows one slot too late. *)
Size_Late(i) == IF i > bufsize THEN (i + 1) * 2 ELSE bufsize

(* GenNodeArray::Check( i ): the size that makes slot i usable ...         *)
Size(i) == IF i >= bufsize THEN (i + 1) * 2 ELSE bufsize

(* ... and the buffer: a new one is zeroed, the entries are copied to it.  *)
Checked(i) ==
    IF Size(i) > bufsize
    THEN [k \in 0..(Size(i) - 1) |-> IF k \in Slots THEN buf[k] ELSE NoNode]
    ELSE buf

(* Fault: the last entry fills the gap. *)
Removed_Swapped(p) ==
    [k \in 0..(bufsize - 1) |-> IF k = count - 1 THEN NoNode
                                ELSE IF k = p THEN buf[count - 1] ELSE buf[k]]

(* MgrNodeArray::Remove( p ): the entries above p move down ...            *)
Removed(p) ==
    [k \in 0..(bufsize - 1) |-> IF k \in p..(count - 2) THEN buf[k + 1]
                                ELSE IF k = count - 1 THEN NoNode ELSE buf[k]]

(* Fault: ... and keep the index they had. *)
Reindexed_Not(p) == node

(* ... and are told their new index.                                       *)
Reindexed(p) ==
    [n \in Nodes |->
        IF \E k \in (p + 1)..(count - 1) : buf[k] = n
        THEN MgrNode(node[n].se,
                     (CHOOSE k \in (p + 1)..(count - 1) : buf[k] = n) - 1)
        ELSE node[n]]

-----------------------------------------------------------------------------
(* The objects of the client *)

Create(se) ==
    /\ se \notin alive
    /\ \E id \in FileNumbers :
         /\ alive' = alive \cup {se}
         /\ fileId' = [fileId EXCEPT ![se] = id]
    /\ UNCHANGED <<nodes, array, ids, ownsInstances>>

(* The client deletes an instance of its own, not one of the manager's.    *)
Dispose(se) ==
    /\ se \in alive \ Listed
    /\ alive' = alive \ {se}
    /\ fileId' = [fileId EXCEPT ![se] = 0]
    /\ UNCHANGED <<nodes, array, ids, ownsInstances>>

-----------------------------------------------------------------------------
(* Append: an id of 0 is replaced by the next one, then the map is asked.  *)

WantedId(se)  == IF fileId[se] = 0 THEN Increment(maxFileId) ELSE fileId[se]
MaxWanted(se) == IF fileId[se] = 0 THEN Increment(maxFileId) ELSE maxFileId

IsFound(se)  == FindFileId(WantedId(se)) # NoNode
IsListed(se) == IsFound(se) /\ node[FindFileId(WantedId(se))].se = se

MayAppend(se) ==
    /\ se \in alive
    /\ maxFileId = IntMax => "overflow" \in Client
    /\ fileId[se] = 0 /\ se \in Listed => "reappend" \in Client

(* The counter after an instance entered with an id. *)
Raised(max, id) == IF id > max THEN id ELSE max

Enter(se, id, max) ==
    /\ fileId' = [fileId EXCEPT ![se] = id]
    /\ maxFileId' = Raised(max, id)
    /\ \E n \in Nodes \ allocated :
         /\ allocated' = allocated \cup {n}
         /\ node' = [node EXCEPT ![n] = MgrNode(se, count)]
         /\ buf' = [Checked(count) EXCEPT ![count] = n]
         /\ sortedMaster' = [sortedMaster EXCEPT ![id] = n]
    /\ bufsize' = Size(count)
    /\ count' = count + 1
    /\ UNCHANGED <<alive, ownsInstances>>

(* The instance is in the list: nothing is entered.                        *)
AppendListed(se) ==
    /\ MayAppend(se) /\ IsListed(se)
    /\ fileId' = [fileId EXCEPT ![se] = WantedId(se)]
    /\ maxFileId' = MaxWanted(se)
    /\ UNCHANGED <<alive, nodes, array, sortedMaster, ownsInstances>>

(* Another one has its id: it gets a new one, which is not looked up.      *)
AppendRenumbered(se) ==
    /\ MayAppend(se) /\ IsFound(se) /\ ~IsListed(se)
    /\ Enter(se, Increment(MaxWanted(se)), Increment(MaxWanted(se)))

AppendNumbered(se) ==
    /\ MayAppend(se) /\ ~IsFound(se)
    /\ Enter(se, WantedId(se), MaxWanted(se))

-----------------------------------------------------------------------------
(* The map after a node left; the fault: it is searched by array index.    *)
Erased_ByIndex(n) ==
    [id \in FileIds |-> IF id = node[n].arrayIndex THEN NoNode ELSE sortedMaster[id]]
Erased(n) == [sortedMaster EXCEPT ![fileId[node[n].se]] = NoNode]

(* The node takes the instance with it, whoever owns the instances.        *)
Delete(n) ==
    LET p == node[n].arrayIndex  se == node[n].se IN
    /\ p \in Slots
    /\ sortedMaster' = Erased(n)
    /\ buf' = Removed(p) /\ count' = count - 1
    /\ node' = [Reindexed(p) EXCEPT ![n] = FreeNode]
    /\ allocated' = allocated \ {n}
    /\ alive' = alive \ {se}
    /\ fileId' = [fileId EXCEPT ![se] = 0]
    /\ UNCHANGED <<bufsize, maxFileId, ownsInstances>>

DeleteNode(k) == k \in Slots /\ Delete(buf[k])

DeleteInstance(se) ==
    /\ se \in Listed /\ FindFileId(fileId[se]) # NoNode
    /\ Delete(FindFileId(fileId[se]))

(* master->DeleteEntries(): nodes and instances are deleted; the array only *)
(* forgets how many there were.                                             *)
DeleteEntries ==
    /\ alive' = alive \ Listed
    /\ fileId' = [se \in Instances |-> IF se \in Listed THEN 0 ELSE fileId[se]]
    /\ allocated' = allocated \ {buf[k] : k \in Slots}
    /\ node' = [n \in Nodes |-> IF n \in {buf[k] : k \in Slots} THEN FreeNode
                                                                ELSE node[n]]

ForgetIds == sortedMaster' = EmptyMap /\ maxFileId' = -1

(* The nodes are neither deleted nor reachable any more.                   *)
ClearInstances ==
    /\ buf' = [k \in 0..(bufsize - 1) |-> IF k \in Slots THEN NoNode ELSE buf[k]]
    /\ count' = 0
    /\ ForgetIds
    /\ UNCHANGED <<objects, nodes, bufsize, ownsInstances>>

DeleteInstances ==
    /\ DeleteEntries
    /\ count' = 0
    /\ ForgetIds
    /\ UNCHANGED <<buf, bufsize, ownsInstances>>

(* delete the manager; new InstMgr( owns )                                 *)
Renew ==
    /\ \/ ownsInstances /\ DeleteEntries
       \/ ~ownsInstances /\ UNCHANGED <<objects, nodes>>
    /\ buf' = NewBuffer /\ bufsize' = DefaultSize /\ count' = 0
    /\ ForgetIds
    /\ ownsInstances' \in BOOLEAN

OwnsInstances ==
    /\ ownsInstances' = ~ownsInstances
    /\ UNCHANGED <<objects, nodes, array, ids>>

NextFileId ==
    /\ maxFileId = IntMax => "overflow" \in Client
    /\ maxFileId' = Increment(maxFileId)
    /\ UNCHANGED <<objects, nodes, array, sortedMaster, ownsInstances>>

(* Reading slot i makes the array large enough for it.                     *)
GetMgrNode ==
    /\ \E i \in 0..MaxIndex : buf' = Checked(i) /\ bufsize' = Size(i)
    /\ UNCHANGED <<objects, nodes, count, ids, ownsInstances>>

-----------------------------------------------------------------------------
Init ==
    /\ alive = {} /\ fileId = [se \in Instances |-> 0]
    /\ allocated = {} /\ node = [n \in Nodes |-> FreeNode]
    /\ buf = NewBuffer /\ bufsize = DefaultSize /\ count = 0
    /\ sortedMaster = EmptyMap /\ maxFileId = -1
    /\ ownsInstances \in BOOLEAN

Next ==
    \/ \E se \in Instances :
          \/ Create(se) \/ Dispose(se)
          \/ AppendListed(se) \/ AppendRenumbered(se) \/ AppendNumbered(se)
          \/ DeleteInstance(se)
    \/ \E k \in Slots : DeleteNode(k)
    \/ ClearInstances \/ DeleteInstances \/ Renew \/ OwnsInstances
    \/ NextFileId \/ GetMgrNode

Spec == Init /\ [][Next]_vars

-----------------------------------------------------------------------------
(* Properties *)

(* Every variable has its type, and the entries fit in the buffer.         *)
TypeOK ==
    /\ count <= bufsize /\ count \in Nat /\ bufsize \in Nat \ {0}
    /\ alive \subseteq Instances /\ fileId \in [Instances -> FileIds]
    /\ allocated \subseteq Nodes
    /\ node \in [Nodes -> [se : Instances \cup {NoInstance}, arrayIndex : Int]]
    /\ buf \in [0..(bufsize - 1) -> Nodes \cup {NoNode}]
    /\ sortedMaster \in [FileIds -> Nodes \cup {NoNode}]
    /\ maxFileId \in FileIds
    /\ ownsInstances \in BOOLEAN

(* Every entry of the array is a node that exists, whose instance exists,  *)
(* and GetIndex answers its place, through all insertions and removals.    *)
SlotsExact ==
    \A k \in Slots : /\ buf[k] \in allocated /\ Entry(k) \in alive
                     /\ node[buf[k]].arrayIndex = k

(* No instance has two nodes: it would be deleted twice.  Append is to     *)
(* return without entering an instance already in the list                 *)
(* (instmgr.cc:211-214).                                                   *)
OneNodePerInstance == \A j, k \in Slots : Entry(j) = Entry(k) => j = k

(* FindFileId finds every listed instance by its id, and nothing else.     *)
MapExact ==
    /\ \A k \in Slots : FindFileId(fileId[Entry(k)]) = buf[k]
    /\ \A id \in FileIds : FindFileId(id) # NoNode =>
           \E k \in Slots : buf[k] = FindFileId(id) /\ fileId[Entry(k)] = id

(* The counter has reached every id in use, so the next id is free.        *)
CounterAhead == \A k \in Slots : fileId[Entry(k)] <= maxFileId

-----------------------------------------------------------------------------
(* The table a client sees.                                                *)
Table == INSTANCE InstanceTable WITH
             Numbers <- FileIds, NoNumber <- IntMax + 1,
             size <- count, at <- [k \in Slots |-> Entry(k)],
             number <- [se \in Instances |-> IF se \in Listed THEN fileId[se]
                                                              ELSE IntMax + 1]

(* The manager implements InstanceTable: instances keep number and order.  *)
ImplementsInstanceTable == Table!Spec
================================================================================
