------------------------------- MODULE Editor -------------------------------
(***************************************************************************)
(* The command manager of the editor: nodes of the instance manager move   *)
(* between lists of states and, through their display nodes, between lists *)
(* of displays; a list of replications holds plain pointers to them.  The  *)
(* links are modelled pointer by pointer (GenNodeList).                    *)
(***************************************************************************)
EXTENDS GenNodeList, Sequences, SequencesExt

CONSTANTS Nodes,        \* the MgrNodes, and with them their DisplayNodes
          StateLists,   \* the heads of the lists of states
          DisplayLists  \* the heads of the lists of displays

(* mappedWrite and mappedView. *)
Shown == DisplayLists \ {"notMapped"}

ASSUME NodesAssumption ==
    /\ IsFiniteSet(Nodes) /\ IsFiniteSet(StateLists) /\ IsFiniteSet(DisplayLists)
    /\ Nodes \cap (StateLists \cup DisplayLists) = {} /\ StateLists \cap DisplayLists = {}
    /\ Null \notin Nodes \cup StateLists \cup DisplayLists \cup {"noMapState"}
    /\ DisplayLists \subseteq {"mappedWrite", "mappedView", "notMapped"}
    /\ "notMapped" \in DisplayLists

VARIABLES live,         \* the nodes that exist
          states,       \* the links of the MgrNodes
          displays,     \* the links of the DisplayNodes
          displayState, \* node -> state of its DisplayNode, Null without one
          replicates,   \* the replicate list, from its head
          tailFreed,    \* its tail is a freed entry
          emptying      \* the list DeleteEntries is deleting, or Null

vars == <<live, states, displays, displayState, replicates, tailFreed, emptying>>

replicateVars == <<replicates, tailFreed>>

DisplayStates == DisplayLists \cup {"noMapState"}

Init ==
    /\ live = {}
    /\ states = NewHeap(Nodes, StateLists)
    /\ displays = NewHeap(Nodes, DisplayLists)
    /\ displayState = [n \in Nodes |-> Null]
    /\ replicates = <<>>
    /\ tailFreed = FALSE
    /\ emptying = Null

Idle(n) == n \in live /\ emptying = Null

NewNode(n) ==
    /\ emptying = Null
    /\ n \notin live
    /\ live' = live \cup {n}
    /\ UNCHANGED <<states, displays, displayState, replicateVars, emptying>>

(* MgrNode::ChangeList: off whatever list the node is on, to the end of l. *)
ChangeStateList(n, l) ==
    /\ Idle(n)
    /\ states' = InsertBefore(Unlink(states, n), n, l)
    /\ UNCHANGED <<live, displays, displayState, replicateVars, emptying>>

(* Insertion next to another node of a list, or next to its head. *)
InsertState(n, e) ==
    /\ Idle(n)
    /\ e # n /\ Linked(states, e)
    /\ states' \in {InsertBefore(states, n, e), InsertAfter(states, n, e)}
    /\ UNCHANGED <<live, displays, displayState, replicateVars, emptying>>

RemoveState(n) ==
    /\ Idle(n)
    /\ Linked(states, n)
    /\ states' = Unlink(states, n)
    /\ UNCHANGED <<live, displays, displayState, replicateVars, emptying>>

ClearStates(l) ==
    /\ emptying = Null
    /\ states' = ClearEntries(states, l)
    /\ UNCHANGED <<live, displays, displayState, replicateVars, emptying>>

(* Modify and View; the first of them makes the DisplayNode. *)
ChangeDisplayList(n, l) ==
    /\ displayState' = [displayState EXCEPT ![n] = IF @ = Null THEN "noMapState" ELSE @]
    /\ displays' = InsertBefore(Unlink(displays, n), n, l)
    /\ UNCHANGED <<live, states, replicateVars, emptying>>

ShowCmdList(n, l) ==
    /\ Idle(n)
    /\ ChangeDisplayList(n, l)

CloseCmdList(n) ==
    /\ Idle(n)
    /\ displayState[n] \in Shown
    /\ ChangeDisplayList(n, "notMapped")

ChangeDisplayState(n, s) ==
    /\ Idle(n)
    /\ displayState[n] # Null
    /\ displayState' = [displayState EXCEPT ![n] = s]
    /\ UNCHANGED <<live, states, displays, replicateVars, emptying>>

ClearDisplays(l) ==
    /\ emptying = Null
    /\ displays' = ClearEntries(displays, l)
    /\ UNCHANGED <<live, states, displayState, replicateVars, emptying>>

(* Fault: the destructor leaves the DisplayNode on its list. *)
DestroyStateOnly(n) ==
    /\ live' = live \ {n}
    /\ states' = Unlink(states, n)
    /\ displayState' = [displayState EXCEPT ![n] = Null]
    /\ UNCHANGED <<displays, replicateVars>>

(* Fault: the destructor leaves the node on its list of states. *)
DestroyDisplayOnly(n) ==
    /\ live' = live \ {n}
    /\ displays' = Unlink(displays, n)
    /\ displayState' = [displayState EXCEPT ![n] = Null]
    /\ UNCHANGED <<states, replicateVars>>

(* ~MgrNode takes its DisplayNode along; both leave their lists.  Nothing   *)
(* tells the replicate list.                                                *)
Destroy(n) ==
    /\ live' = live \ {n}
    /\ states' = Unlink(states, n)
    /\ displays' = Unlink(displays, n)
    /\ displayState' = [displayState EXCEPT ![n] = Null]
    /\ UNCHANGED replicateVars

DeleteNode(n) ==
    /\ Idle(n)
    /\ Destroy(n)
    /\ UNCHANGED emptying

(* DeleteEntries deletes the first node until the head is alone again. *)
DeleteEntries(l) ==
    /\ emptying = Null
    /\ emptying' = l
    /\ UNCHANGED <<live, states, displays, displayState, replicateVars>>

DeleteFirst ==
    /\ emptying # Null
    /\ LET first == states.next[emptying]
       IN IF first \in Nodes
          THEN Destroy(first) /\ UNCHANGED emptying
          ELSE /\ emptying' = Null
               /\ UNCHANGED <<live, states, displays, displayState, replicateVars>>

(* AppendNode writes through the tail: an entry added after a freed one is  *)
(* not reached from the head.                                               *)
ReplicateCmdList(n) ==
    /\ Idle(n)
    /\ n \notin ToSet(replicates)
    /\ replicates' = IF replicates # <<>> /\ tailFreed THEN replicates ELSE Append(replicates, n)
    /\ tailFreed' = (replicates # <<>> /\ tailFreed)
    /\ UNCHANGED <<live, states, displays, displayState, emptying>>

(* Remove frees the first entry of the node and leaves tail as it is. *)
RemoveReplicate(n) ==
    /\ emptying = Null
    /\ n \in ToSet(replicates)
    /\ LET at == CHOOSE i \in DOMAIN replicates :
                     replicates[i] = n /\ \A j \in 1..(i - 1) : replicates[j] # n
       IN /\ replicates' = RemoveAt(replicates, at)
          /\ tailFreed' = (tailFreed \/ at = Len(replicates))
    /\ UNCHANGED <<live, states, displays, displayState, emptying>>

ClearReplicateEntries ==
    /\ emptying = Null
    /\ replicates # <<>>
    /\ replicates' = <<>>
    /\ tailFreed' = TRUE
    /\ UNCHANGED <<live, states, displays, displayState, emptying>>

StateStep ==
    \/ \E n \in Nodes :
        \/ \E l \in StateLists : ChangeStateList(n, l)
        \/ \E e \in Nodes \cup StateLists : InsertState(n, e)
        \/ RemoveState(n)
    \/ \E l \in StateLists : ClearStates(l)

DisplayStep ==
    \/ \E n \in Nodes :
        \/ \E l \in Shown : ShowCmdList(n, l)
        \/ CloseCmdList(n)
        \/ \E s \in DisplayStates : ChangeDisplayState(n, s)
    \/ \E l \in DisplayLists : ClearDisplays(l)

LifeStep ==
    \/ \E n \in Nodes : NewNode(n) \/ DeleteNode(n)
    \/ \E l \in StateLists : DeleteEntries(l)
    \/ DeleteFirst

ReplicateStep ==
    \/ \E n \in Nodes : ReplicateCmdList(n) \/ RemoveReplicate(n)
    \/ ClearReplicateEntries

Next == StateStep \/ DisplayStep \/ LifeStep \/ ReplicateStep

(* The loop of DeleteEntries runs to its end. *)
Spec == Init /\ [][Next]_vars /\ WF_vars(DeleteFirst)

-----------------------------------------------------------------------------
(* A node taken from any place of any list, put next to any other, cleared  *)
(* or destroyed leaves every list a ring: links agree both ways, no ring    *)
(* runs into another, and a node with links is on a list.                   *)
ListsWellLinked == WellLinked(states, StateLists) /\ WellLinked(displays, DisplayLists)

(* A node that was destroyed, by its owner or with its whole list, is on no *)
(* list, and neither is the DisplayNode it took along.                      *)
DestroyedIsOffLists ==
    \A n \in Nodes : /\ n \notin live => ~Linked(states, n)
                     /\ displayState[n] = Null => ~Linked(displays, n)
                     /\ n \notin live => displayState[n] = Null

(* The nodes of a list, by the links from its head until they are back. *)
Forward(h, hd) ==
    LET reached[i \in Nat] == IF i = 0 THEN hd ELSE h.next[reached[i - 1]]
        back == CHOOSE k \in 1..Cardinality(Cells(h)) :
                    reached[k] = hd /\ \A i \in 1..(k - 1) : reached[i] # hd
    IN [i \in 1..(back - 1) |-> reached[i]]

Orders == [l \in StateLists \cup DisplayLists |->
               IF l \in StateLists THEN Forward(states, l) ELSE Forward(displays, l)]

Lists == INSTANCE CommandLists WITH order <- Orders

(* Walking a list from its head finds the sequence the commands have built, *)
(* and each command moves no node but its own.                              *)
KeepsOrder == Lists!Spec

(* Deleting the entries of a list ends, and then the list is empty. *)
DeletingEnds ==
    \A l \in StateLists : [](emptying = l => <>(emptying = Null /\ Forward(states, l) = <<>>))
===============================================================================
