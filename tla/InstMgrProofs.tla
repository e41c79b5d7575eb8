----------------------------- MODULE InstMgrProofs -----------------------------
(***************************************************************************)
(* Proofs about InstMgr, for a client that neither enters an instance with *)
(* id 0 again nor lets the ids run up to INT_MAX.  The invariants of the   *)
(* runs are inductive together: an entry's index, its node, its instance   *)
(* and the instance's id are one chain, and the map closes it to a circle. *)
(***************************************************************************)
EXTENDS InstMgr, TLAPS

Usual == Client = {}

Inv == TypeOK /\ SlotsExact /\ OneNodePerInstance /\ MapExact /\ CounterAhead

USE PointersAssumption, SizesAssumption

(* A node is in one slot only, and slots hold nodes.                       *)
LEMMA SlotFacts ==
    ASSUME Inv, NEW k \in Slots
    PROVE  /\ buf[k] \in allocated /\ buf[k] \in Nodes /\ buf[k] # NoNode
           /\ Entry(k) \in alive /\ Entry(k) \in Instances
           /\ Entry(k) # NoInstance /\ Entry(k) \in Listed
           /\ k \in 0..(bufsize - 1) /\ k \in Int
           /\ \A j \in Slots : buf[j] = buf[k] => j = k
  <1>1. buf[k] \in allocated /\ Entry(k) \in alive /\ node[buf[k]].arrayIndex = k
    BY DEF Inv, SlotsExact
  <1>2. buf[k] \in Nodes /\ Entry(k) \in Instances
    BY <1>1 DEF Inv, TypeOK
  <1>3. \A j \in Slots : buf[j] = buf[k] => j = k
    BY <1>1 DEF Inv, SlotsExact
  <1>4. k \in 0..(bufsize - 1) /\ k \in Int
    BY DEF Slots, Inv, TypeOK
  <1> QED  BY <1>1, <1>2, <1>3, <1>4 DEF Listed

(* Making room for slot i keeps every entry, and makes the slot usable.    *)
LEMMA CheckedFacts ==
    ASSUME Inv, NEW i \in Nat
    PROVE  /\ Size(i) \in Nat \ {0} /\ Size(i) > i /\ Size(i) >= bufsize
           /\ Checked(i) \in [0..(Size(i) - 1) -> Nodes \cup {NoNode}]
           /\ \A k \in Slots : Checked(i)[k] = buf[k]
  <1>1. bufsize \in Nat \ {0} /\ count \in Nat /\ count <= bufsize
        /\ buf \in [0..(bufsize - 1) -> Nodes \cup {NoNode}]
    BY DEF Inv, TypeOK
  <1>2. Size(i) \in Nat \ {0} /\ Size(i) > i /\ Size(i) >= bufsize
    BY <1>1 DEF Size
  <1>3. CASE Size(i) > bufsize
    <2>1. Checked(i) = [k \in 0..(Size(i) - 1) |-> IF k \in Slots THEN buf[k] ELSE NoNode]
      BY <1>3 DEF Checked
    <2>2. \A k \in Slots : k \in 0..(Size(i) - 1) /\ buf[k] \in Nodes \cup {NoNode}
      BY <1>1, <1>2 DEF Slots
    <2> QED  BY <1>2, <2>1, <2>2
  <1>4. CASE ~(Size(i) > bufsize)
    <2>1. Size(i) = bufsize
      BY <1>1, <1>2, <1>4
    <2> QED  BY <1>1, <1>2, <1>4, <2>1 DEF Checked
  <1> QED  BY <1>3, <1>4

(* An id the map does not know belongs to no listed instance.              *)
LEMMA UnknownIds ==
    ASSUME Inv, NEW id \in FileIds, FindFileId(id) = NoNode, NEW k \in Slots
    PROVE  fileId[Entry(k)] # id
  BY SlotFacts DEF Inv, MapExact

(* An instance enters with an id that is not in use.                       *)
LEMMA EnterInv ==
    ASSUME Inv, NEW se \in alive, se \notin Listed,
           NEW id \in FileIds, FindFileId(id) = NoNode,
           NEW max \in FileIds, maxFileId <= max,
           Enter(se, id, max)
    PROVE  Inv' /\ Table!Enter(se, id)
  <1>0. TypeOK /\ count \in Nat
    BY DEF Inv, TypeOK
  <1>c. PICK c \in Nat : c = count
    BY <1>0
  <1>1. PICK n \in Nodes \ allocated :
           /\ allocated' = allocated \cup {n}
           /\ node' = [node EXCEPT ![n] = MgrNode(se, c)]
           /\ buf' = [Checked(c) EXCEPT ![c] = n]
           /\ sortedMaster' = [sortedMaster EXCEPT ![id] = n]
    BY <1>c DEF Enter
  <1>2. /\ fileId' = [fileId EXCEPT ![se] = id]
        /\ maxFileId' = Raised(max, id)
        /\ bufsize' = Size(c) /\ count' = c + 1
        /\ alive' = alive /\ ownsInstances' = ownsInstances
    BY <1>c DEF Enter
  <1>3. n # NoNode /\ se \in Instances
    BY <1>0 DEF TypeOK
  <1>4. Slots' = Slots \cup {c} /\ c \notin Slots
    BY <1>c, <1>2 DEF Slots
  <1>5. /\ buf' \in [0..(bufsize' - 1) -> Nodes \cup {NoNode}]
        /\ buf'[c] = n /\ \A k \in Slots : buf'[k] = buf[k]
        /\ bufsize' \in Nat \ {0} /\ count' <= bufsize'
    <2>1. /\ Size(c) \in Nat \ {0} /\ Size(c) > c
          /\ Checked(c) \in [0..(Size(c) - 1) -> Nodes \cup {NoNode}]
          /\ \A k \in Slots : Checked(c)[k] = buf[k]
      BY CheckedFacts
    <2>2. c \in 0..(Size(c) - 1) /\ \A k \in Slots : k \in 0..(Size(c) - 1)
      BY <1>c, <2>1 DEF Slots
    <2> QED  BY <1>1, <1>2, <1>4, <2>1, <2>2
  <1>6. \A k \in Slots : node'[buf'[k]] = node[buf[k]] /\ buf'[k] # n
    BY <1>0, <1>1, <1>5, SlotFacts DEF TypeOK
  <1>7. node'[n].se = se /\ node'[n].arrayIndex = c
    BY <1>0, <1>1 DEF TypeOK, MgrNode
  <1>8. Entry(c)' = se /\ \A k \in Slots : Entry(k)' = Entry(k) /\ Entry(k) # se
    <2>1. \A k \in Slots : Entry(k) # se
      BY DEF Listed
    <2> QED  BY <1>2, <1>5, <1>6, <1>7, <2>1 DEF Entry
  <1>9. fileId'[se] = id /\ \A k \in Slots : fileId'[Entry(k)] = fileId[Entry(k)]
    <2>1. fileId \in [Instances -> FileIds]
      BY <1>0 DEF TypeOK
    <2>2. \A k \in Slots : Entry(k) \in Instances /\ Entry(k) # se
      BY <1>8, SlotFacts
    <2> QED  BY <1>2, <1>3, <2>1, <2>2
  <1>10. TypeOK'
    <2>1. node' \in [Nodes -> [se : Instances \cup {NoInstance}, arrayIndex : Int]]
      BY <1>0, <1>1, <1>3 DEF TypeOK, MgrNode
    <2>2. maxFileId' \in FileIds
      BY <1>2 DEF Raised, FileIds
    <2>3. /\ alive' \subseteq Instances /\ fileId' \in [Instances -> FileIds]
          /\ allocated' \subseteq Nodes
          /\ sortedMaster' \in [FileIds -> Nodes \cup {NoNode}]
          /\ ownsInstances' \in BOOLEAN
      BY <1>0, <1>1, <1>2 DEF TypeOK
    <2> QED  BY <1>0, <1>2, <1>5, <2>1, <2>2, <2>3 DEF TypeOK
  <1>11. SlotsExact'
    <2>1. ASSUME NEW k \in Slots
          PROVE  /\ buf'[k] \in allocated' /\ Entry(k)' \in alive'
                 /\ node'[buf'[k]].arrayIndex = k
      BY <1>1, <1>2, <1>5, <1>6, <1>8 DEF Inv, SlotsExact
    <2> QED  BY <1>1, <1>2, <1>4, <1>5, <1>7, <1>8, <2>1 DEF SlotsExact
  <1>12. OneNodePerInstance'
    BY <1>4, <1>8 DEF Inv, OneNodePerInstance
  <1>13. MapExact'
    <2>1. \A k \in Slots : fileId[Entry(k)] # id
      BY UnknownIds
    <2>2. sortedMaster'[id] = n
          /\ \A i \in FileIds \ {id} : sortedMaster'[i] = sortedMaster[i]
      <3>1. sortedMaster \in [FileIds -> Nodes \cup {NoNode}]
        BY <1>0 DEF TypeOK
      <3> QED  BY <1>1, <3>1
    <2>3. ASSUME NEW k \in Slots
          PROVE  sortedMaster'[fileId'[Entry(k)']] = buf'[k]
      <3>1. fileId[Entry(k)] \in FileIds \ {id}
        BY <1>0, <2>1, SlotFacts DEF TypeOK
      <3>2. sortedMaster[fileId[Entry(k)]] = buf[k]
        BY DEF Inv, MapExact, FindFileId
      <3> QED  BY <1>5, <1>8, <1>9, <2>2, <3>1, <3>2
    <2>4. sortedMaster'[fileId'[Entry(c)']] = buf'[c]
      BY <1>5, <1>8, <1>9, <2>2
    <2>5. ASSUME NEW i \in FileIds, sortedMaster'[i] # NoNode
          PROVE  \E k \in Slots' : buf'[k] = sortedMaster'[i] /\ fileId'[Entry(k)'] = i
      <3>1. CASE i = id
        BY <1>4, <1>5, <1>8, <1>9, <2>2, <3>1
      <3>2. CASE i # id
        <4>1. sortedMaster[i] # NoNode /\ sortedMaster'[i] = sortedMaster[i]
          BY <2>2, <2>5, <3>2
        <4>2. PICK k \in Slots : buf[k] = sortedMaster[i] /\ fileId[Entry(k)] = i
          BY <4>1 DEF Inv, MapExact, FindFileId
        <4> QED  BY <1>4, <1>5, <1>8, <1>9, <4>1, <4>2
      <3> QED  BY <3>1, <3>2
    <2> QED  BY <1>4, <2>3, <2>4, <2>5 DEF MapExact, FindFileId
  <1>14. CounterAhead'
    <2>1. maxFileId' \in Int /\ maxFileId' >= id /\ maxFileId' >= maxFileId
          /\ maxFileId \in Int
      BY <1>0, <1>2 DEF Raised, FileIds, TypeOK
    <2>2. \A k \in Slots : fileId[Entry(k)] \in Int /\ fileId[Entry(k)] <= maxFileId
      BY <1>0, SlotFacts DEF Inv, CounterAhead, TypeOK, FileIds
    <2>3. ASSUME NEW k \in Slots PROVE fileId'[Entry(k)'] <= maxFileId'
      BY <1>8, <1>9, <2>1, <2>2
    <2> QED  BY <1>4, <1>8, <1>9, <2>1, <2>3 DEF CounterAhead
  <1>15. Table!Enter(se, id)
    <2> DEFINE at == [k \in Slots |-> Entry(k)]
               Number(x) == IF x \in Listed THEN fileId[x] ELSE IntMax + 1
               number == [x \in Instances |-> Number(x)]
    <2>1. Listed' = Listed \cup {se}
      BY <1>4, <1>8 DEF Listed
    <2>2. at' = [k \in 0..c |-> IF k = c THEN se ELSE at[k]]
      <3>1. Slots' = 0..c /\ \A k \in 0..c : k # c => k \in Slots
        BY <1>c, <1>2 DEF Slots
      <3>2. \A k \in 0..c : Entry(k)' = IF k = c THEN se ELSE at[k]
        BY <1>8, <3>1
      <3> QED  BY <3>1, <3>2
    <2>3. number' = [number EXCEPT ![se] = id]
      <3>1. \A x \in Listed : fileId'[x] = fileId[x]
        BY <1>9 DEF Listed
      <3>2. \A x \in Instances : Number(x)' = IF x = se THEN id ELSE Number(x)
        BY <1>9, <2>1, <3>1
      <3> QED  BY <1>3, <3>2
    <2>4. \A k \in Slots : at[k] # se /\ number[at[k]] # id
      <3>1. \A k \in Slots : fileId[Entry(k)] # id
        BY UnknownIds
      <3> QED  BY <1>8, <3>1, SlotFacts
    <2>5. Table!Places = Slots
      BY DEF Table!Places, Slots
    <2>6. ~Table!In(se) /\ id \notin Table!Used
      BY <2>4, <2>5 DEF Table!In, Table!Used
    <2> QED  BY <1>c, <1>2, <2>2, <2>3, <2>6 DEF Table!Enter
  <1> QED  BY <1>10, <1>11, <1>12, <1>13, <1>14, <1>15 DEF Inv

(* A node and its instance leave, the entries above move down.             *)
LEMMA DeleteInv ==
    ASSUME Inv, NEW p \in Slots, Delete(buf[p])
    PROVE  Inv' /\ Table!Leave(p)
  <1> DEFINE n == buf[p]
             se == Entry(p)
             Old(k) == IF k < p THEN k ELSE k + 1
  <1>0. TypeOK /\ count \in Nat /\ p \in Int /\ 0 <= p /\ p < count
    BY DEF Inv, TypeOK, Slots
  <1>1. /\ node[n].arrayIndex = p /\ node[n].se = se
        /\ n \in allocated /\ n \in Nodes /\ se \in alive /\ se \in Instances
    BY SlotFacts DEF Inv, SlotsExact, Entry
  <1>2. /\ sortedMaster' = Erased(n)
        /\ buf' = Removed(p) /\ count' = count - 1
        /\ node' = [Reindexed(p) EXCEPT ![n] = FreeNode]
        /\ allocated' = allocated \ {n}
        /\ alive' = alive \ {se}
        /\ fileId' = [fileId EXCEPT ![se] = 0]
        /\ bufsize' = bufsize /\ maxFileId' = maxFileId
        /\ ownsInstances' = ownsInstances
    BY <1>1 DEF Delete
  <1>3. Slots' = 0..(count - 2)
    BY <1>0, <1>2 DEF Slots
  <1>4. \A k \in Slots' : /\ k \in Int /\ Old(k) \in Slots /\ Old(k) # p
                          /\ buf'[k] = buf[Old(k)]
    <2>1. SUFFICES ASSUME NEW k \in 0..(count - 2)
                   PROVE  /\ k \in Int /\ Old(k) \in Slots /\ Old(k) # p
                          /\ buf'[k] = buf[Old(k)]
      BY <1>3
    <2>2. k \in 0..(bufsize - 1) /\ k # count - 1
      BY <1>0 DEF TypeOK
    <2>3. k \in p..(count - 2) <=> ~(k < p)
      BY <1>0
    <2>4. buf'[k] = IF k \in p..(count - 2) THEN buf[k + 1] ELSE buf[k]
      BY <1>2, <2>2 DEF Removed
    <2> QED  BY <1>0, <2>3, <2>4 DEF Slots
  <1>5. \A k \in Slots' : /\ node'[buf'[k]].se = node[buf[Old(k)]].se
                          /\ node'[buf'[k]].arrayIndex = k
                          /\ buf'[k] # n
    <2> SUFFICES ASSUME NEW k \in Slots'
                 PROVE  /\ node'[buf'[k]].se = node[buf[Old(k)]].se
                        /\ node'[buf'[k]].arrayIndex = k
                        /\ buf'[k] # n
      OBVIOUS
    <2> DEFINE m == buf[Old(k)]
    <2>1. Old(k) \in Slots /\ buf'[k] = m /\ m # n /\ m \in Nodes
          /\ node[m].arrayIndex = Old(k) /\ k \in Int
      BY <1>4, SlotFacts DEF Inv, SlotsExact
    <2>2. node'[m] = Reindexed(p)[m]
      BY <1>2, <2>1 DEF Reindexed
    <2>3. CASE k < p
      <3>1. ~\E j \in (p + 1)..(count - 1) : buf[j] = m
        BY <1>0, <2>1, <2>3, SlotFacts DEF Slots
      <3> QED  BY <2>1, <2>2, <2>3, <3>1 DEF Reindexed
    <2>4. CASE ~(k < p)
      <3>1. k + 1 \in (p + 1)..(count - 1) /\ buf[k + 1] = m
        BY <1>0, <1>3, <2>1, <2>4
      <3>2. \A j \in (p + 1)..(count - 1) : buf[j] = m => j = k + 1
        BY <1>0, <2>1, <2>4, SlotFacts DEF Slots
      <3>3. (CHOOSE j \in (p + 1)..(count - 1) : buf[j] = m) = k + 1
        BY <3>1, <3>2
      <3>4. Reindexed(p)[m] = MgrNode(node[m].se, (k + 1) - 1)
        BY <2>1, <3>1, <3>3 DEF Reindexed
      <3> QED  BY <2>1, <2>2, <3>4 DEF MgrNode
    <2> QED  BY <2>1, <2>3, <2>4
  <1>6. \A k \in Slots' : /\ Entry(k)' = Entry(Old(k)) /\ Entry(k)' # se
                          /\ Entry(k)' \in Instances /\ Entry(k)' \in alive
    BY <1>4, <1>5, SlotFacts DEF Entry, Inv, OneNodePerInstance
  <1>7. \A k \in Slots' : fileId'[Entry(k)'] = fileId[Entry(Old(k))]
    <2>1. fileId \in [Instances -> FileIds]
      BY <1>0 DEF TypeOK
    <2> QED  BY <1>2, <1>6, <2>1
  <1>8. TypeOK'
    <2>1. buf' \in [0..(bufsize' - 1) -> Nodes \cup {NoNode}]
      BY <1>0, <1>2 DEF Removed, TypeOK
    <2>2. node' \in [Nodes -> [se : Instances \cup {NoInstance}, arrayIndex : Int]]
      <3> DEFINE T == [se : Instances \cup {NoInstance}, arrayIndex : Int]
      <3>1. node \in [Nodes -> T] /\ \A m \in Nodes : node[m].se \in Instances \cup {NoInstance}
        BY <1>0 DEF TypeOK
      <3>2. \A x \in Instances \cup {NoInstance}, i \in Int : MgrNode(x, i) \in T
        BY DEF MgrNode
      <3>3. FreeNode \in T
        BY DEF FreeNode
      <3> HIDE DEF T
      <3>4. ASSUME NEW m \in Nodes PROVE Reindexed(p)[m] \in T
        <4>1. CASE \E k \in (p + 1)..(count - 1) : buf[k] = m
          <5>1. PICK i \in (p + 1)..(count - 1) :
                    i = CHOOSE k \in (p + 1)..(count - 1) : buf[k] = m
            BY <4>1
          <5>2. Reindexed(p)[m] = MgrNode(node[m].se, i - 1) /\ i - 1 \in Int
            BY <1>0, <4>1, <5>1 DEF Reindexed
          <5> QED  BY <3>1, <3>2, <5>2
        <4>2. CASE ~\E k \in (p + 1)..(count - 1) : buf[k] = m
          BY <3>1, <4>2 DEF Reindexed
        <4> QED  BY <4>1, <4>2
      <3>5. Reindexed(p) \in [Nodes -> T]
        <4>1. Reindexed(p) = [m \in Nodes |-> Reindexed(p)[m]]
          BY DEF Reindexed
        <4> QED  BY <3>4, <4>1
      <3>6. node' \in [Nodes -> T]
        BY <1>2, <3>3, <3>5
      <3> QED  BY <3>6 DEF T
    <2>3. sortedMaster' \in [FileIds -> Nodes \cup {NoNode}]
      BY <1>0, <1>2 DEF Erased, TypeOK
    <2>4. fileId' \in [Instances -> FileIds]
      <3>1. 0 \in FileIds
        BY DEF FileIds
      <3> QED  BY <1>0, <1>2, <3>1 DEF TypeOK
    <2> QED  BY <1>0, <1>2, <2>1, <2>2, <2>3, <2>4 DEF TypeOK
  <1>9. SlotsExact'
    BY <1>2, <1>4, <1>5, <1>6, SlotFacts DEF SlotsExact
  <1>10. OneNodePerInstance'
    <2>1. ASSUME NEW j \in Slots', NEW k \in Slots', Entry(j)' = Entry(k)'
          PROVE  j = k
      <3>1. Old(j) = Old(k)
        BY <1>4, <1>6, <2>1 DEF Inv, OneNodePerInstance
      <3> QED  BY <1>0, <1>4, <3>1
    <2> QED  BY <2>1 DEF OneNodePerInstance
  <1>11. MapExact'
    <2>1. sortedMaster \in [FileIds -> Nodes \cup {NoNode}]
          /\ fileId \in [Instances -> FileIds]
      BY <1>0 DEF TypeOK
    <2>2. sortedMaster'[fileId[se]] = NoNode
          /\ \A i \in FileIds \ {fileId[se]} : sortedMaster'[i] = sortedMaster[i]
      BY <1>1, <1>2, <2>1 DEF Erased
    <2>3. ASSUME NEW k \in Slots'
          PROVE  sortedMaster'[fileId'[Entry(k)']] = buf'[k]
      <3>1. Old(k) \in Slots /\ buf'[k] = buf[Old(k)] /\ buf[Old(k)] # n
            /\ fileId'[Entry(k)'] = fileId[Entry(Old(k))]
        BY <1>4, <1>5, <1>7
      <3>2. sortedMaster[fileId[Entry(Old(k))]] = buf[Old(k)]
            /\ sortedMaster[fileId[se]] = n
        BY <3>1 DEF Inv, MapExact, FindFileId
      <3>3. fileId[Entry(Old(k))] \in FileIds \ {fileId[se]}
        BY <2>1, <3>1, <3>2, SlotFacts
      <3> QED  BY <2>2, <3>1, <3>2, <3>3
    <2>4. ASSUME NEW i \in FileIds, sortedMaster'[i] # NoNode
          PROVE  \E k \in Slots' : buf'[k] = sortedMaster'[i] /\ fileId'[Entry(k)'] = i
      <3>1. i # fileId[se] /\ sortedMaster'[i] = sortedMaster[i]
        BY <2>2, <2>4
      <3>2. PICK j \in Slots : buf[j] = sortedMaster[i] /\ fileId[Entry(j)] = i
        BY <2>4, <3>1 DEF Inv, MapExact, FindFileId
      <3> DEFINE k == IF j < p THEN j ELSE j - 1
      <3>3. j # p
        BY <3>1, <3>2
      <3>4. k \in Slots' /\ Old(k) = j
        BY <1>0, <1>2, <3>3 DEF Slots
      <3>5. buf'[k] = sortedMaster'[i] /\ fileId'[Entry(k)'] = i
        BY <1>4, <1>7, <3>1, <3>2, <3>4
      <3> QED  BY <3>4, <3>5
    <2> QED  BY <2>3, <2>4 DEF MapExact, FindFileId
  <1>12. CounterAhead'
    BY <1>2, <1>4, <1>7 DEF Inv, CounterAhead
  <1>13. Table!Leave(p)
    <2> DEFINE at == [k \in Slots |-> Entry(k)]
               Number(x) == IF x \in Listed THEN fileId[x] ELSE IntMax + 1
               number == [x \in Instances |-> Number(x)]
    <2>1. Listed' = Listed \ {se}
      <3>1. ASSUME NEW j \in Slots, Entry(j) # se PROVE Entry(j) \in Listed'
        <4> DEFINE k == IF j < p THEN j ELSE j - 1
        <4>1. k \in Slots' /\ Old(k) = j
          BY <1>0, <1>2, <3>1 DEF Slots
        <4> QED  BY <1>6, <4>1 DEF Listed
      <3>2. \A k \in Slots' : Entry(k)' \in Listed \ {se}
        BY <1>4, <1>6 DEF Listed
      <3> QED  BY <3>1, <3>2 DEF Listed
    <2>2. at' = [k \in 0..(count - 2) |-> IF k < p THEN at[k] ELSE at[k + 1]]
      <3>1. \A k \in 0..(count - 2) : Entry(k)' = IF k < p THEN at[k] ELSE at[k + 1]
        BY <1>3, <1>4, <1>6
      <3> QED  BY <1>3, <3>1
    <2>3. number' = [number EXCEPT ![at[p]] = IntMax + 1]
      <3>1. fileId \in [Instances -> FileIds]
        BY <1>0 DEF TypeOK
      <3>2. \A x \in Instances : Number(x)' = IF x = se THEN IntMax + 1 ELSE Number(x)
        BY <1>2, <2>1, <3>1
      <3> QED  BY <1>1, <3>2
    <2> QED  BY <1>2, <2>2, <2>3 DEF Table!Leave
  <1> QED  BY <1>8, <1>9, <1>10, <1>11, <1>12, <1>13 DEF Inv

(* A step that leaves the list, its nodes and its ids as they are.         *)
LEMMA SameListInv ==
    ASSUME Inv, TypeOK', count' = count, \A k \in Slots : buf'[k] = buf[k],
           UNCHANGED <<nodes, sortedMaster>>, maxFileId <= maxFileId',
           Listed \subseteq alive',
           \A se \in Listed : fileId'[se] = fileId[se]
    PROVE  Inv' /\ UNCHANGED Table!vars
  <1>1. Slots' = Slots
    BY DEF Slots
  <1>2. \A k \in Slots : /\ Entry(k)' = Entry(k) /\ Entry(k) \in Listed
                         /\ fileId'[Entry(k)'] = fileId[Entry(k)]
    BY DEF Entry, Listed, nodes
  <1>3. Listed' = Listed
    BY <1>1, <1>2 DEF Listed
  <1>4. SlotsExact'
    BY <1>1, <1>2 DEF Inv, SlotsExact, nodes
  <1>5. OneNodePerInstance'
    BY <1>1, <1>2 DEF Inv, OneNodePerInstance
  <1>6. MapExact'
    BY <1>1, <1>2 DEF Inv, MapExact, FindFileId
  <1>7. CounterAhead'
    <2>1. maxFileId \in Int /\ maxFileId' \in Int
      BY DEF Inv, TypeOK, FileIds
    <2>2. \A k \in Slots : fileId[Entry(k)] \in Int /\ fileId[Entry(k)] <= maxFileId
      BY SlotFacts DEF Inv, CounterAhead, TypeOK, FileIds
    <2> QED  BY <1>1, <1>2, <2>1, <2>2 DEF CounterAhead
  <1>8. UNCHANGED Table!vars
    BY <1>1, <1>2, <1>3 DEF Table!vars
  <1> QED  BY <1>4, <1>5, <1>6, <1>7, <1>8 DEF Inv

(* A step that empties list and map.                                       *)
LEMMA EmptyInv ==
    ASSUME TypeOK', count' = 0, sortedMaster' = EmptyMap
    PROVE  Inv' /\ Table!Empty
  <1>1. Slots' = {} /\ Listed' = {}
    BY DEF Slots, Listed
  <1>2. MapExact'
    BY <1>1 DEF MapExact, FindFileId, EmptyMap
  <1>3. Table!Empty
    BY <1>1 DEF Table!Empty, Table!Places, Slots
  <1> QED  BY <1>1, <1>2, <1>3 DEF Inv, SlotsExact, OneNodePerInstance, CounterAhead

(* The next id is free.                                                    *)
LEMMA NextIdFree ==
    ASSUME Inv, maxFileId # IntMax
    PROVE  /\ Increment(maxFileId) \in FileIds
           /\ maxFileId <= Increment(maxFileId)
           /\ FindFileId(Increment(maxFileId)) = NoNode
  <1>1. maxFileId \in Int /\ Increment(maxFileId) = maxFileId + 1
        /\ Increment(maxFileId) \in FileIds
    BY DEF Inv, TypeOK, FileIds, Increment
  <1>2. \A k \in Slots : fileId[Entry(k)] \in Int /\ fileId[Entry(k)] <= maxFileId
    BY SlotFacts DEF Inv, CounterAhead, TypeOK, FileIds
  <1>3. \A k \in Slots : fileId[Entry(k)] # Increment(maxFileId)
    BY <1>1, <1>2
  <1> QED  BY <1>1, <1>3 DEF Inv, MapExact

(* Usual clients: Append finds its instance exactly if that is listed.     *)
LEMMA AppendFinds ==
    ASSUME Inv, Usual, NEW se \in Instances, MayAppend(se)
    PROVE  /\ maxFileId # IntMax
           /\ se \in Listed => IsListed(se)
           /\ IsListed(se) => fileId[se] # 0
           /\ IsFound(se) => fileId[se] # 0
  <1>1. maxFileId # IntMax /\ (fileId[se] = 0 => se \notin Listed)
    BY DEF Usual, MayAppend
  <1>2. fileId[se] = 0 => ~IsFound(se)
    BY <1>1, NextIdFree DEF IsFound, WantedId
  <1>3. ASSUME se \in Listed PROVE IsListed(se)
    <2>1. PICK k \in Slots : Entry(k) = se
      BY <1>3 DEF Listed
    <2>2. WantedId(se) = fileId[Entry(k)]
      BY <1>1, <1>3, <2>1 DEF WantedId
    <2>3. FindFileId(WantedId(se)) = buf[k] /\ buf[k] # NoNode
      BY <2>2, SlotFacts DEF Inv, MapExact
    <2> QED  BY <2>1, <2>3 DEF IsListed, IsFound, Entry
  <1> QED  BY <1>1, <1>2, <1>3 DEF IsListed

(* Deleting all entries leaves instances and nodes of the right type.      *)
LEMMA DeleteEntriesType ==
    ASSUME TypeOK, DeleteEntries
    PROVE  /\ alive' \subseteq Instances /\ fileId' \in [Instances -> FileIds]
           /\ allocated' \subseteq Nodes
           /\ node' \in [Nodes -> [se : Instances \cup {NoInstance}, arrayIndex : Int]]
  <1>1. 0 \in FileIds
    BY DEF FileIds
  <1>2. FreeNode \in [se : Instances \cup {NoInstance}, arrayIndex : Int]
    BY DEF FreeNode
  <1> QED  BY <1>1, <1>2 DEF DeleteEntries, TypeOK

LEMMA ForgetIdsType ==
    ASSUME ForgetIds
    PROVE  /\ sortedMaster' \in [FileIds -> Nodes \cup {NoNode}]
           /\ maxFileId' \in FileIds
  <1>1. -1 \in FileIds
    BY DEF FileIds
  <1> QED  BY <1>1 DEF ForgetIds, EmptyMap

LEMMA NewBufferType == NewBuffer \in [0..(DefaultSize - 1) -> Nodes \cup {NoNode}]
  BY DEF NewBuffer

-----------------------------------------------------------------------------
LEMMA InitInv == Init => Inv /\ Table!Init
  <1> SUFFICES ASSUME Init PROVE Inv /\ Table!Init
    OBVIOUS
  <1>1. Slots = {} /\ Listed = {} /\ count = 0
    BY DEF Init, Slots, Listed
  <1>2. 0 \in FileIds /\ -1 \in FileIds
    BY DEF FileIds
  <1>3. FreeNode \in [se : Instances \cup {NoInstance}, arrayIndex : Int]
    BY DEF FreeNode
  <1>4. EmptyMap \in [FileIds -> Nodes \cup {NoNode}]
    BY DEF EmptyMap
  <1>5. /\ count <= bufsize /\ bufsize \in Nat \ {0}
        /\ buf \in [0..(bufsize - 1) -> Nodes \cup {NoNode}]
    BY NewBufferType DEF Init
  <1>6. TypeOK
    BY <1>1, <1>2, <1>3, <1>4, <1>5 DEF Init, TypeOK
  <1>7. MapExact
    BY <1>1 DEF Init, MapExact, FindFileId, EmptyMap
  <1>8. Table!Init
    BY <1>1 DEF Table!Init, Table!Places, Slots
  <1> QED
    BY <1>1, <1>6, <1>7, <1>8 DEF Inv, SlotsExact, OneNodePerInstance, CounterAhead

LEMMA NextInv ==
    ASSUME Inv, Usual, [Next]_vars
    PROVE  Inv' /\ [Table!Next]_(Table!vars)
  <1>0. TypeOK
    BY DEF Inv
  <1>1. ASSUME NEW se \in Instances, Create(se)
        PROVE  Inv' /\ UNCHANGED Table!vars
    <2>1. FileNumbers \subseteq FileIds
      BY DEF FileIds
    <2>2. PICK id \in FileNumbers : alive' = alive \cup {se}
                                    /\ fileId' = [fileId EXCEPT ![se] = id]
      BY <1>1 DEF Create
    <2>3. TypeOK'
      BY <1>0, <1>1, <2>1, <2>2 DEF TypeOK, Create, nodes, array, ids
    <2>4. Listed \subseteq alive
      BY SlotFacts DEF Listed
    <2>5. \A x \in Listed : fileId'[x] = fileId[x]
      BY <1>0, <1>1, <2>2, <2>4 DEF Create, TypeOK
    <2>6. maxFileId <= maxFileId' /\ count' = count /\ buf' = buf
          /\ UNCHANGED <<nodes, sortedMaster>>
      BY <1>0, <1>1 DEF Create, TypeOK, FileIds, array, ids
    <2> QED  BY <2>2, <2>3, <2>4, <2>5, <2>6, SameListInv
  <1>2. ASSUME NEW se \in Instances, Dispose(se)
        PROVE  Inv' /\ UNCHANGED Table!vars
    <2>1. 0 \in FileIds
      BY DEF FileIds
    <2>2. TypeOK'
      BY <1>0, <1>2, <2>1 DEF TypeOK, Dispose, nodes, array, ids
    <2>3. Listed \subseteq alive'
      BY <1>2, SlotFacts DEF Listed, Dispose
    <2>4. \A x \in Listed : fileId'[x] = fileId[x]
      BY <1>0, <1>2, <2>3 DEF Dispose, TypeOK
    <2>5. maxFileId <= maxFileId' /\ count' = count /\ buf' = buf
          /\ UNCHANGED <<nodes, sortedMaster>>
      BY <1>0, <1>2 DEF Dispose, TypeOK, FileIds, array, ids
    <2> QED  BY <2>2, <2>3, <2>4, <2>5, SameListInv
  <1>3. ASSUME NEW se \in Instances, AppendListed(se)
        PROVE  Inv' /\ UNCHANGED Table!vars
    <2>1. fileId[se] # 0
      BY <1>3, AppendFinds DEF AppendListed
    <2>2. fileId' = fileId /\ maxFileId' = maxFileId
      BY <1>0, <1>3, <2>1 DEF AppendListed, WantedId, MaxWanted, TypeOK
    <2>3. TypeOK'
      BY <1>0, <1>3, <2>2 DEF TypeOK, AppendListed, nodes, array
    <2>4. Listed \subseteq alive'
      BY <1>3, SlotFacts DEF Listed, AppendListed
    <2>5. maxFileId <= maxFileId' /\ count' = count /\ buf' = buf
          /\ UNCHANGED <<nodes, sortedMaster>>
      BY <1>0, <1>3, <2>2 DEF AppendListed, TypeOK, FileIds, array
    <2> QED  BY <2>2, <2>3, <2>4, <2>5, SameListInv
  <1>4. ASSUME NEW se \in Instances, AppendRenumbered(se)
        PROVE  Inv' /\ Table!Next
    <2>1. MayAppend(se) /\ IsFound(se) /\ ~IsListed(se) /\ se \in alive
      BY <1>4 DEF AppendRenumbered, MayAppend
    <2>2. fileId[se] # 0 /\ se \notin Listed /\ maxFileId # IntMax
      BY <2>1, AppendFinds
    <2> DEFINE next == Increment(maxFileId)
    <2>3. Enter(se, next, next)
      BY <1>4, <2>2 DEF AppendRenumbered, MaxWanted
    <2>4. next \in FileIds /\ maxFileId <= next /\ FindFileId(next) = NoNode
      BY <2>2, NextIdFree
    <2>5. PICK id \in FileIds : id = next
      BY <2>4
    <2>6. Inv' /\ Table!Enter(se, id)
      BY <2>1, <2>2, <2>3, <2>4, <2>5, EnterInv
    <2> QED  BY <2>6 DEF Table!Next
  <1>5. ASSUME NEW se \in Instances, AppendNumbered(se)
        PROVE  Inv' /\ Table!Next
    <2>1. MayAppend(se) /\ ~IsFound(se) /\ se \in alive
          /\ Enter(se, WantedId(se), MaxWanted(se))
      BY <1>5 DEF AppendNumbered, MayAppend
    <2>2. se \notin Listed /\ maxFileId # IntMax
      BY <2>1, AppendFinds DEF IsListed
    <2>3. FindFileId(WantedId(se)) = NoNode
      BY <2>1 DEF IsFound
    <2>4. WantedId(se) \in FileIds /\ MaxWanted(se) \in FileIds
          /\ maxFileId <= MaxWanted(se)
      <3>1. CASE fileId[se] = 0
        BY <2>2, <3>1, NextIdFree DEF WantedId, MaxWanted
      <3>2. CASE fileId[se] # 0
        <4>1. WantedId(se) = fileId[se] /\ MaxWanted(se) = maxFileId
          BY <3>2 DEF WantedId, MaxWanted
        <4> QED  BY <1>0, <4>1 DEF TypeOK, FileIds
      <3> QED  BY <3>1, <3>2
    <2>5. PICK id \in FileIds, max \in FileIds :
              id = WantedId(se) /\ max = MaxWanted(se)
      BY <2>4
    <2>6. Inv' /\ Table!Enter(se, id)
      BY <2>1, <2>2, <2>3, <2>4, <2>5, EnterInv
    <2> QED  BY <2>6 DEF Table!Next
  <1>6. ASSUME NEW k \in Slots, Delete(buf[k]) PROVE Inv' /\ Table!Next
    <2>1. Inv' /\ Table!Leave(k)
      BY <1>6, DeleteInv
    <2>2. Table!Places = Slots
      BY DEF Table!Places, Slots
    <2> QED  BY <2>1, <2>2 DEF Table!Next
  <1>7. ASSUME NEW se \in Instances, DeleteInstance(se) PROVE Inv' /\ Table!Next
    <2>1. PICK k \in Slots : buf[k] = FindFileId(fileId[se])
      <3>1. fileId[se] \in FileIds
        BY <1>0, <1>7 DEF TypeOK
      <3> QED  BY <1>7, <3>1 DEF DeleteInstance, Inv, MapExact
    <2> QED  BY <1>6, <1>7, <2>1 DEF DeleteInstance
  <1>8. ASSUME NEW k \in Slots, DeleteNode(k) PROVE Inv' /\ Table!Next
    BY <1>6, <1>8 DEF DeleteNode
  <1>9. ASSUME ClearInstances PROVE Inv' /\ Table!Next
    <2>1. buf' \in [0..(bufsize' - 1) -> Nodes \cup {NoNode}]
      BY <1>0, <1>9 DEF ClearInstances, TypeOK
    <2>2. TypeOK'
      BY <1>0, <1>9, <2>1, ForgetIdsType DEF TypeOK, ClearInstances, objects, nodes
    <2> QED  BY <1>9, <2>2, EmptyInv DEF ClearInstances, ForgetIds, Table!Next
  <1>10. ASSUME DeleteInstances PROVE Inv' /\ Table!Next
    <2>1. TypeOK'
      BY <1>0, <1>10, DeleteEntriesType, ForgetIdsType DEF TypeOK, DeleteInstances
    <2> QED  BY <1>10, <2>1, EmptyInv DEF DeleteInstances, ForgetIds, Table!Next
  <1>11. ASSUME Renew PROVE Inv' /\ Table!Next
    <2>1. /\ alive' \subseteq Instances /\ fileId' \in [Instances -> FileIds]
          /\ allocated' \subseteq Nodes
          /\ node' \in [Nodes -> [se : Instances \cup {NoInstance}, arrayIndex : Int]]
      <3>1. CASE DeleteEntries
        BY <1>0, <3>1, DeleteEntriesType
      <3>2. CASE UNCHANGED <<objects, nodes>>
        BY <1>0, <3>2 DEF objects, nodes, TypeOK
      <3> QED  BY <1>11, <3>1, <3>2 DEF Renew
    <2>2. TypeOK'
      BY <1>11, <2>1, NewBufferType, ForgetIdsType DEF TypeOK, Renew
    <2> QED  BY <1>11, <2>2, EmptyInv DEF Renew, ForgetIds, Table!Next
  <1>12. ASSUME OwnsInstances PROVE Inv' /\ UNCHANGED Table!vars
    <2>1. TypeOK'
      BY <1>0, <1>12 DEF TypeOK, OwnsInstances, objects, nodes, array, ids
    <2>2. UNCHANGED vars \/ UNCHANGED <<objects, nodes, array, ids>>
      BY <1>12 DEF OwnsInstances
    <2> QED  BY <1>0, <2>1, <2>2, SlotFacts, SameListInv
             DEF vars, objects, nodes, array, ids, Listed, TypeOK, FileIds
  <1>13. ASSUME NextFileId PROVE Inv' /\ UNCHANGED Table!vars
    <2>1. maxFileId # IntMax
      BY <1>13 DEF NextFileId, Usual
    <2>2. maxFileId' \in FileIds /\ maxFileId <= maxFileId'
      BY <1>13, <2>1, NextIdFree DEF NextFileId
    <2>3. TypeOK'
      BY <1>0, <1>13, <2>2 DEF TypeOK, NextFileId, objects, nodes, array
    <2> QED  BY <1>13, <2>2, <2>3, SlotFacts, SameListInv
             DEF NextFileId, objects, array, Listed
  <1>14. ASSUME GetMgrNode PROVE Inv' /\ UNCHANGED Table!vars
    <2>1. PICK i \in Nat : buf' = Checked(i) /\ bufsize' = Size(i)
      BY <1>14 DEF GetMgrNode
    <2>2. /\ bufsize' \in Nat \ {0} /\ bufsize <= bufsize'
          /\ buf' \in [0..(bufsize' - 1) -> Nodes \cup {NoNode}]
          /\ \A k \in Slots : buf'[k] = buf[k]
      BY <2>1, CheckedFacts
    <2>3. TypeOK'
      BY <1>0, <1>14, <2>2 DEF TypeOK, GetMgrNode, objects, nodes, ids
    <2> QED  BY <1>0, <1>14, <2>2, <2>3, SlotFacts, SameListInv
             DEF GetMgrNode, objects, ids, Listed, TypeOK, FileIds
  <1>15. ASSUME UNCHANGED vars PROVE Inv' /\ UNCHANGED Table!vars
    <2>1. TypeOK'
      BY <1>0, <1>15 DEF TypeOK, vars, objects, nodes, array, ids
    <2> QED  BY <1>0, <1>15, <2>1, SlotFacts, SameListInv
             DEF vars, objects, nodes, array, ids, Listed, TypeOK, FileIds
  <1> QED
    BY <1>1, <1>2, <1>3, <1>4, <1>5, <1>7, <1>8, <1>9, <1>10, <1>11,
       <1>12, <1>13, <1>14, <1>15 DEF Next

-----------------------------------------------------------------------------
LEMMA Invariance == ASSUME Usual PROVE Spec => []Inv
  <1>1. Init => Inv
    BY InitInv
  <1>2. ASSUME Inv, [Next]_vars PROVE Inv'
    BY <1>2, NextInv
  <1> QED  BY <1>1, <1>2, PTL DEF Spec

(* Every variable keeps its type; the array never has more entries than    *)
(* its buffer holds (GenNodeArray::Check in gennodearray.cc).              *)
THEOREM ManagerTypeCorrect == ASSUME Usual PROVE Spec => []TypeOK
  <1>1. Inv => TypeOK
    BY DEF Inv
  <1> QED  BY <1>1, Invariance, PTL

(* Every entry of the array exists and knows its index, through every      *)
(* order of Append and Delete (MgrNodeArray::Insert and Remove).           *)
THEOREM EntriesExact == ASSUME Usual PROVE Spec => []SlotsExact
  <1>1. Inv => SlotsExact
    BY DEF Inv
  <1> QED  BY <1>1, Invariance, PTL

(* Nodes and instances correspond one to one, for a client that does not   *)
(* enter the instance with id 0 again (InstMgr::Append).                   *)
THEOREM OneToOne == ASSUME Usual PROVE Spec => []OneNodePerInstance
  <1>1. Inv => OneNodePerInstance
    BY DEF Inv
  <1> QED  BY <1>1, Invariance, PTL

(* FindFileId finds exactly the listed instances, by exactly their ids.    *)
THEOREM FindsByIdExactly == ASSUME Usual PROVE Spec => []MapExact
  <1>1. Inv => MapExact
    BY DEF Inv
  <1> QED  BY <1>1, Invariance, PTL

(* No listed instance has an id above the counter, so Append needs no look *)
(* into the map for the next one.                                          *)
THEOREM CounterIsAhead == ASSUME Usual PROVE Spec => []CounterAhead
  <1>1. Inv => CounterAhead
    BY DEF Inv
  <1> QED  BY <1>1, Invariance, PTL

(* The manager with its array, index, map and counter is an ordered table  *)
(* of numbered instances.                                                  *)
THEOREM ImplementsTable == ASSUME Usual PROVE Spec => ImplementsInstanceTable
  <1>1. Init => Table!Init
    BY InitInv
  <1>2. ASSUME Inv, [Next]_vars PROVE [Table!Next]_(Table!vars)
    BY <1>2, NextInv
  <1> QED  BY <1>1, <1>2, Invariance, PTL DEF Spec, ImplementsInstanceTable, Table!Spec
================================================================================
