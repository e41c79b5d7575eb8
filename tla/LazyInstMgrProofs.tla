--------------------------- MODULE LazyInstMgrProofs ---------------------------
(***************************************************************************)
(* Theorems about LazyInstMgr, for every set of instances and handles.     *)
(***************************************************************************)
EXTENDS LazyInstMgr, SequenceTheorems, FiniteSetTheorems, TLAPS

-----------------------------------------------------------------------------
(* The stack as a sequence over a set S of frames *)

LEMMA TopIn ==
    ASSUME NEW S, stack \in Seq(S), stack # <<>>
    PROVE  Top \in S /\ Tail(stack) \in Seq(S)
BY HeadTailProperties DEF Top

LEMMA PushOne ==
    ASSUME NEW S, NEW s \in Seq(S), NEW f \in S
    PROVE  /\ <<f>> \o s \in Seq(S)
           /\ Head(<<f>> \o s) = f /\ Tail(<<f>> \o s) = s
           /\ <<f>> \o s # <<>>
           /\ Len(<<f>> \o s) = Len(s) + 1
OBVIOUS

LEMMA OneFrame ==
    ASSUME NEW S, NEW f \in S PROVE <<f>> \in Seq(S)
OBVIOUS

LEMMA PushTwo ==
    ASSUME NEW S, NEW s \in Seq(S), NEW f \in S, NEW g \in S
    PROVE  /\ <<g, f>> \o s \in Seq(S)
           /\ Head(<<g, f>> \o s) = g /\ Tail(<<g, f>> \o s) = <<f>> \o s
           /\ <<g, f>> \o s # <<>>
           /\ Len(<<g, f>> \o s) = Len(s) + 2
OBVIOUS

LEMMA LoadTop ==
    ASSUME TypeOK, NEW pc, At("load", pc)
    PROVE  stack # <<>> /\ Top \in LoadFrame /\ Tail(stack) \in Seq(Frame)
BY TopIn DEF TypeOK, At, Frame, RefsFrame

LEMMA RefsTop ==
    ASSUME TypeOK, NEW pc, At("lazyRefs", pc)
    PROVE  stack # <<>> /\ Top \in RefsFrame /\ Tail(stack) \in Seq(Frame)
BY TopIn DEF TypeOK, At, Frame, LoadFrame

LEMMA StackType ==
    ASSUME NEW S, stack \in Seq(S), stack # <<>>
    PROVE  /\ \A f \in S : Become(f) => stack' \in Seq(S)
           /\ \A f, g \in S : Call(f, g) => stack' \in Seq(S)
           /\ \A v : Return(v) => stack' \in Seq(S)
<1>1. Tail(stack) \in Seq(S)
  BY TopIn
<1>2. ASSUME NEW f \in S, Become(f) PROVE stack' \in Seq(S)
  BY <1>1, <1>2, PushOne DEF Become
<1>3. ASSUME NEW f \in S, NEW g \in S, Call(f, g) PROVE stack' \in Seq(S)
  BY <1>1, <1>3, PushTwo DEF Call
<1>4. ASSUME NEW v, Return(v) PROVE stack' \in Seq(S)
  BY <1>1, <1>4 DEF Return
<1> QED BY <1>2, <1>3, <1>4

LEMMA NewFrames ==
    ASSUME NEW i \in Ids, NEW b \in BOOLEAN, NEW p \in BOOLEAN
    PROVE  loadInstance(i, b, p) \in LoadFrame /\ lazyRefs(i) \in RefsFrame
BY DEF loadInstance, lazyRefs, LoadFrame, RefsFrame, Start, Position

LEMMA ReadingFrame ==
    ASSUME NEW f \in LoadFrame, NEW p \in {"read", "await"}, NEW m \in BOOLEAN
    PROVE  /\ [f EXCEPT !.pc = p, !.next = @ + 1, !.misread = m] \in LoadFrame
           /\ [f EXCEPT !.next = @ + 1, !.misread = m] \in LoadFrame
<1>1. f.next + 1 \in Nat
  BY DEF LoadFrame
<1> QED BY <1>1, Zenon DEF LoadFrame

LEMMA IndexType ==
    ASSUME index \in Indexes
    PROVE  /\ \A i \in Ids : index.fwd[i] \in Seq(Ids) /\ Fwd(i) \subseteq Ids
           /\ \A i \in Ids : index.inverseAttrs[i] \subseteq SUBSET Ids
           /\ \A i \in Ids : ~Known(i) => Fwd(i) = {}
BY IndexesAssumption DEF Index, Fwd, Known

-----------------------------------------------------------------------------
(* Type correctness, action by action.  batchLoadDepth needs to know the   *)
(* phase of the loadBatch in progress to stay a natural number, live that *)
(* a loadBatch in progress was made for a handle.                          *)

Phase == /\ batchLoadDepth = IF build.phase = "load" THEN 1 ELSE 0
         /\ build.phase # "idle" => build.handle \in Handles

LEMMA LoadStepType ==
    ASSUME TypeOK, LoadStep PROVE TypeOK'
<1> USE DEF cache, loading, calls, batches
<1>1. CASE LoadCancelled
  <2>1. stack' \in Seq(Frame)
    BY <1>1, LoadTop, StackType DEF LoadCancelled, TypeOK
  <2> QED BY <1>1, <2>1 DEF LoadCancelled, TypeOK, Return
<1>2. CASE CacheHit
  <2>1. stack' \in Seq(Frame) /\ Top.id \in Ids
    BY <1>2, LoadTop, StackType DEF CacheHit, Entered, TypeOK, LoadFrame
  <2> QED BY <1>2, <2>1 DEF CacheHit, TypeOK, Return
<1>3. CASE IdTooLarge
  <2>1. stack' \in Seq(Frame)
    BY <1>3, LoadTop, StackType DEF IdTooLarge, CacheMiss, Entered, TypeOK
  <2> QED BY <1>3, <2>1 DEF IdTooLarge, TypeOK, Return
<1>4. CASE CyclicDependency
  <2>1. stack' \in Seq(Frame) /\ Start(Top.id) \in Position
    BY <1>4, LoadTop, StackType
    DEF CyclicDependency, CacheMiss, Entered, TypeOK, LoadFrame, Start, Position
  <2> QED BY <1>4, <2>1 DEF CyclicDependency, TypeOK, Return
<1>5. CASE NoPosition
  <2>1. stack' \in Seq(Frame)
    BY <1>5, LoadTop, StackType DEF NoPosition, Begin, CacheMiss, Entered, TypeOK
  <2> QED BY <1>5, <2>1 DEF NoPosition, TypeOK, Return
<1>6. CASE UnknownType
  <2>1. stack' \in Seq(Frame) /\ Start(Top.id) \in Position
    BY <1>6, LoadTop, StackType
    DEF UnknownType, Begin, CacheMiss, Entered, TypeOK, LoadFrame, Start, Position
  <2> QED BY <1>6, <2>1 DEF UnknownType, TypeOK, Return
<1>7. CASE StartRead
  <2>1. /\ stack # <<>> /\ Top \in LoadFrame
        /\ Start(Top.id) \in Position /\ Top.id \in Ids
    BY <1>7, LoadTop
    DEF StartRead, Begin, CacheMiss, Entered, LoadFrame, Start, Position
  <2>2. [Top EXCEPT !.pc = "read", !.oldPos = stream] \in Frame
    BY <2>1 DEF TypeOK, LoadFrame, Frame
  <2>3. stack' \in Seq(Frame)
    BY <1>7, <2>1, <2>2, StackType DEF StartRead, TypeOK
  <2> QED BY <1>7, <2>1, <2>3 DEF StartRead, TypeOK, Become
<1>8. CASE ReadReference
  <2>1. stack # <<>> /\ Top \in LoadFrame
    BY <1>8, LoadTop DEF ReadReference, Unread
  <2>2. stream \in Position /\ stream.rec \in Ids /\ stream.k + 1 \in Nat
    BY <1>8 DEF ReadReference, TypeOK, Position, Null
  <2>3. index.fwd[stream.rec][stream.k + 1] \in Ids
    BY <1>8, <2>2, IndexType DEF ReadReference, TypeOK, Position
  <2>4. stream' \in Position
    BY <1>8, <2>2 DEF ReadReference, Position
  <2>5. [Top EXCEPT !.pc = "await", !.next = @ + 1, !.misread = @ \/ ~InPlace] \in Frame
    <3>1. (Top.misread \/ ~InPlace) \in BOOLEAN
      BY Zenon
    <3> QED BY <2>1, <3>1, ReadingFrame, Zenon DEF Frame
  <2>6. loadInstance(index.fwd[stream.rec][stream.k + 1], TRUE, FALSE) \in Frame
    BY <2>3, NewFrames DEF Frame
  <2>7. stack' \in Seq(Frame)
    BY <1>8, <2>1, <2>5, <2>6, StackType DEF ReadReference, TypeOK
  <2> QED BY <1>8, <2>4, <2>7 DEF ReadReference, TypeOK, Call
<1>9. CASE ReadGarbage
  <2>1. stack # <<>> /\ Top \in LoadFrame
    BY <1>9, LoadTop DEF ReadGarbage, Unread
  <2>2. [Top EXCEPT !.next = @ + 1, !.misread = TRUE] \in Frame
    BY <2>1, ReadingFrame, Zenon DEF Frame
  <2>3. stack' \in Seq(Frame)
    BY <1>9, <2>1, <2>2, StackType DEF ReadGarbage, TypeOK
  <2> QED BY <1>9, <2>3 DEF ReadGarbage, TypeOK, Become
<1>10. CASE GotReference
  <2>1. stack # <<>> /\ Top \in LoadFrame
    BY <1>10, LoadTop DEF GotReference
  <2>2. [Top EXCEPT !.pc = "read",
                    !.got = IF ret = Null THEN @ ELSE @ \cup {ret}] \in Frame
    BY <2>1 DEF TypeOK, LoadFrame, Frame
  <2>3. stack' \in Seq(Frame)
    BY <1>10, <2>1, <2>2, StackType DEF GotReference, TypeOK
  <2> QED BY <1>10, <2>3 DEF GotReference, TypeOK, Become
<1>11. CASE DropPartial
  <2>1. stack' \in Seq(Frame)
    BY <1>11, LoadTop, StackType DEF DropPartial, EndRead, AllRead, TypeOK
  <2>2. Top.oldPos \in Position
    BY <1>11, LoadTop DEF DropPartial, EndRead, AllRead, LoadFrame
  <2> QED BY <1>11, <2>1, <2>2 DEF DropPartial, EndRead, TypeOK, Return
<1>12. ASSUME Insert
       PROVE  /\ stack # <<>> /\ Top \in LoadFrame /\ Top.id \in Ids
              /\ stream' \in Position /\ obj' \in [Ids -> Object]
              /\ instancesLoaded' \subseteq Ids /\ instancesLoading' \subseteq Ids
              /\ stats' \in Stats
  <2>1. stack # <<>> /\ Top \in LoadFrame
    BY <1>12, LoadTop DEF Insert, EndRead, AllRead
  <2>2. Top.id \in Ids /\ Top.oldPos \in Position /\ Top.got \subseteq Ids
        /\ Top.misread \in BOOLEAN
    BY <2>1 DEF LoadFrame
  <2>3. [NoObject EXCEPT !.refs = Top.got, !.misread = Top.misread \/ ~InPlace] \in Object
    BY <2>2 DEF NoObject, Object
  <2>4. obj' \in [Ids -> Object]
    BY <1>12, <2>3 DEF Insert, TypeOK
  <2>5. stats' \in Stats
    <3>1. /\ stats' = [stats EXCEPT !.loaded = @ + 1, !.materializations = @ + 1]
          /\ stats \in Stats
      BY <1>12 DEF Insert, TypeOK
    <3>2. stats.loaded + 1 \in Int /\ stats.materializations + 1 \in Nat
      BY <3>1 DEF Stats
    <3> QED BY <3>1, <3>2, Zenon DEF Stats
  <2>6. stream' \in Position /\ instancesLoading' \subseteq Ids
    BY <1>12, <2>2 DEF Insert, EndRead, TypeOK
  <2>7. instancesLoaded' \subseteq Ids
    BY <1>12, <2>2 DEF Insert, TypeOK
  <2> QED BY <2>1, <2>2, <2>4, <2>5, <2>6, <2>7
<1>13. CASE InsertBatchOwned
  <2>1. stack' \in Seq(Frame)
    BY <1>12, <1>13, StackType DEF InsertBatchOwned, TypeOK
  <2> QED BY <1>12, <1>13, <2>1 DEF InsertBatchOwned, Insert, TypeOK, Return
<1>14. CASE InsertPermanent
  <2>1. [Top EXCEPT !.pc = "resolve"] \in Frame /\ lazyRefs(Top.id) \in Frame
    BY <1>12, <1>14, NewFrames DEF InsertPermanent, LoadFrame, Frame
  <2>2. stack' \in Seq(Frame)
    BY <1>12, <1>14, <2>1, StackType DEF InsertPermanent, TypeOK
  <2> QED BY <1>12, <1>14, <2>2 DEF InsertPermanent, Insert, TypeOK, Call
<1>15. CASE ResolveNext
  <2>1. stack # <<>> /\ Top \in LoadFrame
    BY <1>15, LoadTop DEF ResolveNext
  <2>2. PICK i \in Top.todo :
          LET rest == [Top EXCEPT !.todo = @ \ {i}] IN
          IF i \in instancesLoaded THEN Call(rest, lazyRefs(i)) ELSE Become(rest)
    BY <1>15 DEF ResolveNext
  <2>3. [Top EXCEPT !.todo = @ \ {i}] \in Frame /\ lazyRefs(i) \in Frame
    BY <2>1, NewFrames DEF LoadFrame, Frame
  <2>4. stack' \in Seq(Frame) /\ ret' = ret
    BY <2>1, <2>2, <2>3, StackType DEF TypeOK, Call, Become
  <2> QED BY <1>15, <2>4 DEF ResolveNext, TypeOK
<1>16. CASE ResolveSwap
  <2>1. stack # <<>> /\ Top \in LoadFrame
    BY <1>16, LoadTop DEF ResolveSwap
  <2>2. [Top EXCEPT !.todo = deferredInverseInstances] \in Frame
    BY <2>1 DEF TypeOK, LoadFrame, Frame
  <2>3. stack' \in Seq(Frame)
    BY <1>16, <2>1, <2>2, StackType DEF ResolveSwap, TypeOK
  <2> QED BY <1>16, <2>3 DEF ResolveSwap, TypeOK, Become
<1>17. CASE ResolveDone
  <2>1. stack' \in Seq(Frame) /\ Top.id \in Ids
    BY <1>17, LoadTop, StackType DEF ResolveDone, TypeOK, LoadFrame
  <2> QED BY <1>17, <2>1 DEF ResolveDone, TypeOK, Return
<1> QED BY <1>1, <1>2, <1>3, <1>4, <1>5, <1>6, <1>7, <1>8, <1>9, <1>10, <1>11,
           <1>13, <1>14, <1>15, <1>16, <1>17 DEF LoadStep

(* Entering a referrer in an inverse attribute leaves objects.             *)
LEMMA EnterType ==
    ASSUME obj \in [Ids -> Object], NEW r \in Ids, Top.id \in Ids,
           Top.attr \in SUBSET Ids
    PROVE  /\ Enter(r) \in [Ids -> Object]
           /\ \A i \in Ids : Enter(r)[i].refs = obj[i].refs
           /\ \A i \in Ids : \A a \in SUBSET Ids :
                  i = Top.id /\ a = Top.attr =>
                      /\ r \in Enter(r)[i].inverse[a]
                      /\ Enter(r)[i].inverse[a] \subseteq obj[i].inverse[a] \cup {r}
           /\ \A i \in Ids : \A a \in SUBSET Ids :
                  ~(i = Top.id /\ a = Top.attr) =>
                      Enter(r)[i].inverse[a] = obj[i].inverse[a]
<1> DEFINE o == obj[Top.id]
           n == IF Top.null THEN {r} ELSE o.inverse[Top.attr] \cup {r}
           v == [o.inverse EXCEPT ![Top.attr] = n]
           w == [o EXCEPT !.aggregates = @ \cup {Top.attr}, !.inverse = v]
<1>1. /\ o \in Object /\ o.inverse \in [SUBSET Ids -> SUBSET Ids]
      /\ o.aggregates \cup {Top.attr} \in SUBSET SUBSET Ids
  BY DEF Object
<1>2. n \in SUBSET Ids
  BY <1>1
<1>3. v \in [SUBSET Ids -> SUBSET Ids]
  BY <1>1, <1>2, Zenon
<1>4. Enter(r) = [obj EXCEPT ![Top.id] = w]
  BY <1>1 DEF Enter, Object
<1>5. w \in Object /\ w.refs = o.refs /\ w.inverse = v
  <2> HIDE DEF v
  <2> QED BY <1>1, <1>3 DEF Object
<1>6. \A a \in SUBSET Ids : v[a] = IF a = Top.attr THEN n ELSE o.inverse[a]
  BY <1>1
<1>7. r \in n /\ n \subseteq o.inverse[Top.attr] \cup {r}
  OBVIOUS
<1> HIDE DEF w, v, n
<1>8. /\ Enter(r)[Top.id] = w
      /\ \A i \in Ids : i # Top.id => Enter(r)[i] = obj[i]
      /\ Enter(r) \in [Ids -> Object]
  BY <1>4, <1>5
<1> QED BY <1>5, <1>6, <1>7, <1>8

LEMMA RefsStepType ==
    ASSUME TypeOK, RefsStep PROVE TypeOK'
<1> USE DEF cache, loading, calls, batches
<1>1. CASE NoInverses
  <2>1. stack' \in Seq(Frame)
    BY <1>1, RefsTop, StackType DEF NoInverses, TypeOK
  <2> QED BY <1>1, <2>1 DEF NoInverses, TypeOK, Return
<1>2. CASE MapRefsToTypes
  <2>1. stack # <<>> /\ Top \in RefsFrame
    BY <1>2, RefsTop DEF MapRefsToTypes, HasInverses
  <2>2. stream' \in Position
    BY <1>2 DEF MapRefsToTypes, Referrers, Start, Position
  <2>3. index.inverseAttrs[Top.id] \subseteq SUBSET Ids
    BY <2>1, IndexType DEF TypeOK, RefsFrame
  <2>4. [Top EXCEPT !.pc = "attrs", !.attrs = index.inverseAttrs[Top.id]] \in Frame
    BY <2>1, <2>3 DEF RefsFrame, Frame
  <2>5. stack' \in Seq(Frame)
    BY <1>2, <2>1, <2>4, StackType DEF MapRefsToTypes, TypeOK
  <2> QED BY <1>2, <2>2, <2>5 DEF MapRefsToTypes, TypeOK, Become
<1>3. CASE NullType
  <2>1. stream' \in Position
    BY <1>3 DEF NullType, TypeOK, Referrers, Start, Position
  <2>2. <<>> \in Seq(Frame)
    OBVIOUS
  <2> QED BY <1>3, <2>1, <2>2 DEF NullType, TypeOK
<1>4. CASE CheckAnInvAttr
  <2>1. stack # <<>> /\ Top \in RefsFrame
    BY <1>4, RefsTop DEF CheckAnInvAttr
  <2>2. PICK a \in Top.attrs :
         LET referents == Top.referents \cup (a \cap Referrers(Top.id))
             f == [Top EXCEPT !.attrs = @ \ {a}, !.referents = referents]
         IN  IF referents \cap instancesLoading # {}
             THEN /\ deferredInverseInstances' = deferredInverseInstances \cup {Top.id}
                  /\ Become(f)
             ELSE /\ UNCHANGED deferredInverseInstances
                  /\ Become([f EXCEPT !.pc = "load", !.attr = a, !.todo = referents,
                                      !.null = a \notin obj[Top.id].aggregates])
    BY <1>4 DEF CheckAnInvAttr
  <2> DEFINE referents == Top.referents \cup (a \cap Referrers(Top.id))
             f == [Top EXCEPT !.attrs = @ \ {a}, !.referents = referents]
             null == a \notin obj[Top.id].aggregates
             g == [f EXCEPT !.pc = "load", !.attr = a, !.todo = referents, !.null = null]
  <2>3. referents \subseteq Ids /\ a \subseteq Ids /\ Top.id \in Ids
    BY <2>1 DEF RefsFrame, Referrers
  <2>4. f \in RefsFrame
    BY <2>1, <2>3 DEF RefsFrame
  <2>5. g \in RefsFrame
    <3>1. /\ Top.attrs \ {a} \in SUBSET SUBSET Ids /\ referents \in SUBSET Ids
          /\ a \in SUBSET Ids /\ null \in BOOLEAN
      BY <2>1, <2>3 DEF RefsFrame
    <3> HIDE DEF null
    <3>2. g = [Top EXCEPT !.pc = "load", !.attrs = @ \ {a}, !.referents = referents,
                          !.attr = a, !.todo = referents, !.null = null]
      BY <2>1 DEF RefsFrame
    <3> HIDE DEF f, referents, g
    <3> QED BY <2>1, <3>1, <3>2 DEF RefsFrame
  <2>6. /\ Become(f) => stack' \in Seq(Frame)
        /\ Become(g) => stack' \in Seq(Frame)
    <3> HIDE DEF f, g
    <3> QED BY <2>1, <2>4, <2>5, StackType DEF TypeOK, Frame
  <2>7. stack' \in Seq(Frame) /\ ret' = ret /\ deferredInverseInstances' \subseteq Ids
    BY <2>2, <2>3, <2>6 DEF TypeOK, Become
  <2> QED BY <1>4, <2>7 DEF CheckAnInvAttr, TypeOK
<1>5. CASE RefsDone
  <2>1. stack' \in Seq(Frame)
    BY <1>5, RefsTop, StackType DEF RefsDone, TypeOK
  <2> QED BY <1>5, <2>1 DEF RefsDone, TypeOK, Return
<1>6. CASE LoadReferent
  <2>1. stack # <<>> /\ Top \in RefsFrame
    BY <1>6, RefsTop DEF LoadReferent
  <2>2. PICK r \in Top.todo : Call([Top EXCEPT !.pc = "await"],
                                   loadInstance(r, FALSE, TRUE))
    BY <1>6 DEF LoadReferent
  <2>3. [Top EXCEPT !.pc = "await"] \in Frame
    BY <2>1 DEF RefsFrame, Frame
  <2>4. loadInstance(r, FALSE, TRUE) \in Frame
    BY <2>1, NewFrames DEF RefsFrame, Frame
  <2>5. stack' \in Seq(Frame)
    BY <2>1, <2>2, <2>3, <2>4, StackType DEF TypeOK
  <2> QED BY <1>6, <2>2, <2>5 DEF LoadReferent, TypeOK, Call
<1>7. CASE GotReferent
  <2>1. stack # <<>> /\ Top \in RefsFrame
    BY <1>7, RefsTop DEF GotReferent
  <2>2. PICK r \in Top.todo :
         /\ obj' = IF ret = r /\ r \in Top.attr /\ Top.id \in obj[r].refs
                   THEN Enter(r) ELSE obj
         /\ Become([Top EXCEPT !.pc = "load", !.todo = @ \ {r}])
    BY <1>7 DEF GotReferent
  <2>3. r \in Ids /\ Top.id \in Ids /\ Top.attr \in SUBSET Ids
    BY <2>1 DEF RefsFrame
  <2>4. obj' \in [Ids -> Object]
    BY <2>2, <2>3, EnterType DEF TypeOK
  <2>5. [Top EXCEPT !.pc = "load", !.todo = @ \ {r}] \in Frame
    BY <2>1 DEF RefsFrame, Frame
  <2>6. stack' \in Seq(Frame)
    BY <2>1, <2>2, <2>5, StackType DEF TypeOK
  <2> QED BY <1>7, <2>2, <2>4, <2>6 DEF GotReferent, TypeOK, Become
<1>8. CASE AttrDone
  <2>1. stack # <<>> /\ Top \in RefsFrame
    BY <1>8, RefsTop DEF AttrDone
  <2>2. [Top EXCEPT !.pc = "attrs"] \in Frame
    BY <2>1 DEF RefsFrame, Frame
  <2>3. stack' \in Seq(Frame)
    BY <1>8, <2>1, <2>2, StackType DEF AttrDone, TypeOK
  <2> QED BY <1>8, <2>3 DEF AttrDone, TypeOK, Become
<1> QED BY <1>1, <1>2, <1>3, <1>4, <1>5, <1>6, <1>7, <1>8 DEF RefsStep

LEMMA BatchStepType ==
    ASSUME TypeOK, Phase, BatchStep PROVE TypeOK'
<1> USE DEF cache, loading, calls
<1>0. build \in Build /\ build.todo \subseteq Ids /\ build.closure \subseteq Ids
      /\ build.pinned \subseteq Ids /\ build.handle \in Handles \cup {NoHandle}
  BY DEF TypeOK, Build
<1>1. CASE ExpandClosure
  <2>1. PICK i \in build.todo :
         LET new == {r \in Fwd(i) : Known(r)} \ build.closure IN
         build' = [build EXCEPT !.todo = (@ \ {i}) \cup new,
                                !.closure = @ \cup new]
    BY <1>1 DEF ExpandClosure
  <2>2. Fwd(i) \subseteq Ids
    BY <1>0, IndexType DEF TypeOK
  <2>3. build' \in Build
    BY <1>0, <2>1, <2>2 DEF Build
  <2> QED BY <1>1, <2>3 DEF ExpandClosure, TypeOK
<1>2. CASE ClosureCancelled
  <2>1. build' \in Build
    BY <1>0, <1>2 DEF ClosureCancelled, Build
  <2> QED BY <1>2, <2>1 DEF ClosureCancelled, TypeOK
<1>3. CASE ClosureDone
  <2>1. build' \in Build
    BY <1>0, <1>3 DEF ClosureDone, Build
  <2> QED BY <1>3, <2>1 DEF ClosureDone, TypeOK
<1>4. CASE Pin
  <2>1. PICK i \in build.todo :
         /\ pinCounts' = [pinCounts EXCEPT ![i] = @ + 1]
         /\ build' = [build EXCEPT !.todo = @ \ {i}, !.pinned = @ \cup {i}]
    BY <1>4 DEF Pin
  <2>2. build' \in Build
    BY <1>0, <2>1 DEF Build
  <2>3. pinCounts' \in [Ids -> Nat]
    BY <1>0, <2>1 DEF TypeOK
  <2> QED BY <1>4, <2>2, <2>3 DEF Pin, TypeOK
<1>5. CASE PinCancelled
  <2>1. build' \in Build
    BY <1>0, <1>5 DEF PinCancelled, Build
  <2> QED BY <1>5, <2>1 DEF PinCancelled, TypeOK
<1>6. CASE PinDone
  <2>1. build' \in Build
    BY <1>0, <1>6 DEF PinDone, Build
  <2>2. stats' \in Stats
    <3>1. stats.activeBatches + 1 \in Nat
      BY DEF TypeOK, Stats
    <3> QED BY <1>6, <3>1 DEF PinDone, TypeOK, Stats
  <2> QED BY <1>6, <2>1, <2>2 DEF PinDone, TypeOK
<1>7. CASE MaterializeNext
  <2>1. PICK i \in build.todo :
         /\ build' = [build EXCEPT !.todo = @ \ {i}]
         /\ stack' = <<loadInstance(i, TRUE, TRUE)>> /\ UNCHANGED ret
    BY <1>7 DEF MaterializeNext
  <2>2. build' \in Build
    BY <1>0, <2>1 DEF Build
  <2>3. loadInstance(i, TRUE, TRUE) \in Frame
    BY <1>0, NewFrames DEF Frame
  <2>4. stack' \in Seq(Frame)
    BY <2>1, <2>3, OneFrame, Zenon
  <2> QED BY <1>7, <2>1, <2>2, <2>4 DEF MaterializeNext, TypeOK
<1>8. CASE MaterializeCancelled
  <2>1. build' \in Build
    BY <1>0, <1>8 DEF MaterializeCancelled, Build
  <2> QED BY <1>8, <2>1 DEF MaterializeCancelled, TypeOK
<1>9. CASE LoadBatchDone
  <2>1. batchLoadDepth' = 0
    BY <1>9 DEF LoadBatchDone, Building, Phase
  <2>2. build' \in Build
    BY <1>9 DEF LoadBatchDone, NoBuild, Build
  <2>3. build.handle \in Handles
    BY <1>9 DEF LoadBatchDone, Building, Phase
  <2> QED BY <1>9, <1>0, <2>1, <2>2, <2>3 DEF LoadBatchDone, TypeOK
<1> QED BY <1>1, <1>2, <1>3, <1>4, <1>5, <1>6, <1>7, <1>8, <1>9 DEF BatchStep

LEMMA ReleaseType ==
    ASSUME TypeOK, NEW h \in Handles, Release(h)
    PROVE  /\ pinCounts' \in [Ids -> Nat] /\ obj' \in [Ids -> Object]
           /\ instancesLoaded' \subseteq Ids /\ batchOwnedInstances' \subseteq Ids
           /\ stats' \in Stats
<1> DEFINE gone == Evicted(held[h])
<1>1. gone \subseteq Ids /\ IsFiniteSet(gone) /\ Cardinality(gone) \in Nat
  BY IdsAssumption, FS_Subset, FS_CardinalityType DEF Evicted, Unpinned, TypeOK
<1> HIDE DEF gone
<1>2. pinCounts' \in [Ids -> Nat]
  BY DEF Release, TypeOK
<1>3. obj' \in [Ids -> Object]
  <2>1. \A i \in Ids : Survivor(obj[i], gone) \in Object
    <3> SUFFICES ASSUME NEW i \in Ids PROVE Survivor(obj[i], gone) \in Object
      OBVIOUS
    <3>1. /\ obj[i] \in Object /\ obj[i].refs \ gone \in SUBSET Ids
          /\ obj[i].inverse \in [SUBSET Ids -> SUBSET Ids]
          /\ obj[i].aggregates \in SUBSET SUBSET Ids
      BY DEF TypeOK, Object
    <3>2. [a \in SUBSET Ids |-> obj[i].inverse[a] \ gone] \in [SUBSET Ids -> SUBSET Ids]
      BY <3>1
    <3>3. InverseOf(obj[i]) \subseteq Ids
      BY <3>1 DEF InverseOf
    <3>4. obj[i].stale \cup ((obj[i].refs \cup InverseOf(obj[i])) \cap gone) \in SUBSET Ids
      BY <3>1, <3>3 DEF Object
    <3> QED BY <3>1, <3>2, <3>4, Zenon DEF Survivor, Object
  <2>2. NoObject \in Object
    BY DEF NoObject, Object
  <2>3. obj' = [i \in Ids |-> IF i \in gone THEN NoObject
                                            ELSE Survivor(obj[i], gone)]
    BY DEF Release, gone
  <2> QED BY <2>1, <2>2, <2>3
<1>4. stats' \in Stats
  <2>1. stats' = [stats EXCEPT !.loaded = @ - Cardinality(gone),
                              !.evictions = @ + Cardinality(gone),
                              !.activeBatches = IF @ > 0 THEN @ - 1 ELSE @]
    BY DEF Release, gone
  <2>2. /\ stats \in Stats /\ stats.loaded - Cardinality(gone) \in Int
        /\ stats.evictions + Cardinality(gone) \in Nat
        /\ (IF stats.activeBatches > 0 THEN stats.activeBatches - 1
                                       ELSE stats.activeBatches) \in Nat
    BY <1>1 DEF TypeOK, Stats
  <2> QED BY <2>1, <2>2, Zenon DEF Stats
<1> QED BY <1>2, <1>3, <1>4 DEF Release, TypeOK

LEMMA ClientType ==
    ASSUME TypeOK, Client PROVE TypeOK'
<1> USE DEF cache, loading, calls, batches
<1>1. CASE LoadInstance
  <2>1. PICK i \in Ids : stack' = <<loadInstance(i, FALSE, TRUE)>>
    BY <1>1 DEF LoadInstance
  <2>2. loadInstance(i, FALSE, TRUE) \in Frame
    BY NewFrames DEF Frame
  <2>3. stack' \in Seq(Frame)
    BY <2>1, <2>2, OneFrame, Zenon
  <2> QED BY <1>1, <2>3 DEF LoadInstance, TypeOK
<1>2. ASSUME NEW h \in Handles, LoadBatch(h) PROVE TypeOK'
  <2>1. PICK roots \in RootSets :
         build' = [NoBuild EXCEPT !.phase = "closure", !.handle = h,
                                  !.todo = roots, !.closure = roots]
    BY <1>2 DEF LoadBatch
  <2>2. build' \in Build
    BY <2>1, ClientAssumption DEF NoBuild, Build
  <2> QED BY <1>2, <2>2 DEF LoadBatch, TypeOK
<1>3. ASSUME NEW h \in Handles, ReleaseBatch(h) PROVE TypeOK'
  <2>1. live' \subseteq Handles /\ held' \in [Handles -> SUBSET Ids]
    BY <1>3 DEF ReleaseBatch, TypeOK
  <2> QED BY <1>3, <2>1, ReleaseType DEF ReleaseBatch, Release, TypeOK
<1>4. ASSUME NEW g \in Handles, NEW h \in Handles, MoveBatch(g, h) PROVE TypeOK'
  <2>1. live' \subseteq Handles /\ held' \in [Handles -> SUBSET Ids]
    BY <1>4 DEF MoveBatch, TypeOK
  <2>2. CASE Release(h)
    BY <2>1, <2>2, ReleaseType DEF Release, TypeOK
  <2>3. CASE ~Release(h)
    BY <1>4, <2>1, <2>3 DEF MoveBatch, TypeOK
  <2> QED BY <2>2, <2>3
<1> QED BY <1>1, <1>2, <1>3, <1>4 DEF Client

LEMMA InitType == Init => TypeOK /\ Phase
<1> SUFFICES ASSUME Init PROVE TypeOK /\ Phase
  OBVIOUS
<1>1. /\ obj \in [Ids -> Object] /\ stats \in Stats /\ stream \in Position
      /\ build \in Build /\ stack \in Seq(Frame)
  BY DEF Init, NoObject, Object, Stats, Start, Position, NoBuild, Build
<1> QED BY <1>1 DEF Init, TypeOK, Phase, NoBuild

LEMMA StutterType == TypeOK /\ Phase /\ UNCHANGED vars => TypeOK' /\ Phase'
BY DEF TypeOK, Phase, vars, cache, loading, calls, batches, Frame

LEMMA NextPhase ==
    ASSUME TypeOK, Phase, Next PROVE Phase'
<1> USE DEF batches, Phase
<1>1. CASE LoadStep
  BY <1>1 DEF LoadStep, LoadCancelled, CacheHit, IdTooLarge, CyclicDependency,
     NoPosition, UnknownType, StartRead, ReadReference, ReadGarbage, GotReference,
     DropPartial, InsertBatchOwned, InsertPermanent, Insert, ResolveNext,
     ResolveSwap, ResolveDone
<1>2. CASE RefsStep
  BY <1>2 DEF RefsStep, NoInverses, MapRefsToTypes, NullType, CheckAnInvAttr,
     RefsDone, LoadReferent, GotReferent, AttrDone
<1>3. CASE BatchStep
  <2> USE DEF Building, TypeOK, Build
  <2>1. CASE ExpandClosure BY <2>1 DEF ExpandClosure
  <2>2. CASE ClosureCancelled BY <2>2 DEF ClosureCancelled
  <2>3. CASE ClosureDone BY <2>3 DEF ClosureDone
  <2>4. CASE Pin BY <2>4 DEF Pin
  <2>5. CASE PinCancelled BY <2>5 DEF PinCancelled
  <2>6. CASE PinDone BY <2>6 DEF PinDone
  <2>7. CASE MaterializeNext BY <2>7 DEF MaterializeNext
  <2>8. CASE MaterializeCancelled BY <2>8 DEF MaterializeCancelled
  <2>9. CASE LoadBatchDone BY <2>9 DEF LoadBatchDone, NoBuild
  <2> QED BY <1>3, <2>1, <2>2, <2>3, <2>4, <2>5, <2>6, <2>7, <2>8, <2>9 DEF BatchStep
<1>4. CASE Client
  <2>1. CASE LoadInstance BY <2>1 DEF LoadInstance
  <2>2. ASSUME NEW h \in Handles, LoadBatch(h) PROVE Phase'
    BY <2>2 DEF LoadBatch, NoBuild, Idle
  <2>3. ASSUME NEW h \in Handles, ReleaseBatch(h) PROVE Phase'
    BY <2>3 DEF ReleaseBatch, Release
  <2>4. ASSUME NEW g \in Handles, NEW h \in Handles, MoveBatch(g, h) PROVE Phase'
    BY <2>4 DEF MoveBatch, Release
  <2> QED BY <1>4, <2>1, <2>2, <2>3, <2>4 DEF Client
<1> QED BY <1>1, <1>2, <1>3, <1>4 DEF Next, Running

LEMMA TypeInv == Spec => [](TypeOK /\ Phase)
<1>1. TypeOK /\ Phase /\ [Next]_vars => (TypeOK /\ Phase)'
  <2>1. CASE UNCHANGED vars BY <2>1, StutterType
  <2>2. CASE Next
    BY <2>2, LoadStepType, RefsStepType, BatchStepType, ClientType, NextPhase
    DEF Next, Running
  <2> QED BY <2>1, <2>2
<1> QED BY <1>1, InitType, PTL DEF Spec

(* Every variable keeps its type, in particular batchLoadDepth never falls *)
(* below zero and every identifier on the call stack is one of the file's. *)
THEOREM TypeCorrect == Spec => []TypeOK
BY TypeInv, PTL

-----------------------------------------------------------------------------
(* Pins.  The count of an instance is the number of its holders because    *)
(* each batch is pinned id by id, then passed to a handle that holds       *)
(* nothing, and released from the one handle it was passed to.             *)

Handover ==
    /\ \A h \in Handles : h \notin live => held[h] = {}
    /\ build.phase # "idle" => build.handle \notin live
    /\ build.phase = "idle" => build.handle \notin Handles
    /\ build.phase \in {"idle", "closure"} => build.pinned = {}
    /\ build.phase = "pin" => /\ build.pinned \cup build.todo = build.closure
                              /\ build.pinned \cap build.todo = {}
    /\ build.phase = "load" => build.pinned = build.closure

Pinning == PinsMatchBatches /\ Handover

LEMMA HoldersType ==
    ASSUME NEW i \in Ids
    PROVE  IsFiniteSet(Holders(i)) /\ Cardinality(Holders(i)) \in Nat
BY HandlesAssumption, FS_Subset, FS_CardinalityType DEF Holders

LEMMA CallsKeepBatches ==
    ASSUME LoadStep \/ RefsStep PROVE UNCHANGED batches
<1>1. CASE LoadStep
  BY <1>1 DEF LoadStep, LoadCancelled, CacheHit, IdTooLarge, CyclicDependency,
     NoPosition, UnknownType, StartRead, ReadReference, ReadGarbage, GotReference,
     DropPartial, InsertBatchOwned, InsertPermanent, Insert, ResolveNext,
     ResolveSwap, ResolveDone
<1>2. CASE RefsStep
  BY <1>2 DEF RefsStep, NoInverses, MapRefsToTypes, NullType, CheckAnInvAttr,
     RefsDone, LoadReferent, GotReferent, AttrDone
<1> QED BY <1>1, <1>2

LEMMA SamePins ==
    ASSUME Pinning, UNCHANGED batches PROVE Pinning'
BY DEF batches, Pinning, PinsMatchBatches, Holders, Handover

LEMMA BuildPins ==
    ASSUME TypeOK, Phase, Pinning, BatchStep PROVE Pinning'
<1> USE DEF Building
<1>0. build \in Build /\ build.closure \subseteq Ids /\ build.todo \subseteq Ids
  BY DEF TypeOK, Build
<1>1. ASSUME UNCHANGED <<pinCounts, held, live>>, build'.pinned = build.pinned,
             Handover'
      PROVE  Pinning'
  BY <1>1 DEF Pinning, PinsMatchBatches, Holders
<1>2. CASE ExpandClosure
  <2>1. build'.phase = "closure" /\ build'.pinned = build.pinned /\ UNCHANGED <<pinCounts, held, live>>
        /\ build'.handle = build.handle /\ build.phase = "closure"
    BY <1>0, <1>2 DEF ExpandClosure, Build
  <2> QED BY <1>1, <2>1 DEF Pinning, Handover
<1>3. CASE ClosureCancelled
  BY <1>0, <1>1, <1>3 DEF ClosureCancelled, Build, Pinning, Handover
<1>4. CASE ClosureDone
  BY <1>0, <1>1, <1>4 DEF ClosureDone, Build, Pinning, Handover
<1>5. CASE Pin
  <2>1. PICK i \in build.todo :
         /\ pinCounts' = [pinCounts EXCEPT ![i] = @ + 1]
         /\ build' = [build EXCEPT !.todo = @ \ {i}, !.pinned = @ \cup {i}]
    BY <1>5 DEF Pin
  <2>2. i \in Ids /\ i \notin build.pinned
    BY <1>0, <1>5 DEF Pin, Pinning, Handover
  <2>3. UNCHANGED <<held, live>>
    BY <1>5 DEF Pin
  <2>4. PinsMatchBatches'
    <3> SUFFICES ASSUME NEW j \in Ids
                 PROVE  pinCounts'[j] = Cardinality(Holders(j)')
                                        + (IF j \in build'.pinned THEN 1 ELSE 0)
      BY DEF PinsMatchBatches
    <3>1. Holders(j)' = Holders(j)
      BY <2>3 DEF Holders
    <3>2. pinCounts[j] = Cardinality(Holders(j)) + (IF j \in build.pinned THEN 1 ELSE 0)
      BY DEF Pinning, PinsMatchBatches
    <3>3. Cardinality(Holders(j)) \in Nat
      BY HoldersType
    <3>4. build'.pinned = build.pinned \cup {i}
      BY <1>0, <2>1 DEF Build
    <3>5. pinCounts'[j] = IF j = i THEN pinCounts[j] + 1 ELSE pinCounts[j]
      BY <2>1, <2>2 DEF TypeOK
    <3> QED BY <2>2, <3>1, <3>2, <3>3, <3>4, <3>5
  <2>5. Handover'
    BY <1>0, <1>5, <2>1, <2>3 DEF Pin, Build, Pinning, Handover
  <2> QED BY <2>4, <2>5 DEF Pinning
<1>6. CASE PinCancelled
  BY <1>0, <1>1, <1>6 DEF PinCancelled, Build, Pinning, Handover
<1>7. CASE PinDone
  BY <1>0, <1>1, <1>7 DEF PinDone, Build, Pinning, Handover
<1>8. CASE MaterializeNext
  BY <1>0, <1>1, <1>8 DEF MaterializeNext, Build, Pinning, Handover
<1>9. CASE MaterializeCancelled
  BY <1>0, <1>1, <1>9 DEF MaterializeCancelled, Build, Pinning, Handover
<1>10. CASE LoadBatchDone
  <2> DEFINE g == build.handle
  <2>1. /\ g \in Handles /\ held[g] = {} /\ held' = [held EXCEPT ![g] = build.pinned]
        /\ live' = live \cup {g} /\ build'.pinned = {} /\ build'.phase = "idle"
        /\ build'.handle \notin Handles /\ UNCHANGED pinCounts
    BY <1>10, HandlesAssumption DEF LoadBatchDone, NoBuild, Phase, Pinning, Handover
  <2>2. PinsMatchBatches'
    <3> SUFFICES ASSUME NEW j \in Ids
                 PROVE  pinCounts'[j] = Cardinality(Holders(j)')
                                        + (IF j \in build'.pinned THEN 1 ELSE 0)
      BY DEF PinsMatchBatches
    <3>1. pinCounts[j] = Cardinality(Holders(j)) + (IF j \in build.pinned THEN 1 ELSE 0)
      BY DEF Pinning, PinsMatchBatches
    <3>2. Holders(j)' = IF j \in build.pinned THEN Holders(j) \cup {g} ELSE Holders(j)
      BY <2>1 DEF Holders, TypeOK
    <3>3. g \notin Holders(j)
      BY <2>1 DEF Holders
    <3>4. Cardinality(Holders(j) \cup {g}) = Cardinality(Holders(j)) + 1
      BY <3>3, HoldersType, FS_AddElement
    <3> QED BY <2>1, <3>1, <3>2, <3>4, HoldersType
  <2>3. Handover'
    BY <2>1 DEF Pinning, Handover, TypeOK
  <2> QED BY <2>2, <2>3 DEF Pinning
<1> QED BY <1>2, <1>3, <1>4, <1>5, <1>6, <1>7, <1>8, <1>9, <1>10 DEF BatchStep

(* What Release does to the pins: each instance of h loses one, and had it. *)
LEMMA ReleasePins ==
    ASSUME TypeOK, Pinning, NEW h \in Handles, Release(h), build.phase = "idle",
           NEW i \in Ids
    PROVE  /\ pinCounts[i] = Cardinality(Holders(i))
           /\ pinCounts'[i] = Cardinality(Holders(i) \ {h})
<1>1. pinCounts[i] = Cardinality(Holders(i))
  BY HoldersType DEF Pinning, PinsMatchBatches, Handover
<1>2. CASE i \in held[h]
  <2>1. h \in Holders(i)
    BY <1>2 DEF Holders
  <2>2. Cardinality(Holders(i) \ {h}) = Cardinality(Holders(i)) - 1
    BY <2>1, HoldersType, FS_RemoveElement
  <2>3. Cardinality(Holders(i) \ {h}) \in Nat
    BY HoldersType, FS_RemoveElement, FS_CardinalityType, FS_Subset
  <2>4. pinCounts[i] > 0
    BY <1>1, <2>2, <2>3, HoldersType
  <2>5. pinCounts'[i] = pinCounts[i] - 1
    BY <1>2, <2>4 DEF Release
  <2> QED BY <1>1, <2>2, <2>5
<1>3. CASE i \notin held[h]
  <2>1. Holders(i) \ {h} = Holders(i)
    BY <1>3 DEF Holders
  <2>2. pinCounts'[i] = pinCounts[i]
    BY <1>3 DEF Release
  <2> QED BY <1>1, <2>1, <2>2
<1> QED BY <1>2, <1>3

LEMMA ClientPins ==
    ASSUME TypeOK, Phase, Pinning, Client PROVE Pinning'
<1>1. CASE LoadInstance
  BY <1>1, SamePins DEF LoadInstance
<1>2. ASSUME NEW h \in Handles, LoadBatch(h) PROVE Pinning'
  <2>1. PICK roots \in RootSets :
         build' = [NoBuild EXCEPT !.phase = "closure", !.handle = h,
                                  !.todo = roots, !.closure = roots]
    BY <1>2 DEF LoadBatch
  <2>2. build'.phase = "closure" /\ build'.pinned = {} /\ build'.handle = h
    BY <2>1 DEF NoBuild
  <2>3. UNCHANGED <<pinCounts, live, held>> /\ h \notin live /\ build.phase = "idle"
    BY <1>2 DEF LoadBatch, Idle
  <2> QED BY <2>2, <2>3 DEF Pinning, PinsMatchBatches, Holders, Handover
<1>3. ASSUME NEW h \in Handles, ReleaseBatch(h) PROVE Pinning'
  <2>1. /\ Release(h) /\ build.phase = "idle" /\ build' = build
        /\ live' = live \ {h} /\ held' = [held EXCEPT ![h] = {}]
    BY <1>3 DEF ReleaseBatch, Release, Idle
  <2>2. PinsMatchBatches'
    <3> SUFFICES ASSUME NEW j \in Ids
                 PROVE  pinCounts'[j] = Cardinality(Holders(j)')
                                        + (IF j \in build'.pinned THEN 1 ELSE 0)
      BY DEF PinsMatchBatches
    <3>1. Holders(j)' = Holders(j) \ {h}
      BY <2>1 DEF Holders, TypeOK
    <3>2. pinCounts'[j] = Cardinality(Holders(j) \ {h}) /\ pinCounts'[j] \in Nat
      BY <2>1, ReleasePins, ReleaseType DEF TypeOK
    <3> QED BY <2>1, <3>1, <3>2 DEF Pinning, Handover
  <2>3. Handover'
    BY <2>1 DEF Pinning, Handover, TypeOK
  <2> QED BY <2>2, <2>3 DEF Pinning
<1>4. ASSUME NEW g \in Handles, NEW h \in Handles, MoveBatch(g, h) PROVE Pinning'
  <2>1. /\ build.phase = "idle" /\ build' = build /\ g \in live /\ g # h
        /\ held' = [held EXCEPT ![h] = held[g], ![g] = {}]
        /\ live' = (live \ {g}) \cup {h}
    BY <1>4 DEF MoveBatch, Release, Idle
  <2>2. ASSUME NEW j \in Ids PROVE pinCounts'[j] = Cardinality(Holders(j) \ {h})
    <3>1. CASE Release(h)
      BY <2>1, <3>1, ReleasePins
    <3>2. CASE h \notin live /\ UNCHANGED pinCounts
      <4>1. Holders(j) \ {h} = Holders(j)
        BY <3>2 DEF Holders, Pinning, Handover
      <4>2. Cardinality(Holders(j)) \in Nat /\ build.pinned = {}
        BY <2>1, HoldersType DEF Pinning, Handover
      <4>3. pinCounts[j] = Cardinality(Holders(j))
        BY <4>2 DEF Pinning, PinsMatchBatches
      <4>4. pinCounts'[j] = pinCounts[j]
        BY <3>2
      <4> QED BY <4>1, <4>3, <4>4
    <3> QED BY <1>4, <3>1, <3>2 DEF MoveBatch
  <2>3. ASSUME NEW j \in Ids
        PROVE Cardinality(Holders(j)') = Cardinality(Holders(j) \ {h})
    <3>1. IsFiniteSet(Holders(j) \ {h})
      BY HoldersType, FS_Subset
    <3>2. CASE j \in held[g]
      <4> DEFINE rest == (Holders(j) \ {h}) \ {g}
      <4>1. g \in Holders(j) \ {h} /\ Holders(j)' = rest \cup {h}
        BY <2>1, <3>2 DEF Holders, TypeOK
      <4>2. /\ IsFiniteSet(rest) /\ Cardinality(rest) = Cardinality(Holders(j) \ {h}) - 1
        BY <3>1, <4>1, FS_RemoveElement
      <4>3. Cardinality(rest \cup {h}) = Cardinality(rest) + 1
        BY <4>2, FS_AddElement
      <4>4. Cardinality(Holders(j) \ {h}) \in Nat
        BY <3>1, FS_CardinalityType
      <4> HIDE DEF rest
      <4> QED BY <4>1, <4>2, <4>3, <4>4
    <3>3. CASE j \notin held[g]
      <4>1. Holders(j)' = Holders(j) \ {h}
        BY <2>1, <3>3 DEF Holders, TypeOK
      <4> QED BY <4>1
    <3> QED BY <3>2, <3>3
  <2>4. PinsMatchBatches'
    <3>1. ASSUME NEW j \in Ids PROVE Cardinality(Holders(j) \ {h}) \in Nat
      BY HoldersType, FS_Subset, FS_CardinalityType
    <3> SUFFICES ASSUME NEW j \in Ids
                 PROVE  pinCounts'[j] = Cardinality(Holders(j)')
                                        + (IF j \in build'.pinned THEN 1 ELSE 0)
      BY DEF PinsMatchBatches
    <3>2. build'.pinned = {}
      BY <2>1 DEF Pinning, Handover
    <3>3. pinCounts'[j] = Cardinality(Holders(j)') /\ pinCounts'[j] \in Nat
      BY <2>2, <2>3, <3>1
    <3> QED BY <3>2, <3>3
  <2>5. Handover'
    BY <2>1 DEF Pinning, Handover, TypeOK
  <2> QED BY <2>4, <2>5 DEF Pinning
<1> QED BY <1>1, <1>2, <1>3, <1>4 DEF Client

LEMMA InitPins == Init => Pinning
<1> SUFFICES ASSUME Init PROVE Pinning
  OBVIOUS
<1>1. \A i \in Ids : Holders(i) = {}
  BY DEF Init, Holders
<1>2. build.pinned = {} /\ build.phase = "idle" /\ \A i \in Ids : pinCounts[i] = 0
  BY DEF Init, NoBuild
<1>3. Cardinality({}) = 0
  BY FS_EmptySet
<1>4. PinsMatchBatches
  BY <1>1, <1>2, <1>3 DEF PinsMatchBatches
<1>5. Handover
  BY <1>2, HandlesAssumption DEF Init, Handover, NoBuild
<1> QED BY <1>4, <1>5 DEF Pinning

LEMMA NextPins ==
    ASSUME TypeOK, Phase, Pinning, [Next]_vars PROVE Pinning'
<1>1. CASE UNCHANGED vars BY <1>1, SamePins DEF vars
<1>2. CASE Next
  BY <1>2, CallsKeepBatches, SamePins, BuildPins, ClientPins DEF Next, Running
<1> QED BY <1>1, <1>2

LEMMA PinInv == Spec => []Pinning
<1>1. TypeOK /\ Phase /\ Pinning /\ [Next]_vars => Pinning'
  BY NextPins
<1> QED BY <1>1, InitPins, TypeInv, PTL DEF Spec

(* The pin count of an instance is always the number of batches that hold  *)
(* it, whatever moves, releases and cancellations (_pinCounts).            *)
THEOREM PinsExact == Spec => []PinsMatchBatches
<1>1. Pinning => PinsMatchBatches
  BY DEF Pinning
<1> QED BY <1>1, PinInv, PTL

LEMMA NextEvicts ==
    ASSUME TypeOK, Phase, Pinning, [Next]_vars
    PROVE  \A i \in instancesLoaded \ instancesLoaded' :
               /\ i \notin permanentlyLoadedInstances
               /\ \A h \in live' : i \notin held'[h]
<1> DEFINE Safe == \A i \in instancesLoaded \ instancesLoaded' :
                      /\ i \notin permanentlyLoadedInstances
                      /\ \A h \in live' : i \notin held'[h]
<1> SUFFICES Safe
  OBVIOUS
<1>1. CASE instancesLoaded \subseteq instancesLoaded'
  BY <1>1
<1>2. ASSUME NEW h \in Handles, Release(h), build.phase = "idle",
             NEW i \in instancesLoaded \ instancesLoaded'
      PROVE  i \notin permanentlyLoadedInstances /\ Holders(i) = {h}
  <2>1. i \in Ids /\ i \in Evicted(held[h])
    BY <1>2 DEF Release, TypeOK
  <2>2. i \in held[h] /\ pinCounts[i] = 1 /\ i \notin permanentlyLoadedInstances
    BY <2>1 DEF Evicted, Unpinned
  <2>3. Cardinality(Holders(i)) = 1
    BY <1>2, <2>1, <2>2, ReleasePins
  <2>4. PICK x : Holders(i) = {x}
    BY <2>1, <2>3, HoldersType, FS_Singleton
  <2>5. h \in Holders(i)
    BY <2>2 DEF Holders
  <2> QED BY <2>2, <2>4, <2>5
<1>3. ASSUME NEW h \in Handles, ReleaseBatch(h) PROVE Safe
  <2> SUFFICES ASSUME NEW i \in instancesLoaded \ instancesLoaded'
               PROVE  /\ i \notin permanentlyLoadedInstances
                      /\ \A x \in live' : i \notin held'[x]
    OBVIOUS
  <2>1. i \notin permanentlyLoadedInstances /\ Holders(i) = {h}
    BY <1>2, <1>3 DEF ReleaseBatch, Idle
  <2>2. live' \subseteq Handles /\ held' = [held EXCEPT ![h] = {}]
    BY <1>3 DEF ReleaseBatch, TypeOK
  <2> QED BY <2>1, <2>2 DEF Holders, TypeOK
<1>4. ASSUME NEW g \in Handles, NEW h \in Handles, MoveBatch(g, h), Release(h)
      PROVE  Safe
  <2> SUFFICES ASSUME NEW i \in instancesLoaded \ instancesLoaded'
               PROVE  /\ i \notin permanentlyLoadedInstances
                      /\ \A x \in live' : i \notin held'[x]
    OBVIOUS
  <2>1. i \notin permanentlyLoadedInstances /\ Holders(i) = {h}
    BY <1>2, <1>4 DEF MoveBatch, Idle
  <2>2. /\ g # h /\ held' = [held EXCEPT ![h] = held[g], ![g] = {}]
        /\ live' \subseteq Handles
    BY <1>4 DEF MoveBatch, TypeOK
  <2> QED BY <2>1, <2>2 DEF Holders, TypeOK
<1>5. ASSUME NEW g \in Handles, NEW h \in Handles, MoveBatch(g, h), ~Release(h)
      PROVE  instancesLoaded' = instancesLoaded
  BY <1>5 DEF MoveBatch, cache
<1>6. CASE LoadStep
  BY <1>1, <1>6
  DEF LoadStep, LoadCancelled, CacheHit, IdTooLarge, CyclicDependency,
      NoPosition, UnknownType, StartRead, ReadReference, ReadGarbage, GotReference,
      DropPartial, InsertBatchOwned, InsertPermanent, Insert, ResolveNext,
      ResolveSwap, ResolveDone, cache
<1>7. CASE RefsStep
  BY <1>1, <1>7
  DEF RefsStep, NoInverses, MapRefsToTypes, NullType, CheckAnInvAttr,
      RefsDone, LoadReferent, GotReferent, AttrDone, cache
<1>8. CASE BatchStep
  BY <1>1, <1>8
  DEF BatchStep, ExpandClosure, ClosureCancelled, ClosureDone, Pin, PinCancelled,
      PinDone, MaterializeNext, MaterializeCancelled, LoadBatchDone, cache
<1>9. CASE Client
  <2>1. CASE LoadInstance BY <1>1, <2>1 DEF LoadInstance, cache
  <2>2. ASSUME NEW h \in Handles, LoadBatch(h) PROVE Safe
    BY <1>1, <2>2 DEF LoadBatch, cache
  <2> QED BY <1>1, <1>3, <1>4, <1>5, <1>9, <2>1, <2>2 DEF Client
<1>10. CASE UNCHANGED vars
  BY <1>1, <1>10 DEF vars, cache
<1> HIDE DEF Safe
<1> QED BY <1>6, <1>7, <1>8, <1>9, <1>10 DEF Next, Running

(* A release deletes nothing that was loaded for good and nothing that one *)
(* of the remaining batches holds (releaseBatch, LazyInstanceBatch).       *)
THEOREM NoEarlyEviction == Spec => EvictsOnlyUnheld
<1>1. TypeOK /\ Phase /\ Pinning /\ [Next]_vars =>
          [\A i \in instancesLoaded \ instancesLoaded' :
               /\ i \notin permanentlyLoadedInstances
               /\ \A h \in live' : i \notin held'[h]]_vars
  BY NextEvicts
<1> QED BY <1>1, TypeInv, PinInv, PTL DEF Spec, EvictsOnlyUnheld

-----------------------------------------------------------------------------
(* Ownership.  An instance that a batch materializes is one the batch has  *)
(* pinned: dependencyClosure is closed under the references of the index,  *)
(* and the parsers of the batch only ever read records of the closure,     *)
(* because each nested load puts the stream back (reSeek is true in them). *)

Covered(i) == i \in build.closure \/ ~Known(i)
OnCovered(p) == p.rec \in Ids /\ Covered(p.rec)

Closed ==
    /\ build.phase \in {"closure", "load"} => build.todo \subseteq build.closure
    /\ build.phase # "idle" /\ ~cancelled =>
          \A i \in Ids : Covered(i) /\ ~(build.phase = "closure" /\ i \in build.todo)
                           => \A r \in Fwd(i) : Covered(r)

(* The frames of a batch.  Only the lowest has promote set: it is the load *)
(* that loadBatch calls, and where its stream goes back to is of no matter.*)
BatchFrames ==
    {f \in LoadFrame :
        /\ f.pc # "resolve" /\ f.reSeek /\ Covered(f.id)
        /\ f.pc # "enter" => /\ index.entry[f.id] = "good"
                             /\ ~f.promote => OnCovered(f.oldPos)}

PromoteLast(s) == \A k \in 1..Len(s) : s[k].promote => k = Len(s)

BatchStack ==
    build.phase = "load" /\ ~cancelled =>
        /\ stack \in Seq(BatchFrames) /\ PromoteLast(stack)
        /\ stack # <<>> /\ ~(Top.pc = "enter" /\ Top.promote) => OnCovered(stream)

Owned == /\ OnlyPinnedOrPermanent
         /\ instancesLoaded \ permanentlyLoadedInstances \subseteq batchOwnedInstances

LEMMA PromoteTail ==
    ASSUME NEW S, NEW s \in Seq(S), s # <<>>, PromoteLast(s)
    PROVE  PromoteLast(Tail(s)) /\ (Head(s).promote => Tail(s) = <<>>)
<1>1. /\ Len(Tail(s)) = Len(s) - 1 /\ Len(s) \in Nat /\ Len(s) > 0
      /\ \A k \in 1..(Len(s) - 1) : Tail(s)[k] = s[k + 1]
      /\ Head(s) = s[1] /\ Tail(s) \in Seq(S)
  BY HeadTailProperties
<1>2. PromoteLast(Tail(s))
  <2> DEFINE t == Tail(s)
  <2>1. /\ Len(t) = Len(s) - 1 /\ Len(s) \in Nat
        /\ \A k \in 1..(Len(s) - 1) : t[k] = s[k + 1]
    BY <1>1
  <2> HIDE DEF t
  <2>2. ASSUME NEW k \in 1..Len(t), t[k].promote PROVE k = Len(t)
    <3>1. k + 1 \in 1..Len(s) /\ s[k + 1].promote
      BY <2>1, <2>2
    <3> QED BY <2>1, <3>1 DEF PromoteLast
  <2>3. PromoteLast(t)
    BY <2>2 DEF PromoteLast
  <2> QED BY <2>3 DEF t
<1>3. ASSUME Head(s).promote PROVE Tail(s) = <<>>
  <2>1. 1 \in 1..Len(s) /\ s[1].promote
    BY <1>1, <1>3
  <2>2. Len(s) = 1
    BY <2>1 DEF PromoteLast
  <2>3. Len(Tail(s)) = 0
    BY <1>1, <2>2
  <2> QED BY <1>1, <2>3, EmptySeq
<1> QED BY <1>2, <1>3

LEMMA PromoteReplace ==
    ASSUME NEW S, NEW s \in Seq(S), s # <<>>, PromoteLast(s),
           NEW f \in S, f.promote = Head(s).promote
    PROVE  PromoteLast(<<f>> \o Tail(s))
<1> DEFINE t == <<f>> \o Tail(s)
<1>1. /\ Len(Tail(s)) = Len(s) - 1 /\ Len(s) \in Nat /\ Len(s) > 0
      /\ \A k \in 1..(Len(s) - 1) : Tail(s)[k] = s[k + 1]
      /\ Head(s) = s[1] /\ Tail(s) \in Seq(S)
  BY HeadTailProperties
<1>2. Len(t) = Len(s) /\ t[1] = f /\ \A k \in 2..Len(s) : t[k] = s[k]
  BY <1>1
<1> HIDE DEF t
<1>3. ASSUME NEW k \in 1..Len(t), t[k].promote PROVE k = Len(t)
  <2>1. s[k].promote /\ k \in 1..Len(s)
    BY <1>1, <1>2, <1>3
  <2> QED BY <1>2, <2>1 DEF PromoteLast
<1>4. PromoteLast(t)
  BY <1>3 DEF PromoteLast
<1> QED BY <1>4 DEF t

LEMMA PromotePush ==
    ASSUME NEW S, NEW s \in Seq(S), s # <<>>, PromoteLast(s),
           NEW f \in S, NEW g \in S, f.promote = Head(s).promote, ~g.promote
    PROVE  PromoteLast(<<g, f>> \o Tail(s))
<1> DEFINE u == <<g, f>> \o Tail(s)
<1>1. /\ Len(Tail(s)) = Len(s) - 1 /\ Len(s) \in Nat /\ Len(s) > 0
      /\ \A k \in 1..(Len(s) - 1) : Tail(s)[k] = s[k + 1]
      /\ Head(s) = s[1] /\ Tail(s) \in Seq(S)
  BY HeadTailProperties
<1>2. /\ Len(u) = Len(s) + 1 /\ u[1] = g /\ u[2] = f
      /\ \A k \in 3..(Len(s) + 1) : u[k] = s[k - 1]
  BY <1>1
<1> HIDE DEF u
<1>3. ASSUME NEW k \in 1..Len(u), u[k].promote PROVE k = Len(u)
  <2>1. k \in 1..(Len(s) + 1) /\ k # 1
    BY <1>1, <1>2, <1>3
  <2>2. k = 2 => s[1].promote /\ 1 \in 1..Len(s)
    BY <1>1, <1>2, <1>3
  <2>3. k > 2 => s[k - 1].promote /\ k - 1 \in 1..Len(s)
    BY <1>1, <1>2, <1>3, <2>1
  <2>4. k = 2 => Len(s) = 1
    BY <2>2 DEF PromoteLast
  <2>5. k > 2 => k - 1 = Len(s)
    BY <2>3 DEF PromoteLast
  <2> QED BY <1>1, <1>2, <2>1, <2>4, <2>5
<1>4. PromoteLast(u)
  BY <1>3 DEF PromoteLast
<1> QED BY <1>4 DEF u

LEMMA NextFixesIndex == [Next]_vars => UNCHANGED index
<1> USE DEF cache, batches
<1>1. CASE UNCHANGED vars BY <1>1 DEF vars
<1>2. CASE LoadStep
  BY <1>2 DEF LoadStep, LoadCancelled, CacheHit, IdTooLarge, CyclicDependency,
     NoPosition, UnknownType, StartRead, ReadReference, ReadGarbage, GotReference,
     DropPartial, InsertBatchOwned, InsertPermanent, Insert, ResolveNext,
     ResolveSwap, ResolveDone
<1>3. CASE RefsStep
  BY <1>3 DEF RefsStep, NoInverses, MapRefsToTypes, NullType, CheckAnInvAttr,
     RefsDone, LoadReferent, GotReferent, AttrDone
<1>4. CASE BatchStep
  BY <1>4 DEF BatchStep, ExpandClosure, ClosureCancelled, ClosureDone, Pin,
     PinCancelled, PinDone, MaterializeNext, MaterializeCancelled, LoadBatchDone
<1>5. CASE Client
  BY <1>5 DEF Client, LoadInstance, LoadBatch, ReleaseBatch, MoveBatch, Release
<1> QED BY <1>1, <1>2, <1>3, <1>4, <1>5 DEF Next, Running

LEMMA CallsLatch ==
    ASSUME LoadStep \/ RefsStep, ~cancelled' PROVE ~cancelled
<1>1. CASE LoadStep
  BY <1>1 DEF LoadStep, LoadCancelled, CacheHit, IdTooLarge, CyclicDependency,
     NoPosition, UnknownType, StartRead, ReadReference, ReadGarbage, GotReference,
     DropPartial, InsertBatchOwned, InsertPermanent, Insert, ResolveNext,
     ResolveSwap, ResolveDone
<1>2. CASE RefsStep
  BY <1>2 DEF RefsStep, NoInverses, MapRefsToTypes, NullType, CheckAnInvAttr,
     RefsDone, LoadReferent, GotReferent, AttrDone
<1> QED BY <1>1, <1>2

LEMMA NextClosed ==
    ASSUME TypeOK, Phase, Handover, Closed, [Next]_vars PROVE Closed'
<1> USE DEF Building
<1>0. /\ build \in Build /\ build.todo \subseteq Ids /\ build.closure \subseteq Ids
      /\ UNCHANGED index
      /\ \A i \in Ids : Fwd(i) \subseteq Ids /\ (~Known(i) => Fwd(i) = {})
  BY NextFixesIndex, IndexType DEF TypeOK, Build
<1>a. \A i \in Ids : Fwd(i)' = Fwd(i) /\ (Known(i)' <=> Known(i))
  BY <1>0 DEF Fwd, Known
<1>1. ASSUME build' = build, ~cancelled' => ~cancelled PROVE Closed'
  BY <1>0, <1>1 DEF Closed, Covered, Known, Fwd
<1>2. CASE UNCHANGED vars
  BY <1>1, <1>2 DEF vars, batches
<1>3. CASE LoadStep \/ RefsStep
  BY <1>1, <1>3, CallsKeepBatches, CallsLatch DEF batches
<1>4. CASE ExpandClosure
  <2>1. PICK i \in build.todo :
         LET new == {r \in Fwd(i) : Known(r)} \ build.closure IN
         build' = [build EXCEPT !.todo = (@ \ {i}) \cup new,
                                !.closure = @ \cup new]
    BY <1>4 DEF ExpandClosure
  <2> DEFINE new == {r \in Fwd(i) : Known(r)} \ build.closure
  <2>2. /\ build'.todo = (build.todo \ {i}) \cup new /\ build'.phase = "closure"
        /\ build'.closure = build.closure \cup new /\ build.phase = "closure"
    BY <1>0, <1>4, <2>1 DEF ExpandClosure, Build
  <2>3. UNCHANGED cancelled
    BY <1>4 DEF ExpandClosure
  <2>4. ASSUME NEW j \in Ids, ~cancelled, Covered(j)', j \notin build'.todo,
               NEW r \in Fwd(j)'
        PROVE  Covered(r)'
    <3>1. r \in Fwd(j) /\ r \in Ids
      BY <1>0, <1>a, <2>4
    <3>2. CASE j = i
      BY <1>0, <1>a, <2>2, <3>1, <3>2 DEF Covered
    <3>3. CASE j # i
      <4>1. Covered(j) /\ j \notin build.todo
        BY <1>a, <2>2, <2>4, <3>3 DEF Covered
      <4>2. Covered(r)
        BY <2>2, <2>4, <3>1, <4>1 DEF Closed
      <4> QED BY <1>a, <2>2, <3>1, <4>2 DEF Covered
    <3> QED BY <3>2, <3>3
  <2>5. build'.todo \subseteq build'.closure
    BY <2>2 DEF Closed
  <2> HIDE DEF new
  <2> QED BY <2>2, <2>3, <2>4, <2>5 DEF Closed
<1>5. ASSUME cancelled', build'.todo = {} PROVE Closed'
  BY <1>5 DEF Closed
<1>6. CASE ClosureCancelled \/ PinCancelled \/ MaterializeCancelled
  BY <1>0, <1>5, <1>6 DEF ClosureCancelled, PinCancelled, MaterializeCancelled, Build
<1>7. ASSUME build.phase # "idle", build.phase = "closure" => build.todo = {},
             build'.phase \in {"pin", "load"}, build'.closure = build.closure,
             build'.phase = "load" => build'.todo \subseteq build.closure,
             UNCHANGED cancelled
      PROVE  Closed'
  BY <1>0, <1>a, <1>7 DEF Closed, Covered
<1>8. CASE ClosureDone
  BY <1>0, <1>7, <1>8 DEF ClosureDone, Build
<1>9. CASE Pin
  BY <1>0, <1>7, <1>9 DEF Pin, Build
<1>10. CASE PinDone
  BY <1>0, <1>7, <1>10 DEF PinDone, Build
<1>11. CASE MaterializeNext
  BY <1>0, <1>7, <1>11 DEF MaterializeNext, Build, Closed
<1>12. CASE LoadBatchDone
  BY <1>12 DEF LoadBatchDone, NoBuild, Closed
<1>13. CASE Client
  <2>1. CASE LoadInstance
    BY <1>1, <2>1 DEF LoadInstance, batches
  <2>2. ASSUME NEW h \in Handles, LoadBatch(h) PROVE Closed'
    <3>1. PICK roots \in RootSets :
           build' = [NoBuild EXCEPT !.phase = "closure", !.handle = h,
                                    !.todo = roots, !.closure = roots]
      BY <2>2 DEF LoadBatch
    <3>2. build'.phase = "closure" /\ build'.todo = roots /\ build'.closure = roots
      BY <3>1 DEF NoBuild
    <3> QED BY <1>0, <1>a, <3>2 DEF Closed, Covered
  <2>3. ASSUME NEW h \in Handles, ReleaseBatch(h) PROVE Closed'
    BY <1>1, <2>3 DEF ReleaseBatch, Release
  <2>4. ASSUME NEW g \in Handles, NEW h \in Handles, MoveBatch(g, h) PROVE Closed'
    BY <1>1, <2>4 DEF MoveBatch, Release
  <2> QED BY <1>13, <2>1, <2>2, <2>3, <2>4 DEF Client
<1> QED BY <1>2, <1>3, <1>4, <1>6, <1>8, <1>9, <1>10, <1>11, <1>12, <1>13
        DEF Next, Running, BatchStep

LEMMA LoadStepStack ==
    ASSUME TypeOK, Phase, Closed, BatchStack, LoadStep,
           build.phase = "load", ~cancelled'
    PROVE  BatchStack'
<1> USE DEF cache, loading, calls, batches
<1>0. /\ ~cancelled /\ UNCHANGED <<index, build>> /\ batchLoadDepth = 1
      /\ stack \in Seq(BatchFrames) /\ PromoteLast(stack)
      /\ stack # <<>> /\ ~(Top.pc = "enter" /\ Top.promote) => OnCovered(stream)
  BY CallsLatch, CallsKeepBatches, NextFixesIndex DEF BatchStack, Phase, Next, Running
<1>1. BatchFrames' = BatchFrames /\ \A p : OnCovered(p) <=> OnCovered(p)'
  BY <1>0 DEF BatchFrames, OnCovered, Covered, Known
<1> DEFINE Good ==
        /\ stack' \in Seq(BatchFrames) /\ PromoteLast(stack')
        /\ stack' # <<>> /\ ~(Head(stack').pc = "enter" /\ Head(stack').promote)
           => OnCovered(stream')
<1>2. SUFFICES Good
  BY <1>1 DEF BatchStack, OnCovered, Covered, Known, Top
<1>3. stack # <<>>
  BY DEF LoadStep, LoadCancelled, CacheHit, IdTooLarge, CyclicDependency, NoPosition,
     UnknownType, StartRead, Begin, CacheMiss, Entered, ReadReference, ReadGarbage,
     Unread, GotReference, DropPartial, InsertBatchOwned, InsertPermanent, Insert,
     EndRead, AllRead, ResolveNext, ResolveSwap, ResolveDone, At
<1>4. /\ Top \in BatchFrames /\ Top \in LoadFrame /\ Tail(stack) \in Seq(BatchFrames)
      /\ Head(stack) = Top /\ Top.reSeek /\ Covered(Top.id) /\ Top.pc # "resolve"
      /\ Top.id \in Ids
      /\ Top.pc # "enter" => /\ index.entry[Top.id] = "good"
                             /\ ~Top.promote => OnCovered(Top.oldPos)
  BY <1>0, <1>3, TopIn DEF Top, BatchFrames, LoadFrame
<1>5. PromoteLast(Tail(stack)) /\ (Top.promote => Tail(stack) = <<>>)
  BY <1>0, <1>3, <1>4, PromoteTail
<1>6. OnCovered(Start(Top.id))
  BY <1>4 DEF OnCovered, Start
(* a call returns *)
<1>7. ASSUME stack' = Tail(stack), ~Top.promote => OnCovered(stream') PROVE Good
  BY <1>4, <1>5, <1>7
(* the call at the top goes on *)
<1>8. ASSUME NEW f \in BatchFrames, Become(f), f.promote = Top.promote, f.pc # "enter",
             OnCovered(stream')
      PROVE  Good
  <2>1. stack' = <<f>> \o Tail(stack)
    BY <1>8 DEF Become
  <2>2. stack' \in Seq(BatchFrames)
    BY <1>4, <2>1, PushOne
  <2>3. PromoteLast(stack')
    BY <1>0, <1>3, <1>4, <1>8, <2>1, PromoteReplace
  <2> QED BY <1>8, <2>2, <2>3
(* the call at the top calls another *)
<1>9. ASSUME NEW f \in BatchFrames, NEW g \in BatchFrames, Call(f, g),
             f.promote = Top.promote, ~g.promote, OnCovered(stream')
      PROVE  Good
  <2>1. stack' = <<g, f>> \o Tail(stack)
    BY <1>9 DEF Call
  <2>2. stack' \in Seq(BatchFrames)
    BY <1>4, <1>9, <2>1, PushTwo
  <2>3. PromoteLast(stack')
    BY <1>0, <1>3, <1>4, <1>9, <2>1, PromotePush
  <2> QED BY <1>9, <2>2, <2>3
<1>10. CASE LoadCancelled
  BY <1>10 DEF LoadCancelled
<1>11. CASE CacheHit \/ IdTooLarge \/ NoPosition
  BY <1>0, <1>3, <1>7, <1>11 DEF CacheHit, IdTooLarge, NoPosition, Return
<1>12. CASE UnknownType
  BY <1>0, <1>3, <1>4, <1>7, <1>12 DEF UnknownType, Return
<1>13. CASE CyclicDependency
  BY <1>6, <1>7, <1>13 DEF CyclicDependency, Return
<1>14. CASE StartRead
  <2> DEFINE f == [Top EXCEPT !.pc = "read", !.oldPos = stream]
  <2>1. Top.pc = "enter" /\ stream' = Start(Top.id) /\ Become(f)
        /\ index.entry[Top.id] = "good"
    BY <1>14 DEF StartRead, Begin, CacheMiss, Entered, At
  <2>2. /\ f \in LoadFrame /\ f.pc = "read" /\ f.promote = Top.promote
        /\ f.id = Top.id /\ f.reSeek = Top.reSeek /\ f.oldPos = stream
    BY <1>4 DEF LoadFrame, TypeOK
  <2> HIDE DEF f
  <2>3. f \in BatchFrames
    BY <1>0, <1>3, <1>4, <2>1, <2>2, Zenon DEF BatchFrames
  <2> QED BY <1>6, <1>8, <2>1, <2>2, <2>3
<1>15. CASE ReadReference
  <2> DEFINE r == index.fwd[stream.rec][stream.k + 1]
             f == [Top EXCEPT !.pc = "await", !.next = @ + 1,
                              !.misread = @ \/ ~InPlace]
             g == loadInstance(r, TRUE, FALSE)
  <2>1. /\ Top.pc = "read" /\ Call(f, g) /\ stream' = [stream EXCEPT !.k = @ + 1]
        /\ stream.k < Len(index.fwd[stream.rec])
    BY <1>15 DEF ReadReference, Unread, At
  <2>2. stream \in Position /\ stream.rec \in Ids /\ Covered(stream.rec)
    BY <1>0, <1>3, <2>1 DEF TypeOK, OnCovered
  <2>3. r \in Ids /\ Covered(r)
    <3>1. stream.k + 1 \in 1..Len(index.fwd[stream.rec]) /\ r \in Ids
      BY <2>1, <2>2, IndexType DEF TypeOK, Position
    <3>2. r \in Fwd(stream.rec)
      BY <3>1 DEF Fwd
    <3> QED BY <1>0, <2>2, <3>1, <3>2 DEF Closed
  <2> HIDE DEF r
  <2>4. /\ f \in LoadFrame /\ f.pc = "await" /\ f.promote = Top.promote
        /\ f.id = Top.id /\ f.reSeek = Top.reSeek /\ f.oldPos = Top.oldPos
    <3>1. (Top.misread \/ ~InPlace) \in BOOLEAN
      BY Zenon
    <3>2. f \in LoadFrame
      BY <1>4, <3>1, ReadingFrame, Zenon
    <3> QED BY <1>4, <3>2, Zenon DEF LoadFrame
  <2>5. /\ g \in LoadFrame /\ g.pc = "enter" /\ ~g.promote /\ g.id = r /\ g.reSeek
    <3>1. g \in LoadFrame
      BY <2>3, NewFrames
    <3> QED BY <3>1 DEF loadInstance
  <2>6. OnCovered(stream')
    BY <2>1, <2>2 DEF OnCovered, Position
  <2> HIDE DEF f, g
  <2>7. f \in BatchFrames
    BY <1>4, <2>1, <2>4, Zenon DEF BatchFrames
  <2>8. g \in BatchFrames
    BY <2>3, <2>5, Zenon DEF BatchFrames
  <2> QED BY <1>9, <2>1, <2>4, <2>5, <2>6, <2>7, <2>8
<1>16. ASSUME NEW f \in LoadFrame, Become(f), f.promote = Top.promote,
              f.id = Top.id, f.reSeek = Top.reSeek, f.oldPos = Top.oldPos,
              f.pc = "read", Top.pc # "enter", UNCHANGED stream
       PROVE  Good
  <2>1. f \in BatchFrames
    BY <1>4, <1>16, Zenon DEF BatchFrames
  <2> QED BY <1>0, <1>3, <1>8, <1>16, <2>1
<1>17. CASE ReadGarbage
  <2> DEFINE f == [Top EXCEPT !.next = @ + 1, !.misread = TRUE]
  <2>1. Become(f) /\ UNCHANGED stream /\ Top.pc = "read"
    BY <1>17 DEF ReadGarbage, Unread, At
  <2>2. f \in LoadFrame
    BY <1>4, ReadingFrame, Zenon
  <2>3. /\ f.promote = Top.promote /\ f.id = Top.id /\ f.reSeek = Top.reSeek
        /\ f.oldPos = Top.oldPos /\ f.pc = Top.pc
    BY <1>4, Zenon DEF LoadFrame
  <2> HIDE DEF f
  <2> QED BY <1>16, <2>1, <2>2, <2>3
<1>18. CASE GotReference
  <2> DEFINE f == [Top EXCEPT !.pc = "read",
                              !.got = IF ret = Null THEN @ ELSE @ \cup {ret}]
  <2>1. Become(f) /\ UNCHANGED stream /\ Top.pc = "await"
    BY <1>18 DEF GotReference, At
  <2>2. f \in LoadFrame
    BY <1>4 DEF LoadFrame, TypeOK
  <2>3. /\ f.promote = Top.promote /\ f.id = Top.id /\ f.reSeek = Top.reSeek
        /\ f.oldPos = Top.oldPos /\ f.pc = "read"
    BY <1>4 DEF LoadFrame
  <2> HIDE DEF f
  <2> QED BY <1>16, <2>1, <2>2, <2>3
<1>19. CASE DropPartial
  BY <1>19 DEF DropPartial
<1>20. CASE InsertBatchOwned
  <2>1. Top.pc = "read" /\ stack' = Tail(stack) /\ stream' = Top.oldPos
    BY <1>4, <1>20 DEF InsertBatchOwned, Insert, EndRead, AllRead, At, Return
  <2> QED BY <1>4, <1>7, <2>1
<1>21. CASE InsertPermanent
  BY <1>0, <1>21 DEF InsertPermanent
<1>22. CASE ResolveNext \/ ResolveSwap \/ ResolveDone
  BY <1>4, <1>22 DEF ResolveNext, ResolveSwap, ResolveDone, At
<1> QED BY <1>10, <1>11, <1>12, <1>13, <1>14, <1>15, <1>17, <1>18, <1>19, <1>20,
           <1>21, <1>22 DEF LoadStep

LEMMA NextBatchStack ==
    ASSUME TypeOK, Phase, Closed, BatchStack, [Next]_vars PROVE BatchStack'
<1> USE DEF batches, calls, cache
<1>0. UNCHANGED index /\ build \in Build
  BY NextFixesIndex DEF TypeOK
<1>1. ASSUME build' = build, ~cancelled' => ~cancelled, UNCHANGED <<stack, stream>>
      PROVE  BatchStack'
  BY <1>0, <1>1 DEF BatchStack, BatchFrames, OnCovered, Covered, Known, Top
<1>2. ASSUME build'.phase # "load" \/ cancelled' PROVE BatchStack'
  BY <1>2 DEF BatchStack
<1>3. CASE UNCHANGED vars
  BY <1>1, <1>3 DEF vars
<1>4. CASE LoadStep
  BY <1>2, <1>4, LoadStepStack, CallsKeepBatches
<1>5. CASE RefsStep
  <2>1. ASSUME build.phase = "load", ~cancelled PROVE FALSE
    <3>1. stack \in Seq(BatchFrames)
      BY <2>1 DEF BatchStack
    <3>2. stack # <<>> /\ Top.op = "lazyRefs"
      BY <1>5 DEF RefsStep, NoInverses, HasInverses, MapRefsToTypes, NullType,
         CheckAnInvAttr, RefsDone, LoadReferent, GotReferent, AttrDone, At
    <3>3. Top \in BatchFrames
      BY <3>1, <3>2, TopIn
    <3> QED BY <3>2, <3>3 DEF BatchFrames, LoadFrame
  <2> QED BY <1>2, <1>5, <2>1, CallsKeepBatches, CallsLatch
<1>6. CASE ExpandClosure \/ ClosureCancelled \/ ClosureDone \/ Pin \/ PinCancelled
           \/ MaterializeCancelled \/ LoadBatchDone
  <2>1. CASE ExpandClosure
    BY <1>0, <1>2, <2>1 DEF ExpandClosure, Building, Build
  <2>2. CASE ClosureCancelled \/ PinCancelled \/ MaterializeCancelled
    BY <1>2, <2>2 DEF ClosureCancelled, PinCancelled, MaterializeCancelled
  <2>3. CASE ClosureDone \/ Pin
    BY <1>0, <1>2, <2>3 DEF ClosureDone, Pin, Building, Build
  <2>4. CASE LoadBatchDone
    BY <1>2, <2>4 DEF LoadBatchDone, NoBuild
  <2> QED BY <1>6, <2>1, <2>2, <2>3, <2>4
<1>7. CASE PinDone
  BY <1>7 DEF PinDone, Building, BatchStack, PromoteLast
<1>8. CASE MaterializeNext
  <2>1. PICK i \in build.todo :
         /\ build' = [build EXCEPT !.todo = @ \ {i}]
         /\ stack' = <<loadInstance(i, TRUE, TRUE)>>
    BY <1>8 DEF MaterializeNext
  <2> DEFINE f == loadInstance(i, TRUE, TRUE)
  <2>2. build'.closure = build.closure /\ i \in build.closure /\ i \in Ids
    BY <1>0, <1>8, <2>1 DEF MaterializeNext, Building, Closed, Build
  <2>3. f \in LoadFrame
    BY <2>2, NewFrames
  <2>4. f.pc = "enter" /\ f.promote /\ f.id = i /\ f.reSeek
    BY DEF loadInstance
  <2> HIDE DEF f
  <2>5. f \in BatchFrames'
    BY <1>0, <2>2, <2>3, <2>4, Zenon DEF BatchFrames, Covered, Known
  <2>6. stack' \in Seq(BatchFrames')
    BY <2>1, <2>5, OneFrame, Zenon DEF f
  <2>7. Len(stack') = 1 /\ Head(stack') = f
    BY <2>1 DEF f
  <2>8. PromoteLast(stack')
    BY <2>7 DEF PromoteLast
  <2>9. stack' \in Seq(BatchFrames)' /\ Top' = f
    BY <2>6, <2>7 DEF Top
  <2> QED BY <2>4, <2>8, <2>9 DEF BatchStack
<1>9. CASE Client
  <2>1. build'.phase # "load"
    BY <1>0, <1>9 DEF Client, LoadInstance, LoadBatch, ReleaseBatch, MoveBatch, Release,
       Idle, NoBuild
  <2> QED BY <1>2, <2>1
<1> QED BY <1>3, <1>4, <1>5, <1>6, <1>7, <1>8, <1>9 DEF Next, Running, BatchStep

LEMMA NextOwned ==
    ASSUME TypeOK, Phase, Pinning, BatchStack, Owned, [Next]_vars PROVE Owned'
<1> USE DEF batches, cache, OnlyPinnedOrPermanent
<1>1. ASSUME UNCHANGED <<instancesLoaded, batchOwnedInstances>>,
             permanentlyLoadedInstances \subseteq permanentlyLoadedInstances',
             \A i \in Ids : pinCounts[i] > 0 => pinCounts'[i] > 0
      PROVE  Owned'
  BY <1>1 DEF Owned, TypeOK
<1>2. CASE UNCHANGED vars
  BY <1>1, <1>2 DEF vars
<1>3. CASE LoadStep
  <2>1. UNCHANGED batches
    BY <1>3, CallsKeepBatches
  <2>2. CASE InsertBatchOwned
    <3>1. /\ instancesLoaded' = instancesLoaded \cup {Top.id}
          /\ batchOwnedInstances' = batchOwnedInstances \cup {Top.id}
          /\ UNCHANGED permanentlyLoadedInstances
          /\ batchLoadDepth > 0 /\ ~cancelled /\ stack # <<>> /\ Top.pc = "read"
      BY <2>2 DEF InsertBatchOwned, Insert, EndRead, AllRead, At, PollsFalse
    <3>2. build.phase = "load"
      BY <3>1 DEF Phase
    <3>3. Top \in BatchFrames
      BY <3>1, <3>2, TopIn DEF BatchStack
    <3>4. Top.id \in Ids /\ Top.id \in build.closure
      BY <3>1, <3>3 DEF BatchFrames, LoadFrame, Covered, Known
    <3>5. Top.id \in build.pinned
      BY <3>2, <3>4 DEF Pinning, Handover
    <3>6. pinCounts[Top.id] > 0
      BY <3>4, <3>5, HoldersType DEF Pinning, PinsMatchBatches
    <3> QED BY <2>1, <3>1, <3>6 DEF Owned
  <2>3. CASE InsertPermanent
    BY <2>1, <2>3 DEF InsertPermanent, Insert, Owned
  <2>4. CASE ~InsertBatchOwned /\ ~InsertPermanent
    <3>1. /\ UNCHANGED <<instancesLoaded, batchOwnedInstances>>
          /\ permanentlyLoadedInstances \subseteq permanentlyLoadedInstances'
      BY <1>3, <2>4
      DEF LoadStep, LoadCancelled, CacheHit, IdTooLarge, CyclicDependency,
          NoPosition, UnknownType, StartRead, ReadReference, ReadGarbage, GotReference,
          DropPartial, ResolveNext, ResolveSwap, ResolveDone
    <3> QED BY <1>1, <2>1, <3>1
  <2> QED BY <2>2, <2>3, <2>4
<1>4. CASE RefsStep
  BY <1>1, <1>4
  DEF RefsStep, NoInverses, MapRefsToTypes, NullType, CheckAnInvAttr, RefsDone,
      LoadReferent, GotReferent, AttrDone
<1>5. CASE BatchStep
  <2>1. UNCHANGED cache
    BY <1>5 DEF BatchStep, ExpandClosure, ClosureCancelled, ClosureDone, Pin,
       PinCancelled, PinDone, MaterializeNext, MaterializeCancelled, LoadBatchDone
  <2>2. \A i \in Ids : pinCounts[i] > 0 => pinCounts'[i] > 0
    <3>1. CASE Pin
      BY <3>1 DEF Pin, TypeOK
    <3>2. CASE ~Pin
      BY <1>5, <3>2 DEF BatchStep, ExpandClosure, ClosureCancelled, ClosureDone,
         PinCancelled, PinDone, MaterializeNext, MaterializeCancelled, LoadBatchDone
    <3> QED BY <3>1, <3>2
  <2> QED BY <1>1, <2>1, <2>2
<1>6. ASSUME NEW h \in Handles, Release(h) PROVE Owned'
  <2> DEFINE gone == Evicted(held[h])
  <2>1. /\ instancesLoaded' = instancesLoaded \ gone
        /\ batchOwnedInstances' = batchOwnedInstances \ gone
        /\ UNCHANGED permanentlyLoadedInstances
    BY <1>6 DEF Release
  <2>2. ASSUME NEW i \in instancesLoaded \ gone, i \notin permanentlyLoadedInstances
        PROVE  i \in batchOwnedInstances /\ pinCounts'[i] > 0
    <3>1. i \in Ids /\ i \in batchOwnedInstances /\ pinCounts[i] > 0 /\ pinCounts[i] \in Nat
      BY <2>2 DEF Owned, TypeOK
    <3>2. i \in held[h] => pinCounts[i] # 1
      BY <2>2, <3>1 DEF Evicted, Unpinned
    <3>3. pinCounts'[i] = IF i \in held[h] THEN pinCounts[i] - 1 ELSE pinCounts[i]
      BY <1>6, <3>1 DEF Release
    <3> QED BY <3>1, <3>2, <3>3
  <2> HIDE DEF gone
  <2> QED BY <2>1, <2>2 DEF Owned
<1>7. CASE Client
  <2>1. CASE LoadInstance BY <1>1, <2>1 DEF LoadInstance
  <2>2. ASSUME NEW h \in Handles, LoadBatch(h) PROVE Owned'
    BY <1>1, <2>2 DEF LoadBatch
  <2>3. ASSUME NEW h \in Handles, ReleaseBatch(h) PROVE Owned'
    BY <1>6, <2>3 DEF ReleaseBatch
  <2>4. ASSUME NEW g \in Handles, NEW h \in Handles, MoveBatch(g, h) PROVE Owned'
    BY <1>1, <1>6, <2>4 DEF MoveBatch
  <2> QED BY <1>7, <2>1, <2>2, <2>3, <2>4 DEF Client
<1> QED BY <1>2, <1>3, <1>4, <1>5, <1>7 DEF Next, Running

Ownership == Closed /\ BatchStack /\ Owned

LEMMA OwnershipInv == Spec => []Ownership
<1>1. Init => Ownership
  <2> SUFFICES ASSUME Init PROVE Ownership
    OBVIOUS
  <2>1. build.phase = "idle" /\ instancesLoaded = {}
    BY DEF Init, NoBuild
  <2> QED BY <2>1 DEF Ownership, Closed, BatchStack, Owned, OnlyPinnedOrPermanent
<1>2. TypeOK /\ Phase /\ Pinning /\ Ownership /\ [Next]_vars => Ownership'
  BY NextClosed, NextBatchStack, NextOwned DEF Pinning, Ownership
<1> QED BY <1>1, <1>2, TypeInv, PinInv, PTL DEF Spec

(* What is cached and was not loaded for good is pinned by some batch, the *)
(* one under construction included: a release that takes the last pin of   *)
(* an instance deletes it, and no batch ever caches what it does not hold. *)
THEOREM NoUnheldLeftover == Spec => []OnlyPinnedOrPermanent
<1>1. Ownership => OnlyPinnedOrPermanent
  BY DEF Ownership, Owned
<1> QED BY <1>1, OwnershipInv, PTL

-----------------------------------------------------------------------------
(* The refinement *)

LEMMA InitRefines == Init => Cache!Init
BY HandlesAssumption DEF Init, Cache!Init, Holds, NoBuild

LEMMA HoldsSame ==
    ASSUME build'.handle = build.handle, build'.pinned = build.pinned, held' = held
    PROVE  Holds' = Holds
BY DEF Holds

LEMMA CallsRefine ==
    ASSUME TypeOK, Phase, Pinning, BatchStack, LoadStep \/ RefsStep
    PROVE  [Cache!Next]_Cache!vars
<1> USE DEF cache, Cache!vars
<1>0. Holds' = Holds /\ UNCHANGED batches
  BY CallsKeepBatches, HoldsSame DEF batches
<1>1. ASSUME UNCHANGED <<instancesLoaded, permanentlyLoadedInstances>>
      PROVE  UNCHANGED Cache!vars
  BY <1>0, <1>1
<1>2. CASE CacheHit
  <2>1. CASE Top.promote /\ batchLoadDepth = 0
    <3>1. Top.id \in Ids
      BY <1>2, LoadTop DEF CacheHit, Entered, LoadFrame
    <3>2. Cache!AdmitForGood(Top.id)
      BY <1>0, <1>2, <2>1 DEF CacheHit, Cache!AdmitForGood
    <3> QED BY <3>1, <3>2 DEF Cache!Next
  <2>2. CASE ~(Top.promote /\ batchLoadDepth = 0)
    BY <1>1, <1>2, <2>2 DEF CacheHit
  <2> QED BY <2>1, <2>2
<1>3. CASE InsertBatchOwned
  <2>1. /\ instancesLoaded' = instancesLoaded \cup {Top.id}
        /\ UNCHANGED permanentlyLoadedInstances
        /\ batchLoadDepth > 0 /\ ~cancelled /\ stack # <<>> /\ Top.pc = "read"
    BY <1>3 DEF InsertBatchOwned, Insert, EndRead, AllRead, At, PollsFalse
  <2>2. build.phase = "load" /\ build.handle \in Handles
    BY <2>1 DEF Phase
  <2>3. Top \in BatchFrames
    BY <2>1, <2>2, TopIn DEF BatchStack
  <2>4. Top.id \in Ids /\ Top.id \in Holds[build.handle]
    BY <2>1, <2>2, <2>3 DEF BatchFrames, LoadFrame, Covered, Known, Pinning, Handover,
       Holds
  <2>5. CASE Top.id \in instancesLoaded
    BY <1>1, <2>1, <2>5
  <2>6. CASE Top.id \notin instancesLoaded
    <3>1. Cache!Admit(Top.id)
      BY <1>0, <2>1, <2>2, <2>4, <2>6 DEF Cache!Admit, Cache!Held
    <3> QED BY <2>4, <3>1 DEF Cache!Next
  <2> QED BY <2>5, <2>6
<1>4. CASE InsertPermanent
  <2>1. Top.id \in Ids
    BY <1>4, LoadTop DEF InsertPermanent, Insert, EndRead, AllRead, LoadFrame
  <2>2. Cache!AdmitForGood(Top.id)
    BY <1>0, <1>4 DEF InsertPermanent, Insert, Cache!AdmitForGood
  <2> QED BY <2>1, <2>2 DEF Cache!Next
<1>5. CASE LoadStep /\ ~CacheHit /\ ~InsertBatchOwned /\ ~InsertPermanent
  BY <1>1, <1>5
  DEF LoadStep, LoadCancelled, IdTooLarge, CyclicDependency, NoPosition, UnknownType,
      StartRead, ReadReference, ReadGarbage, GotReference, DropPartial, ResolveNext,
      ResolveSwap, ResolveDone
<1>6. CASE RefsStep
  BY <1>1, <1>6
  DEF RefsStep, NoInverses, MapRefsToTypes, NullType, CheckAnInvAttr, RefsDone,
      LoadReferent, GotReferent, AttrDone
<1> QED BY <1>2, <1>3, <1>4, <1>5, <1>6

LEMMA BuildRefines ==
    ASSUME TypeOK, Phase, Pinning, BatchStep
    PROVE  [Cache!Next]_Cache!vars
<1> USE DEF cache, Cache!vars
<1>0. build \in Build
  BY DEF TypeOK
<1>1. ASSUME Holds' = Holds, UNCHANGED cache PROVE UNCHANGED Cache!vars
  BY <1>1
<1>2. CASE ExpandClosure
  BY <1>0, <1>1, <1>2, HoldsSame DEF ExpandClosure, Build
<1>3. CASE ClosureCancelled \/ ClosureDone \/ PinCancelled \/ PinDone
           \/ MaterializeNext \/ MaterializeCancelled
  BY <1>0, <1>1, <1>3, HoldsSame
  DEF ClosureCancelled, ClosureDone, PinCancelled, PinDone, MaterializeNext,
      MaterializeCancelled, Build
<1>4. CASE Pin
  <2>1. PICK i \in build.todo :
            build' = [build EXCEPT !.todo = @ \ {i}, !.pinned = @ \cup {i}]
    BY <1>4 DEF Pin
  <2>2. /\ i \in Ids /\ build.handle \in Handles /\ build'.handle = build.handle
        /\ build'.pinned = build.pinned \cup {i} /\ held' = held
    BY <1>0, <1>4, <2>1 DEF Pin, Building, Phase, Build
  <2>3. Holds' = [Holds EXCEPT ![build.handle] = @ \cup {i}]
    BY <2>2 DEF Holds
  <2>4. Cache!Hold(build.handle, i)
    BY <1>4, <2>3 DEF Pin, Cache!Hold
  <2> QED BY <2>2, <2>4 DEF Cache!Next
<1>5. CASE LoadBatchDone
  <2>1. /\ build.handle \in Handles /\ build.pinned = build.closure
        /\ held' = [held EXCEPT ![build.handle] = build.closure]
        /\ build'.handle = NoHandle
    BY <1>5 DEF LoadBatchDone, Building, Phase, Pinning, Handover, NoBuild
  <2>2. Holds' = Holds
    BY <2>1, HandlesAssumption DEF Holds, TypeOK
  <2> QED BY <1>1, <1>5, <2>2 DEF LoadBatchDone
<1> QED BY <1>2, <1>3, <1>4, <1>5 DEF BatchStep

HeldIffPinned == \A i \in Ids : Cache!Held(i) <=> pinCounts[i] > 0

LEMMA PinnedAreHeld ==
    TypeOK /\ Pinning /\ build.phase = "idle" => HeldIffPinned
<1> SUFFICES ASSUME TypeOK, Pinning, build.phase = "idle", NEW i \in Ids
             PROVE  Cache!Held(i) <=> pinCounts[i] > 0
  BY DEF HeldIffPinned
<1>1. Holds = held
  BY DEF Holds, Pinning, Handover, TypeOK
<1>2. build.pinned = {} /\ Cardinality(Holders(i)) \in Nat
  BY HoldersType DEF Pinning, Handover
<1>3. pinCounts[i] = Cardinality(Holders(i))
  BY <1>2 DEF Pinning, PinsMatchBatches
<1>4. Cache!Held(i) <=> Holders(i) # {}
  BY <1>1 DEF Cache!Held, Holders
<1>5. Cardinality(Holders(i)) = 0 <=> Holders(i) = {}
  BY HoldersType, FS_EmptySet
<1> QED BY <1>2, <1>3, <1>4, <1>5

LEMMA PinnedAreHeldNext ==
    (TypeOK /\ Pinning /\ build.phase = "idle" => HeldIffPinned)'
BY PinnedAreHeld, PTL

LEMMA ClientRefines ==
    ASSUME TypeOK, Phase, Pinning, Owned, TypeOK', Pinning', Owned', Client
    PROVE  [Cache!Next]_Cache!vars
<1> USE DEF cache, Cache!vars
<1>1. CASE LoadInstance
  BY <1>1, HoldsSame DEF LoadInstance, batches
<1>2. ASSUME NEW h \in Handles, LoadBatch(h) PROVE UNCHANGED Cache!vars
  <2>1. PICK roots \in RootSets :
         build' = [NoBuild EXCEPT !.phase = "closure", !.handle = h,
                                  !.todo = roots, !.closure = roots]
    BY <1>2 DEF LoadBatch
  <2>2. /\ build'.handle = h /\ build'.pinned = {} /\ held' = held /\ held[h] = {}
        /\ build.handle \notin Handles
    BY <1>2, <2>1 DEF LoadBatch, Idle, NoBuild, Pinning, Handover
  <2>3. Holds' = Holds
    BY <2>2 DEF Holds, TypeOK
  <2> QED BY <1>2, <2>3 DEF LoadBatch
(* Whatever the client lets go of, what is left is what is needed. *)
<1>3. ASSUME build.phase = "idle", build' = build, UNCHANGED permanentlyLoadedInstances,
             instancesLoaded' \subseteq instancesLoaded,
             \A i \in instancesLoaded \ instancesLoaded' :
                 i \notin permanentlyLoadedInstances /\ pinCounts'[i] = 0
      PROVE  instancesLoaded' = {i \in instancesLoaded : Cache!Needed(i)'}
  <2>1. ASSUME NEW i \in Ids
        PROVE  Cache!Needed(i)' <=> i \in permanentlyLoadedInstances' \/ pinCounts'[i] > 0
    BY <1>3, PinnedAreHeldNext DEF HeldIffPinned, Cache!Needed
  <2>2. ASSUME NEW i \in instancesLoaded' PROVE Cache!Needed(i)'
    BY <1>3, <2>1, <2>2 DEF Owned, OnlyPinnedOrPermanent, TypeOK
  <2>3. ASSUME NEW i \in instancesLoaded, i \notin instancesLoaded'
        PROVE  ~Cache!Needed(i)'
    BY <1>3, <2>1, <2>3 DEF TypeOK
  <2> QED BY <1>3, <2>2, <2>3
<1>4. ASSUME NEW h \in Handles, Release(h), build.phase = "idle"
      PROVE  /\ UNCHANGED permanentlyLoadedInstances
             /\ instancesLoaded' \subseteq instancesLoaded
             /\ \A i \in instancesLoaded \ instancesLoaded' :
                   i \notin permanentlyLoadedInstances /\ pinCounts'[i] = 0
  BY <1>4 DEF Release, Evicted, Unpinned, TypeOK
<1>5. ASSUME build.phase = "idle", build' = build
      PROVE  Holds = held /\ Holds' = held'
  BY <1>5 DEF Holds, Pinning, Handover, TypeOK
<1>6. ASSUME NEW h \in Handles, ReleaseBatch(h) PROVE Cache!Next
  <2>1. /\ Release(h) /\ build.phase = "idle" /\ build' = build
        /\ held' = [held EXCEPT ![h] = {}]
    BY <1>6 DEF ReleaseBatch, Release, Idle
  <2>2. instancesLoaded' = {i \in instancesLoaded : Cache!Needed(i)'}
    BY <1>3, <1>4, <2>1
  <2>3. Cache!LetGo(h, h)
    BY <1>4, <1>5, <2>1, <2>2 DEF Cache!LetGo
  <2> QED BY <2>3 DEF Cache!Next
<1>7. ASSUME NEW g \in Handles, NEW h \in Handles, MoveBatch(g, h) PROVE Cache!Next
  <2>1. /\ build.phase = "idle" /\ build' = build /\ g # h
        /\ held' = [held EXCEPT ![h] = held[g], ![g] = {}]
        /\ Release(h) \/ UNCHANGED cache
    BY <1>7 DEF MoveBatch, Release, Idle
  <2>2. /\ instancesLoaded' = {i \in instancesLoaded : Cache!Needed(i)'}
        /\ UNCHANGED permanentlyLoadedInstances
    BY <1>3, <1>4, <2>1
  <2>3. Cache!LetGo(h, g)
    BY <1>5, <2>1, <2>2 DEF Cache!LetGo
  <2> QED BY <2>3 DEF Cache!Next
<1> QED BY <1>1, <1>2, <1>6, <1>7 DEF Client

(* The manager implements PinnedCache: every step of it is a step of the   *)
(* cache a client is promised, or does not change what the client sees.    *)
THEOREM Refines == Spec => ImplementsPinnedCache
<1>1. ASSUME TypeOK, Phase, Pinning, Ownership, TypeOK', Pinning', Ownership', [Next]_vars
      PROVE  [Cache!Next]_Cache!vars
  <2>1. CASE UNCHANGED vars
    BY <2>1, HoldsSame DEF vars, cache, batches, Cache!vars
  <2>2. CASE Next
    BY <1>1, <2>2, CallsRefine, BuildRefines, ClientRefines
    DEF Next, Running, Ownership
  <2> QED BY <1>1, <2>1, <2>2
<1> QED BY <1>1, InitRefines, TypeInv, PinInv, OwnershipInv, PTL
        DEF Spec, ImplementsPinnedCache, Cache!Spec
==============================================================================
