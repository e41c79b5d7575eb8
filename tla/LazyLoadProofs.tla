----------------------------- MODULE LazyLoadProofs -----------------------------
(***************************************************************************)
(* Theorems about the calls in progress of LazyInstMgr, for every set of   *)
(* instances and handles and every index: which instances are being read,  *)
(* what the counters say, that a batch ends complete, and that inverse     *)
(* attributes do; and about what a client of batches finds in the objects. *)
(***************************************************************************)
EXTENDS LazyInstMgrProofs

-----------------------------------------------------------------------------
(* The loading guards.  No two active calls read the same instance: the    *)
(* second would have met the id in _instancesLoading.                      *)

IsReading(f)  == f.op = "load" /\ f.pc \in {"read", "await"}
ReadingOf(s)  == {s[k].id : k \in {n \in 1..Len(s) : IsReading(s[n])}}
ReadsOnce(s)  == \A j, k \in 1..Len(s) :
                    IsReading(s[j]) /\ IsReading(s[k]) /\ s[j].id = s[k].id => j = k

Guards == LoadingIsStack /\ ReadsOnce(stack)

LEMMA ReadingOfPush ==
    ASSUME NEW S, NEW t \in Seq(S), NEW f \in S
    PROVE  /\ ReadingOf(<<f>> \o t)
                = (IF IsReading(f) THEN {f.id} ELSE {}) \cup ReadingOf(t)
           /\ ReadsOnce(<<f>> \o t)
                <=> ReadsOnce(t) /\ (IsReading(f) => f.id \notin ReadingOf(t))
<1> DEFINE u == <<f>> \o t
<1>1. /\ Len(u) = Len(t) + 1 /\ Len(t) \in Nat /\ u[1] = f
      /\ \A k \in 1..Len(t) : u[k + 1] = t[k]
      /\ \A k \in 2..Len(u) : u[k] = t[k - 1] /\ k - 1 \in 1..Len(t)
  OBVIOUS
<1> HIDE DEF u
<1>2. ReadingOf(u) = (IF IsReading(f) THEN {f.id} ELSE {}) \cup ReadingOf(t)
  <2>1. ASSUME NEW i \in ReadingOf(u)
        PROVE  i \in (IF IsReading(f) THEN {f.id} ELSE {}) \cup ReadingOf(t)
    <3>1. PICK k \in 1..Len(u) : IsReading(u[k]) /\ u[k].id = i
      BY <2>1 DEF ReadingOf
    <3>2. k = 1 \/ k \in 2..Len(u)
      BY <1>1, <3>1
    <3> QED BY <1>1, <3>1, <3>2 DEF ReadingOf
  <2>2. ASSUME NEW i \in ReadingOf(t) PROVE i \in ReadingOf(u)
    <3>1. PICK k \in 1..Len(t) : IsReading(t[k]) /\ t[k].id = i
      BY <2>2 DEF ReadingOf
    <3>2. k + 1 \in 1..Len(u) /\ u[k + 1] = t[k]
      BY <1>1
    <3> QED BY <3>1, <3>2 DEF ReadingOf
  <2>3. IsReading(f) => f.id \in ReadingOf(u)
    <3>1. 1 \in 1..Len(u)
      BY <1>1
    <3> QED BY <1>1, <3>1 DEF ReadingOf
  <2> QED BY <2>1, <2>2, <2>3
<1>3. ReadsOnce(u) => ReadsOnce(t) /\ (IsReading(f) => f.id \notin ReadingOf(t))
  <2> SUFFICES ASSUME ReadsOnce(u)
               PROVE  ReadsOnce(t) /\ (IsReading(f) => f.id \notin ReadingOf(t))
    OBVIOUS
  <2>1. ASSUME NEW j \in 1..Len(t), NEW k \in 1..Len(t),
               IsReading(t[j]), IsReading(t[k]), t[j].id = t[k].id
        PROVE  j = k
    <3>1. /\ j + 1 \in 1..Len(u) /\ u[j + 1] = t[j]
          /\ k + 1 \in 1..Len(u) /\ u[k + 1] = t[k]
      BY <1>1
    <3>2. j + 1 = k + 1
      BY <2>1, <3>1 DEF ReadsOnce
    <3> QED BY <3>2
  <2>2. ASSUME IsReading(f), f.id \in ReadingOf(t) PROVE FALSE
    <3>1. PICK k \in 1..Len(t) : IsReading(t[k]) /\ t[k].id = f.id
      BY <2>2 DEF ReadingOf
    <3>2. k + 1 \in 1..Len(u) /\ u[k + 1] = t[k] /\ 1 \in 1..Len(u)
      BY <1>1
    <3>3. k + 1 = 1
      BY <1>1, <2>2, <3>1, <3>2 DEF ReadsOnce
    <3> QED BY <3>3
  <2> QED BY <2>1, <2>2 DEF ReadsOnce
<1>4. ReadsOnce(t) /\ (IsReading(f) => f.id \notin ReadingOf(t)) => ReadsOnce(u)
  <2> SUFFICES ASSUME ReadsOnce(t), IsReading(f) => f.id \notin ReadingOf(t),
                      NEW j \in 1..Len(u), NEW k \in 1..Len(u),
                      IsReading(u[j]), IsReading(u[k]), u[j].id = u[k].id
               PROVE  j = k
    BY DEF ReadsOnce
  <2>1. ASSUME NEW m \in 2..Len(u), IsReading(u[m]) PROVE u[m].id \in ReadingOf(t)
    BY <1>1, <2>1 DEF ReadingOf
  <2>2. CASE j \in 2..Len(u) /\ k \in 2..Len(u)
    <3>1. j - 1 = k - 1
      BY <1>1, <2>2 DEF ReadsOnce
    <3> QED BY <2>2, <3>1
  <2>3. CASE j = 1 \/ k = 1
    BY <1>1, <2>1, <2>3
  <2> QED BY <1>1, <2>2, <2>3
<1> QED BY <1>2, <1>3, <1>4 DEF u

LEMMA QuietPush ==
    ASSUME NEW S, NEW t \in Seq(S), NEW f \in S, ~IsReading(f)
    PROVE  /\ ReadingOf(<<f>> \o t) = ReadingOf(t)
           /\ ReadsOnce(<<f>> \o t) <=> ReadsOnce(t)
<1>1. ReadingOf(<<f>> \o t) = {} \cup ReadingOf(t)
  BY ReadingOfPush
<1>2. ReadsOnce(<<f>> \o t) <=> ReadsOnce(t)
  BY ReadingOfPush
<1> QED BY <1>1, <1>2

(* The stack taken apart *)
LEMMA StackSplit ==
    ASSUME NEW S, stack \in Seq(S), stack # <<>>
    PROVE  /\ Top \in S /\ Tail(stack) \in Seq(S)
           /\ stack = <<Top>> \o Tail(stack)
BY HeadTailProperties DEF Top

LEMMA ReadingIsReadingOf == Reading = ReadingOf(stack)
BY DEF Reading, ReadingOf, IsReading

(* A step of a call that neither starts nor ends a read. *)
LEMMA QuietGuards ==
    ASSUME TypeOK, Guards, stack # <<>>, UNCHANGED <<instancesLoading, instancesLoaded>>,
           \/ stack' = Tail(stack) /\ ~IsReading(Top)
           \/ \E f \in Frame :
                /\ f.id = Top.id /\ (IsReading(f) <=> IsReading(Top))
                /\ \/ stack' = <<f>> \o Tail(stack)
                   \/ \E g \in Frame : /\ ~IsReading(g)
                                       /\ stack' = <<g, f>> \o Tail(stack)
    PROVE  Guards'
<1> DEFINE t == Tail(stack)
<1>1. /\ Top \in Frame /\ t \in Seq(Frame) /\ stack = <<Top>> \o t
  BY StackSplit DEF TypeOK
<1> HIDE DEF t
<1>2. /\ ReadingOf(stack) = (IF IsReading(Top) THEN {Top.id} ELSE {}) \cup ReadingOf(t)
      /\ ReadsOnce(t) /\ (IsReading(Top) => Top.id \notin ReadingOf(t))
  BY <1>1, ReadingOfPush DEF Guards
<1>3. ASSUME NEW s, stack' = s, ReadingOf(s) = ReadingOf(stack), ReadsOnce(s)
      PROVE  Guards'
  BY <1>3 DEF Guards, LoadingIsStack, Reading, ReadingOf, IsReading, ReadsOnce
<1>4. ASSUME NEW f \in Frame, f.id = Top.id, IsReading(f) <=> IsReading(Top)
      PROVE  ReadingOf(<<f>> \o t) = ReadingOf(stack) /\ ReadsOnce(<<f>> \o t)
  BY <1>1, <1>2, <1>4, ReadingOfPush
<1>5. CASE stack' = t /\ ~IsReading(Top)
  BY <1>2, <1>3, <1>5
<1>6. ASSUME NEW f \in Frame, f.id = Top.id, IsReading(f) <=> IsReading(Top),
             stack' = <<f>> \o t
      PROVE  Guards'
  BY <1>3, <1>4, <1>6
<1>7. ASSUME NEW f \in Frame, f.id = Top.id, IsReading(f) <=> IsReading(Top),
             NEW g \in Frame, ~IsReading(g), stack' = <<g, f>> \o t
      PROVE  Guards'
  <2>1. <<g, f>> \o t = <<g>> \o (<<f>> \o t) /\ <<f>> \o t \in Seq(Frame)
    BY <1>1
  <2>2. ReadingOf(<<f>> \o t) = ReadingOf(stack) /\ ReadsOnce(<<f>> \o t)
    BY <1>4, <1>7
  <2> DEFINE u == <<f>> \o t
  <2>3. u \in Seq(Frame) /\ ReadingOf(u) = ReadingOf(stack) /\ ReadsOnce(u)
    BY <2>1, <2>2
  <2> HIDE DEF u
  <2>4. ReadingOf(<<g>> \o u) = ReadingOf(stack) /\ ReadsOnce(<<g>> \o u)
    BY <1>7, <2>3, QuietPush
  <2>5. stack' = <<g>> \o u
    BY <1>7, <2>1 DEF u
  <2> QED BY <1>3, <2>4, <2>5
<1> QED BY <1>5, <1>6, <1>7 DEF t

(* The steps of loadInstance.  StartRead is refused for an id being read,  *)
(* Insert and DropPartial release the one that was taken.                  *)
LEMMA LoadStepGuards ==
    ASSUME TypeOK, Guards, LoadStep PROVE Guards'
<1> USE DEF cache, loading, calls, batches
<1> DEFINE t == Tail(stack)
<1>1. /\ stack # <<>> /\ Top \in LoadFrame /\ t \in Seq(Frame) /\ Top.op = "load"
      /\ stack = <<Top>> \o t
  <2>1. \E pc : At("load", pc)
    BY DEF LoadStep, LoadCancelled, CacheHit, IdTooLarge, CyclicDependency, NoPosition,
       UnknownType, StartRead, Begin, CacheMiss, Entered, ReadReference, ReadGarbage,
       Unread, GotReference, DropPartial, InsertBatchOwned, InsertPermanent, Insert,
       EndRead, AllRead, ResolveNext, ResolveSwap, ResolveDone
  <2> QED BY <2>1, LoadTop, StackSplit DEF TypeOK, At
<1>2. ASSUME UNCHANGED <<instancesLoading, instancesLoaded>>, stack' = t,
             Top.pc \in {"enter", "resolve"}
      PROVE  Guards'
  BY <1>1, <1>2, QuietGuards DEF IsReading
<1>3. ASSUME UNCHANGED <<instancesLoading, instancesLoaded>>, NEW f \in LoadFrame,
             f.id = Top.id, IsReading(f) <=> IsReading(Top),
             \/ stack' = <<f>> \o t
             \/ \E g \in Frame : ~IsReading(g) /\ stack' = <<g, f>> \o t
      PROVE  Guards'
  BY <1>1, <1>3, QuietGuards DEF Frame
<1>4. CASE LoadCancelled \/ CacheHit \/ IdTooLarge \/ CyclicDependency
           \/ NoPosition \/ UnknownType \/ ResolveDone
  BY <1>2, <1>4 DEF LoadCancelled, CacheHit, IdTooLarge, CyclicDependency, NoPosition,
     UnknownType, Begin, CacheMiss, Entered, ResolveDone, At, Return
<1>5. CASE StartRead
  <2> DEFINE f == [Top EXCEPT !.pc = "read", !.oldPos = stream]
  <2>1. /\ Top.pc = "enter" /\ stack' = <<f>> \o t /\ UNCHANGED instancesLoaded
        /\ instancesLoading' = instancesLoading \cup {Top.id}
        /\ Top.id \notin instancesLoading /\ Top.id \notin instancesLoaded
    BY <1>5 DEF StartRead, Begin, CacheMiss, Entered, At, Become
  <2>2. f \in Frame /\ f.id = Top.id /\ IsReading(f)
    BY <1>1 DEF Frame, LoadFrame, TypeOK, IsReading
  <2> HIDE DEF f, t
  <2>3. ReadingOf(t) = instancesLoading /\ ReadsOnce(t)
    <3>1. Top \in Frame /\ ~IsReading(Top)
      BY <1>1, <2>1 DEF IsReading, Frame
    <3>2. ReadingOf(stack) = ReadingOf(t) /\ (ReadsOnce(stack) <=> ReadsOnce(t))
      BY <1>1, <3>1, QuietPush
    <3> QED BY <3>2, ReadingIsReadingOf DEF Guards, LoadingIsStack
  <2>4. ReadingOf(stack') = instancesLoading' /\ ReadsOnce(stack')
    BY <1>1, <2>1, <2>2, <2>3, ReadingOfPush
  <2>5. Reading' = ReadingOf(stack')
    BY DEF Reading, ReadingOf, IsReading
  <2> QED BY <2>1, <2>4, <2>5 DEF Guards, LoadingIsStack
<1>6. CASE ReadReference
  <2> DEFINE f == [Top EXCEPT !.pc = "await", !.next = @ + 1,
                              !.misread = @ \/ ~InPlace]
             g == loadInstance(index.fwd[stream.rec][stream.k + 1], TRUE, FALSE)
  <2>1. /\ Top.pc = "read" /\ stack' = <<g, f>> \o t
        /\ UNCHANGED <<instancesLoading, instancesLoaded>>
    BY <1>6 DEF ReadReference, Unread, At, Call
  <2>2. f \in LoadFrame
    <3>1. (Top.misread \/ ~InPlace) \in BOOLEAN
      BY Zenon
    <3> QED BY <1>1, <3>1, ReadingFrame, Zenon
  <2>3. f.id = Top.id /\ IsReading(f) /\ IsReading(Top)
    BY <1>1, <2>1, <2>2, Zenon DEF LoadFrame, IsReading
  <2>4. g \in Frame /\ ~IsReading(g)
    <3>1. index.fwd[stream.rec][stream.k + 1] \in Ids
      BY <1>6, IndexType DEF ReadReference, TypeOK, Position, Null
    <3>2. g \in LoadFrame
      BY <3>1, NewFrames
    <3> QED BY <3>2 DEF Frame, loadInstance, IsReading
  <2> HIDE DEF f, g, t
  <2> QED BY <1>3, <2>1, <2>2, <2>3, <2>4
<1>7. CASE ReadGarbage
  <2> DEFINE f == [Top EXCEPT !.next = @ + 1, !.misread = TRUE]
  <2>1. /\ Top.pc = "read" /\ stack' = <<f>> \o t
        /\ UNCHANGED <<instancesLoading, instancesLoaded>>
    BY <1>7 DEF ReadGarbage, Unread, At, Become
  <2>2. f \in LoadFrame
    BY <1>1, ReadingFrame, Zenon
  <2>3. f.id = Top.id /\ (IsReading(f) <=> IsReading(Top))
    BY <1>1, <2>1, <2>2, Zenon DEF LoadFrame, IsReading
  <2> HIDE DEF f, t
  <2> QED BY <1>3, <2>1, <2>2, <2>3
<1>8. CASE GotReference
  <2> DEFINE f == [Top EXCEPT !.pc = "read",
                              !.got = IF ret = Null THEN @ ELSE @ \cup {ret}]
  <2>1. /\ Top.pc = "await" /\ stack' = <<f>> \o t
        /\ UNCHANGED <<instancesLoading, instancesLoaded>>
    BY <1>8 DEF GotReference, At, Become
  <2>2. f \in LoadFrame /\ f.id = Top.id /\ IsReading(f) /\ IsReading(Top)
    BY <1>1, <2>1 DEF LoadFrame, TypeOK, IsReading
  <2> HIDE DEF f, t
  <2> QED BY <1>3, <2>1, <2>2
<1>9. ASSUME AllRead, instancesLoading' = instancesLoading \ {Top.id},
             instancesLoaded' \subseteq instancesLoaded \cup {Top.id},
             \/ stack' = t
             \/ \E f, g \in Frame : /\ ~IsReading(f) /\ ~IsReading(g)
                                    /\ stack' = <<g, f>> \o t
      PROVE  Guards'
  <2>1. IsReading(Top)
    BY <1>1, <1>9 DEF AllRead, At, IsReading
  <2> HIDE DEF t
  <2>2. /\ instancesLoading = {Top.id} \cup ReadingOf(t) /\ ReadsOnce(t)
        /\ Top.id \notin ReadingOf(t)
    BY <1>1, <2>1, ReadingOfPush, ReadingIsReadingOf
    DEF Guards, LoadingIsStack, Frame
  <2>3. ReadingOf(stack') = ReadingOf(t) /\ ReadsOnce(stack')
    <3>1. CASE stack' = t
      BY <2>2, <3>1
    <3>2. ASSUME NEW f \in Frame, NEW g \in Frame, ~IsReading(f), ~IsReading(g),
                 stack' = <<g, f>> \o t
          PROVE  ReadingOf(stack') = ReadingOf(t) /\ ReadsOnce(stack')
      <4> DEFINE u == <<f>> \o t
      <4>1. u \in Seq(Frame) /\ stack' = <<g>> \o u
        BY <1>1, <3>2
      <4>2. ReadingOf(u) = ReadingOf(t) /\ ReadsOnce(u)
        BY <1>1, <2>2, <3>2, ReadingOfPush
      <4> HIDE DEF u
      <4>3. ReadingOf(<<g>> \o u) = ReadingOf(u) /\ ReadsOnce(<<g>> \o u)
        BY <3>2, <4>1, <4>2, QuietPush
      <4> QED BY <4>1, <4>2, <4>3
    <3> QED BY <1>9, <3>1, <3>2
  <2>4. Reading' = ReadingOf(stack')
    BY DEF Reading, ReadingOf, IsReading
  <2> QED BY <1>9, <2>2, <2>3, <2>4 DEF Guards, LoadingIsStack
<1>10. CASE DropPartial
  BY <1>9, <1>10 DEF DropPartial, EndRead, Return
<1>11. CASE InsertBatchOwned
  BY <1>9, <1>11 DEF InsertBatchOwned, Insert, EndRead, Return
<1>12. CASE InsertPermanent
  <2> DEFINE f == [Top EXCEPT !.pc = "resolve"]
             g == lazyRefs(Top.id)
  <2>1. f \in Frame /\ ~IsReading(f)
    BY <1>1 DEF LoadFrame, Frame, IsReading
  <2>2. g \in Frame /\ ~IsReading(g)
    <3>1. g \in RefsFrame
      BY <1>1, NewFrames DEF LoadFrame
    <3> QED BY <3>1 DEF Frame, RefsFrame, IsReading
  <2>3. stack' = <<g, f>> \o t
    BY <1>12 DEF InsertPermanent, Call
  <2>4. /\ AllRead /\ instancesLoading' = instancesLoading \ {Top.id}
        /\ instancesLoaded' = instancesLoaded \cup {Top.id}
    BY <1>12 DEF InsertPermanent, Insert, EndRead
  <2> HIDE DEF f, g, t
  <2> QED BY <1>9, <2>1, <2>2, <2>3, <2>4
<1>13. CASE ResolveNext
  <2>1. PICK i \in Top.todo :
          LET rest == [Top EXCEPT !.todo = @ \ {i}] IN
          IF i \in instancesLoaded THEN Call(rest, lazyRefs(i)) ELSE Become(rest)
    BY <1>13 DEF ResolveNext
  <2> DEFINE f == [Top EXCEPT !.todo = @ \ {i}]
  <2>2. f \in LoadFrame /\ f.id = Top.id /\ f.pc = Top.pc /\ f.op = Top.op
    BY <1>1 DEF LoadFrame
  <2>3. lazyRefs(i) \in Frame /\ ~IsReading(lazyRefs(i))
    <3>1. lazyRefs(i) \in RefsFrame
      BY <1>1, NewFrames DEF LoadFrame
    <3> QED BY <3>1 DEF Frame, RefsFrame, IsReading
  <2>4. stack' = <<lazyRefs(i), f>> \o t \/ stack' = <<f>> \o t
    BY <2>1 DEF Call, Become
  <2> HIDE DEF f, t
  <2> QED BY <1>3, <1>13, <2>2, <2>3, <2>4 DEF ResolveNext, IsReading
<1>14. CASE ResolveSwap
  <2> DEFINE f == [Top EXCEPT !.todo = deferredInverseInstances]
  <2>1. f \in LoadFrame /\ f.id = Top.id /\ f.pc = Top.pc /\ f.op = Top.op
    BY <1>1 DEF LoadFrame, TypeOK
  <2>2. stack' = <<f>> \o t /\ UNCHANGED <<instancesLoading, instancesLoaded>>
    BY <1>14 DEF ResolveSwap, Become
  <2> HIDE DEF f, t
  <2> QED BY <1>3, <2>1, <2>2 DEF IsReading
<1> QED BY <1>4, <1>5, <1>6, <1>7, <1>8, <1>10, <1>11, <1>12, <1>13, <1>14
        DEF LoadStep

LEMMA RefsStepGuards ==
    ASSUME TypeOK, Guards, RefsStep PROVE Guards'
<1> USE DEF cache, loading, calls, batches
<1> DEFINE t == Tail(stack)
<1>1. /\ stack # <<>> /\ Top \in RefsFrame /\ t \in Seq(Frame) /\ ~IsReading(Top)
  <2>1. \E pc : At("lazyRefs", pc)
    BY DEF RefsStep, NoInverses, HasInverses, MapRefsToTypes, NullType, CheckAnInvAttr,
       RefsDone, LoadReferent, GotReferent, AttrDone
  <2> QED BY <2>1, RefsTop DEF At, IsReading
<1>2. ASSUME UNCHANGED <<instancesLoading, instancesLoaded>>,
             \/ stack' = t
             \/ \E f \in RefsFrame :
                  /\ f.id = Top.id
                  /\ \/ stack' = <<f>> \o t
                     \/ \E g \in Frame : ~IsReading(g) /\ stack' = <<g, f>> \o t
      PROVE  Guards'
  BY <1>1, <1>2, QuietGuards DEF Frame, RefsFrame, IsReading
<1>3. CASE NoInverses \/ RefsDone
  BY <1>2, <1>3 DEF NoInverses, RefsDone, Return
<1>4. CASE MapRefsToTypes
  <2>1. [Top EXCEPT !.pc = "attrs", !.attrs = index.inverseAttrs[Top.id]] \in RefsFrame
    BY <1>1, IndexType DEF RefsFrame, TypeOK
  <2> QED BY <1>1, <1>2, <1>4, <2>1 DEF MapRefsToTypes, Become, RefsFrame
<1>5. CASE NullType
  BY <1>5 DEF NullType, Guards, LoadingIsStack, Reading, ReadsOnce
<1>6. CASE CheckAnInvAttr
  <2>1. PICK a \in Top.attrs :
         LET referents == Top.referents \cup (a \cap Referrers(Top.id))
             f == [Top EXCEPT !.attrs = @ \ {a}, !.referents = referents]
         IN  \/ Become(f)
             \/ Become([f EXCEPT !.pc = "load", !.attr = a, !.todo = referents,
                                 !.null = a \notin obj[Top.id].aggregates])
    BY <1>6 DEF CheckAnInvAttr
  <2> DEFINE referents == Top.referents \cup (a \cap Referrers(Top.id))
             f == [Top EXCEPT !.attrs = @ \ {a}, !.referents = referents]
             null == a \notin obj[Top.id].aggregates
             g == [f EXCEPT !.pc = "load", !.attr = a, !.todo = referents, !.null = null]
  <2>2. referents \in SUBSET Ids /\ a \in SUBSET Ids /\ null \in BOOLEAN
    BY <1>1 DEF RefsFrame, Referrers
  <2> HIDE DEF referents, null
  <2>3. f \in RefsFrame /\ f.id = Top.id
    BY <1>1, <2>2 DEF RefsFrame
  <2> HIDE DEF f
  <2>4. g \in RefsFrame /\ g.id = Top.id
    BY <2>2, <2>3 DEF RefsFrame
  <2>5. stack' = <<f>> \o t \/ stack' = <<g>> \o t
    BY <2>1 DEF Become, f, referents, null
  <2> HIDE DEF g, t
  <2> QED BY <1>2, <1>6, <2>3, <2>4, <2>5 DEF CheckAnInvAttr
<1>7. CASE LoadReferent
  <2>1. PICK r \in Top.todo : Call([Top EXCEPT !.pc = "await"],
                                   loadInstance(r, FALSE, TRUE))
    BY <1>7 DEF LoadReferent
  <2> DEFINE f == [Top EXCEPT !.pc = "await"]
             g == loadInstance(r, FALSE, TRUE)
  <2>2. f \in RefsFrame /\ f.id = Top.id
    BY <1>1 DEF RefsFrame
  <2>3. g \in Frame /\ ~IsReading(g)
    <3>1. g \in LoadFrame
      BY <1>1, NewFrames DEF RefsFrame
    <3> QED BY <3>1 DEF Frame, loadInstance, IsReading
  <2>4. stack' = <<g, f>> \o t
    BY <2>1 DEF Call
  <2> HIDE DEF f, g, t
  <2> QED BY <1>2, <1>7, <2>2, <2>3, <2>4 DEF LoadReferent
<1>8. CASE GotReferent
  <2>1. PICK r \in Top.todo : Become([Top EXCEPT !.pc = "load", !.todo = @ \ {r}])
    BY <1>8 DEF GotReferent
  <2>2. [Top EXCEPT !.pc = "load", !.todo = @ \ {r}] \in RefsFrame
    BY <1>1 DEF RefsFrame
  <2> QED BY <1>1, <1>2, <1>8, <2>1, <2>2 DEF GotReferent, Become, RefsFrame
<1>9. CASE AttrDone
  <2>1. [Top EXCEPT !.pc = "attrs"] \in RefsFrame
    BY <1>1 DEF RefsFrame
  <2> QED BY <1>1, <1>2, <1>9, <2>1 DEF AttrDone, Become, RefsFrame
<1> QED BY <1>3, <1>4, <1>5, <1>6, <1>7, <1>8, <1>9 DEF RefsStep

LEMMA OneFrameReads ==
    ASSUME NEW f, ~IsReading(f) PROVE ReadingOf(<<f>>) = {} /\ ReadsOnce(<<f>>)
<1>1. Len(<<f>>) = 1 /\ <<f>>[1] = f /\ 1..1 = {1}
  OBVIOUS
<1> QED BY <1>1 DEF ReadingOf, ReadsOnce

LEMMA NextGuards ==
    ASSUME TypeOK, Guards, [Next]_vars PROVE Guards'
<1> USE DEF calls, loading, cache
<1>1. ASSUME UNCHANGED <<stack, instancesLoading>>, instancesLoaded' \subseteq instancesLoaded
      PROVE  Guards'
  BY <1>1 DEF Guards, LoadingIsStack, Reading, ReadsOnce
<1>2. ASSUME NEW f, ~IsReading(f), stack = <<>>, stack' = <<f>>,
             UNCHANGED <<instancesLoading, instancesLoaded>>
      PROVE  Guards'
  <2>1. instancesLoading = {}
    BY <1>2 DEF Guards, LoadingIsStack, Reading
  <2>2. ReadingOf(stack') = {} /\ ReadsOnce(stack')
    BY <1>2, OneFrameReads
  <2>3. Reading' = ReadingOf(stack')
    BY DEF Reading, ReadingOf, IsReading
  <2> QED BY <1>2, <2>1, <2>2, <2>3 DEF Guards, LoadingIsStack
<1>3. \A i, b, p : ~IsReading(loadInstance(i, b, p))
  BY DEF loadInstance, IsReading
<1>4. CASE UNCHANGED vars
  BY <1>1, <1>4 DEF vars
<1>5. CASE BatchStep
  <2>1. CASE MaterializeNext
    BY <1>2, <1>3, <2>1 DEF MaterializeNext, Building
  <2>2. CASE ~MaterializeNext
    BY <1>1, <1>5, <2>2 DEF BatchStep, ExpandClosure, ClosureCancelled, ClosureDone,
       Pin, PinCancelled, PinDone, MaterializeCancelled, LoadBatchDone
  <2> QED BY <2>1, <2>2
<1>6. CASE Client
  <2>1. CASE LoadInstance
    BY <1>2, <1>3, <2>1 DEF LoadInstance, Idle
  <2>2. CASE ~LoadInstance
    BY <1>1, <1>6, <2>2 DEF Client, LoadBatch, ReleaseBatch, MoveBatch, Release
  <2> QED BY <2>1, <2>2
<1> QED BY <1>4, <1>5, <1>6, LoadStepGuards, RefsStepGuards DEF Next, Running

LEMMA GuardsInv == Spec => []Guards
<1>1. Init => Guards
  BY DEF Init, Guards, LoadingIsStack, Reading, ReadsOnce
<1>2. TypeOK /\ Guards /\ [Next]_vars => Guards'
  BY NextGuards
<1> QED BY <1>1, <1>2, TypeInv, PTL DEF Spec

(* _instancesLoading is exactly the ids being read, on every path out of   *)
(* loadInstance and after an exception, and none of them is cached: no     *)
(* later load is refused as cyclic (LoadingGuard, lazyInstMgr.cc:311). *)
THEOREM LoadingGuardsExact == Spec => []LoadingIsStack
<1>1. Guards => LoadingIsStack
  BY DEF Guards
<1> QED BY <1>1, GuardsInv, PTL

-----------------------------------------------------------------------------
(* The counters of cacheStatistics.  They count right because what Insert  *)
(* caches was not cached before, an eviction takes only cached instances,  *)
(* and the batch of a loadBatch is counted from PinDone on.                *)

LEMMA InsertCounts ==
    ASSUME TypeOK, Guards, CacheAccounting, Insert,
           UNCHANGED <<live, batchLoadDepth>>
    PROVE  CacheAccounting'
<1>1. /\ stack # <<>> /\ Top \in LoadFrame /\ IsReading(Top) /\ Top.id \in Ids
      /\ instancesLoaded' = instancesLoaded \cup {Top.id}
      /\ stats' = [stats EXCEPT !.loaded = @ + 1, !.materializations = @ + 1]
  BY LoadTop DEF Insert, EndRead, AllRead, At, IsReading, LoadFrame
<1>2. Top.id \in ReadingOf(stack)
  BY <1>1, StackSplit, ReadingOfPush DEF TypeOK
<1>3. Top.id \notin instancesLoaded /\ IsFiniteSet(instancesLoaded)
  BY <1>2, ReadingIsReadingOf, IdsAssumption, FS_Subset DEF Guards, LoadingIsStack, TypeOK
<1>4. Cardinality(instancesLoaded') = Cardinality(instancesLoaded) + 1
  BY <1>1, <1>3, FS_AddElement
<1>5. /\ stats'.loaded = stats.loaded + 1 /\ stats'.evictions = stats.evictions
      /\ stats'.materializations = stats.materializations + 1
      /\ stats'.activeBatches = stats.activeBatches
      /\ stats.loaded \in Int /\ stats.materializations \in Nat
      /\ stats.evictions \in Nat
  BY <1>1 DEF TypeOK, Stats
<1> QED BY <1>4, <1>5 DEF CacheAccounting

LEMMA ReleaseCounts ==
    ASSUME TypeOK, CacheAccounting, batchLoadDepth = 0, NEW h \in live, Release(h),
           Cardinality(live') = Cardinality(live) - 1
    PROVE  CacheAccounting'
<1> DEFINE gone == Evicted(held[h])
<1>1. /\ instancesLoaded' = instancesLoaded \ gone /\ gone \subseteq instancesLoaded
      /\ UNCHANGED batchLoadDepth
      /\ stats' = [stats EXCEPT !.loaded = @ - Cardinality(gone),
                                !.evictions = @ + Cardinality(gone),
                                !.activeBatches = IF @ > 0 THEN @ - 1 ELSE @]
  BY DEF Release, Evicted
<1> HIDE DEF gone
<1>2. /\ IsFiniteSet(instancesLoaded) /\ IsFiniteSet(gone) /\ IsFiniteSet(live)
      /\ Cardinality(instancesLoaded) \in Nat /\ Cardinality(gone) \in Nat
      /\ Cardinality(live) \in Nat
  BY <1>1, IdsAssumption, HandlesAssumption, FS_Subset, FS_CardinalityType DEF TypeOK
<1>3. Cardinality(instancesLoaded') = Cardinality(instancesLoaded) - Cardinality(gone)
  <2>1. instancesLoaded \cap gone = gone
    BY <1>1
  <2>2. Cardinality(instancesLoaded \ gone)
        = Cardinality(instancesLoaded) - Cardinality(instancesLoaded \cap gone)
    BY <1>2, FS_Difference
  <2> QED BY <1>1, <2>1, <2>2
<1>4. Cardinality(live) > 0
  BY <1>2, FS_EmptySet
<1>5. /\ stats'.loaded = stats.loaded - Cardinality(gone)
      /\ stats'.evictions = stats.evictions + Cardinality(gone)
      /\ stats'.materializations = stats.materializations
      /\ stats'.activeBatches = stats.activeBatches - 1
      /\ stats.loaded \in Int /\ stats.materializations \in Nat
      /\ stats.evictions \in Nat /\ stats.activeBatches \in Nat
  BY <1>1, <1>2, <1>4 DEF TypeOK, Stats, CacheAccounting
<1> QED BY <1>1, <1>2, <1>3, <1>5 DEF CacheAccounting

LEMMA NextCounts ==
    ASSUME TypeOK, Phase, Handover, Guards, CacheAccounting, [Next]_vars
    PROVE  CacheAccounting'
<1> USE DEF cache, batches
<1>0. /\ IsFiniteSet(live) /\ Cardinality(live) \in Nat
      /\ stats \in Stats /\ build \in Build /\ live \subseteq Handles
  BY HandlesAssumption, FS_Subset, FS_CardinalityType DEF TypeOK
<1>1. ASSUME UNCHANGED <<instancesLoaded, stats, live, batchLoadDepth>>
      PROVE  CacheAccounting'
  BY <1>1 DEF CacheAccounting
<1>2. CASE UNCHANGED vars
  BY <1>1, <1>2 DEF vars
<1>3. CASE LoadStep
  <2>1. CASE InsertBatchOwned \/ InsertPermanent
    BY <2>1, InsertCounts DEF InsertBatchOwned, InsertPermanent, Insert
  <2>2. CASE ~InsertBatchOwned /\ ~InsertPermanent
    BY <1>1, <1>3, <2>2
    DEF LoadStep, LoadCancelled, CacheHit, IdTooLarge, CyclicDependency,
        NoPosition, UnknownType, StartRead, ReadReference, ReadGarbage, GotReference,
        DropPartial, ResolveNext, ResolveSwap, ResolveDone
  <2> QED BY <2>1, <2>2
<1>4. CASE RefsStep
  BY <1>1, <1>4
  DEF RefsStep, NoInverses, MapRefsToTypes, NullType, CheckAnInvAttr, RefsDone,
      LoadReferent, GotReferent, AttrDone
<1>5. CASE PinDone
  <2>1. /\ stats' = [stats EXCEPT !.activeBatches = @ + 1]
        /\ batchLoadDepth' = batchLoadDepth + 1 /\ UNCHANGED <<instancesLoaded, live>>
    BY <1>5 DEF PinDone
  <2>2. /\ stats'.activeBatches = stats.activeBatches + 1
        /\ stats'.loaded = stats.loaded /\ stats'.evictions = stats.evictions
        /\ stats'.materializations = stats.materializations
        /\ stats.activeBatches \in Nat /\ batchLoadDepth \in Nat
    BY <1>0, <2>1 DEF Stats, TypeOK
  <2> QED BY <1>0, <2>1, <2>2 DEF CacheAccounting
<1>6. CASE LoadBatchDone
  <2>1. /\ build.handle \notin live /\ batchLoadDepth' = batchLoadDepth - 1
        /\ live' = live \cup {build.handle} /\ UNCHANGED <<instancesLoaded, stats>>
        /\ batchLoadDepth = 1
    BY <1>6 DEF LoadBatchDone, Building, Handover, Phase
  <2>2. Cardinality(live') = Cardinality(live) + 1
    BY <1>0, <2>1, FS_AddElement
  <2> QED BY <1>0, <2>1, <2>2 DEF CacheAccounting
<1>7. CASE BatchStep /\ ~PinDone /\ ~LoadBatchDone
  BY <1>1, <1>7 DEF BatchStep, ExpandClosure, ClosureCancelled, ClosureDone, Pin,
     PinCancelled, MaterializeNext, MaterializeCancelled
<1>8. CASE LoadInstance
  BY <1>1, <1>8 DEF LoadInstance
<1>9. ASSUME NEW h \in Handles, LoadBatch(h) PROVE CacheAccounting'
  BY <1>1, <1>9 DEF LoadBatch
<1>10. ASSUME NEW h \in Handles, ReleaseBatch(h) PROVE CacheAccounting'
  <2>1. h \in live /\ Release(h) /\ live' = live \ {h} /\ batchLoadDepth = 0
    BY <1>10 DEF ReleaseBatch, Idle, Phase
  <2>2. Cardinality(live') = Cardinality(live) - 1
    BY <1>0, <2>1, FS_RemoveElement
  <2> QED BY <2>1, <2>2, ReleaseCounts
<1>11. ASSUME NEW g \in Handles, NEW h \in Handles, MoveBatch(g, h)
       PROVE  CacheAccounting'
  <2>1. g \in live /\ g # h /\ live' = (live \ {g}) \cup {h} /\ batchLoadDepth = 0
    BY <1>11 DEF MoveBatch, Idle, Phase
  <2>2. IsFiniteSet(live \ {g}) /\ Cardinality(live \ {g}) = Cardinality(live) - 1
    BY <1>0, <2>1, FS_RemoveElement
  <2>3. CASE h \in live /\ Release(h)
    <3>1. Cardinality(live') = Cardinality(live) - 1
      <4>1. h \in live \ {g}
        BY <2>1, <2>3
      <4>2. live' = live \ {g}
        BY <2>1, <4>1
      <4> QED BY <2>2, <4>2
    <3> QED BY <2>1, <2>3, <3>1, ReleaseCounts
  <2>4. CASE h \notin live
    <3>1. Cardinality(live') = Cardinality(live)
      <4>1. Cardinality(live') = Cardinality(live \ {g}) + 1
        BY <2>1, <2>2, <2>4, FS_AddElement
      <4> QED BY <1>0, <2>2, <4>1
    <3> QED BY <1>11, <2>4, <3>1 DEF MoveBatch, CacheAccounting
  <2> QED BY <1>11, <2>3, <2>4 DEF MoveBatch
<1> QED BY <1>2, <1>3, <1>4, <1>5, <1>6, <1>7, <1>8, <1>9, <1>10, <1>11
        DEF Next, Running, Client

(* cacheStatistics tells the truth: the loaded instances, the difference   *)
(* of what was materialized and evicted, and the batches alive are what    *)
(* the cache and the client's handles say (lazyInstMgr.h, _cacheStats).    *)
THEOREM CountersExact == Spec => []CacheAccounting
<1>1. Init => CacheAccounting
  BY FS_EmptySet DEF Init, CacheAccounting
<1>2. TypeOK /\ Phase /\ Pinning /\ Guards /\ CacheAccounting /\ [Next]_vars
      => CacheAccounting'
  BY NextCounts DEF Pinning
<1> QED BY <1>1, <1>2, TypeInv, PinInv, GuardsInv, PTL DEF Spec

(* Once a batch was cancelled no step of it caches an instance: the load   *)
(* that was being read when it was noticed is dropped, and the poll before *)
(* the insertion comes after the last read (loadInstance, batch polls).    *)
THEOREM CancelledLoadsNothing == Spec => CancelledBatchLoadsNothing
<1>1. [Next]_vars =>
         [cancelled /\ batchLoadDepth > 0 => instancesLoaded' \subseteq instancesLoaded]_vars
  <2> SUFFICES ASSUME Next, cancelled, batchLoadDepth > 0
               PROVE  instancesLoaded' \subseteq instancesLoaded
    OBVIOUS
  <2> USE DEF cache
  <2>1. CASE LoadStep
    <3>1. ~InsertBatchOwned /\ ~InsertPermanent
      BY DEF InsertBatchOwned, InsertPermanent, PollsFalse
    <3> QED BY <2>1, <3>1
      DEF LoadStep, LoadCancelled, CacheHit, IdTooLarge, CyclicDependency,
          NoPosition, UnknownType, StartRead, ReadReference, ReadGarbage,
          GotReference, DropPartial, ResolveNext, ResolveSwap, ResolveDone
  <2>2. CASE RefsStep
    BY <2>2 DEF RefsStep, NoInverses, MapRefsToTypes, NullType, CheckAnInvAttr,
       RefsDone, LoadReferent, GotReferent, AttrDone
  <2>3. CASE BatchStep
    BY <2>3 DEF BatchStep, ExpandClosure, ClosureCancelled, ClosureDone, Pin,
       PinCancelled, PinDone, MaterializeNext, MaterializeCancelled, LoadBatchDone
  <2>4. CASE Client
    BY <2>4 DEF Client, LoadInstance, LoadBatch, ReleaseBatch, MoveBatch, Release
  <2> QED BY <2>1, <2>2, <2>3, <2>4 DEF Next, Running
<1> QED BY <1>1, PTL DEF Spec, CancelledBatchLoadsNothing

-----------------------------------------------------------------------------
(* Complete batches.  What loadBatch has taken off its list is cached or is *)
(* the id of the lowest call, the one loadBatch made; that call cannot be   *)
(* refused as cyclic, since nothing is being read when it is made, and      *)
(* what it caches is pinned until the batch is released.                    *)

BottomId(s) == s[Len(s)].id

Progress ==
    build.phase = "load" /\ ~cancelled =>
        \A i \in build.closure \ build.todo :
            Loadable(i) => i \in instancesLoaded \/ (stack # <<>> /\ BottomId(stack) = i)

LEMMA BottomKept ==
    ASSUME NEW S, NEW s \in Seq(S), s # <<>>
    PROVE  /\ Tail(s) # <<>> => BottomId(Tail(s)) = BottomId(s)
           /\ Tail(s) = <<>> => BottomId(s) = Head(s).id
           /\ \A f \in S : f.id = Head(s).id =>
                 /\ BottomId(<<f>> \o Tail(s)) = BottomId(s) /\ <<f>> \o Tail(s) # <<>>
                 /\ \A g \in S : /\ BottomId(<<g, f>> \o Tail(s)) = BottomId(s)
                                 /\ <<g, f>> \o Tail(s) # <<>>
<1> DEFINE t == Tail(s)
<1>1. /\ t \in Seq(S) /\ Len(t) = Len(s) - 1 /\ Len(s) \in Nat /\ Len(s) > 0
      /\ \A k \in 1..(Len(s) - 1) : t[k] = s[k + 1]
      /\ Head(s) = s[1] /\ Len(t) \in Nat
  BY HeadTailProperties
<1> HIDE DEF t
<1>2. ASSUME t # <<>> PROVE Len(t) > 0 /\ t[Len(t)] = s[Len(s)]
  <2>1. Len(t) > 0
    BY <1>1, <1>2, EmptySeq
  <2> QED BY <1>1, <2>1
<1>3. ASSUME t = <<>> PROVE Len(s) = 1 /\ Len(t) = 0
  BY <1>1, <1>3
<1>4. ASSUME NEW f \in S, f.id = Head(s).id, NEW g \in S
      PROVE  /\ BottomId(<<f>> \o t) = BottomId(s) /\ <<f>> \o t # <<>>
             /\ BottomId(<<g, f>> \o t) = BottomId(s) /\ <<g, f>> \o t # <<>>
  <2>1. /\ Len(<<f>> \o t) = Len(t) + 1 /\ (<<f>> \o t)[1] = f
        /\ \A k \in 1..Len(t) : (<<f>> \o t)[k + 1] = t[k]
        /\ <<f>> \o t # <<>>
    BY <1>1
  <2>2. /\ Len(<<g, f>> \o t) = Len(t) + 2 /\ (<<g, f>> \o t)[2] = f
        /\ \A k \in 1..Len(t) : (<<g, f>> \o t)[k + 2] = t[k]
        /\ <<g, f>> \o t # <<>>
    BY <1>1
  <2>3. CASE t = <<>>
    BY <1>1, <1>3, <1>4, <2>1, <2>2, <2>3 DEF BottomId
  <2>4. CASE t # <<>>
    BY <1>1, <1>2, <2>1, <2>2, <2>4 DEF BottomId
  <2> QED BY <2>3, <2>4
<1>5. /\ t # <<>> => BottomId(t) = BottomId(s)
      /\ t = <<>> => BottomId(s) = Head(s).id
  BY <1>1, <1>2, <1>3 DEF BottomId
<1> QED BY <1>4, <1>5 DEF t

(* What a step of loadInstance does to the stack *)
LEMMA LoadShape ==
    ASSUME TypeOK, LoadStep
    PROVE  /\ stack # <<>> /\ Top \in LoadFrame /\ Tail(stack) \in Seq(Frame)
           /\ \/ stack' = Tail(stack)
              \/ \E f \in Frame :
                   /\ f.id = Top.id
                   /\ \/ stack' = <<f>> \o Tail(stack)
                      \/ \E g \in Frame : stack' = <<g, f>> \o Tail(stack)
<1> DEFINE t == Tail(stack)
           Goes(f) == f \in LoadFrame /\ f.id = Top.id
<1>1. stack # <<>> /\ Top \in LoadFrame /\ t \in Seq(Frame)
  <2>1. \E pc : At("load", pc)
    BY DEF LoadStep, LoadCancelled, CacheHit, IdTooLarge, CyclicDependency, NoPosition,
       UnknownType, StartRead, Begin, CacheMiss, Entered, ReadReference, ReadGarbage,
       Unread, GotReference, DropPartial, InsertBatchOwned, InsertPermanent, Insert,
       EndRead, AllRead, ResolveNext, ResolveSwap, ResolveDone
  <2> QED BY <2>1, LoadTop
<1>2. CASE LoadCancelled \/ CacheHit \/ IdTooLarge \/ CyclicDependency \/ NoPosition
           \/ UnknownType \/ DropPartial \/ InsertBatchOwned \/ ResolveDone
  BY <1>1, <1>2 DEF LoadCancelled, CacheHit, IdTooLarge, CyclicDependency, NoPosition,
     UnknownType, DropPartial, InsertBatchOwned, ResolveDone, Return
<1>3. CASE StartRead \/ GotReference \/ ResolveSwap
  <2>1. Goes([Top EXCEPT !.pc = "read", !.oldPos = stream])
    BY <1>1 DEF LoadFrame, TypeOK
  <2>2. Goes([Top EXCEPT !.pc = "read", !.got = IF ret = Null THEN @ ELSE @ \cup {ret}])
    BY <1>1 DEF LoadFrame, TypeOK
  <2>3. Goes([Top EXCEPT !.todo = deferredInverseInstances])
    BY <1>1 DEF LoadFrame, TypeOK
  <2>4. \E f \in LoadFrame : f.id = Top.id /\ stack' = <<f>> \o t
    BY <1>3, <2>1, <2>2, <2>3 DEF StartRead, GotReference, ResolveSwap, Become
  <2> QED BY <1>1, <2>4 DEF Frame
<1>4. CASE ReadGarbage
  <2>1. [Top EXCEPT !.next = @ + 1, !.misread = TRUE] \in LoadFrame
    BY <1>1, ReadingFrame, Zenon
  <2>2. [Top EXCEPT !.next = @ + 1, !.misread = TRUE].id = Top.id
    BY <1>1, Zenon DEF LoadFrame
  <2> QED BY <1>1, <1>4, <2>1, <2>2 DEF ReadGarbage, Become, Frame
<1>5. CASE ReadReference
  <2> DEFINE f == [Top EXCEPT !.pc = "await", !.next = @ + 1,
                              !.misread = @ \/ ~InPlace]
             g == loadInstance(index.fwd[stream.rec][stream.k + 1], TRUE, FALSE)
  <2>1. f \in LoadFrame
    <3>1. (Top.misread \/ ~InPlace) \in BOOLEAN
      BY Zenon
    <3> QED BY <1>1, <3>1, ReadingFrame, Zenon
  <2>2. f.id = Top.id
    BY <1>1, Zenon DEF LoadFrame
  <2>3. g \in LoadFrame
    <3>1. index.fwd[stream.rec][stream.k + 1] \in Ids
      BY <1>5, IndexType DEF ReadReference, TypeOK, Position, Null
    <3> QED BY <3>1, NewFrames
  <2>4. stack' = <<g, f>> \o t
    BY <1>5 DEF ReadReference, Call
  <2> HIDE DEF f, g, t
  <2> QED BY <1>1, <2>1, <2>2, <2>3, <2>4 DEF Frame, t
<1>6. CASE InsertPermanent
  <2>1. Goes([Top EXCEPT !.pc = "resolve"]) /\ lazyRefs(Top.id) \in RefsFrame
    BY <1>1, NewFrames DEF LoadFrame
  <2> QED BY <1>1, <1>6, <2>1 DEF InsertPermanent, Call, Frame
<1>7. CASE ResolveNext
  <2>1. PICK i \in Top.todo :
          LET rest == [Top EXCEPT !.todo = @ \ {i}] IN
          IF i \in instancesLoaded THEN Call(rest, lazyRefs(i)) ELSE Become(rest)
    BY <1>7 DEF ResolveNext
  <2>2. Goes([Top EXCEPT !.todo = @ \ {i}]) /\ lazyRefs(i) \in RefsFrame
    BY <1>1, NewFrames DEF LoadFrame
  <2> QED BY <1>1, <2>1, <2>2 DEF Call, Become, Frame
<1> QED BY <1>1, <1>2, <1>3, <1>4, <1>5, <1>6, <1>7 DEF LoadStep

LEMMA LoadStepBottom ==
    ASSUME TypeOK, LoadStep
    PROVE  \/ stack' # <<>> /\ BottomId(stack') = BottomId(stack)
           \/ stack' = <<>> /\ Tail(stack) = <<>> /\ BottomId(stack) = Top.id
<1>1. stack \in Seq(Frame) /\ stack # <<>> /\ Top = Head(stack)
  BY LoadShape DEF TypeOK, Top
<1>2. /\ Tail(stack) # <<>> => BottomId(Tail(stack)) = BottomId(stack)
      /\ Tail(stack) = <<>> => BottomId(stack) = Top.id
      /\ \A f \in Frame : f.id = Top.id =>
           /\ BottomId(<<f>> \o Tail(stack)) = BottomId(stack)
           /\ <<f>> \o Tail(stack) # <<>>
           /\ \A g \in Frame : /\ BottomId(<<g, f>> \o Tail(stack)) = BottomId(stack)
                               /\ <<g, f>> \o Tail(stack) # <<>>
  BY <1>1, BottomKept
<1>3. CASE stack' = Tail(stack)
  BY <1>2, <1>3
<1>4. ASSUME NEW f \in Frame, f.id = Top.id, stack' = <<f>> \o Tail(stack)
      PROVE  stack' # <<>> /\ BottomId(stack') = BottomId(stack)
  BY <1>2, <1>4
<1>5. ASSUME NEW f \in Frame, f.id = Top.id, NEW g \in Frame,
             stack' = <<g, f>> \o Tail(stack)
      PROVE  stack' # <<>> /\ BottomId(stack') = BottomId(stack)
  BY <1>2, <1>5
<1> QED BY <1>3, <1>4, <1>5, LoadShape

LEMMA NextLatch == ASSUME [Next]_vars, ~cancelled' PROVE ~cancelled
<1>1. CASE UNCHANGED vars BY <1>1 DEF vars
<1>2. CASE LoadStep \/ RefsStep
  BY <1>2, CallsLatch
<1>3. CASE BatchStep
  BY <1>3 DEF BatchStep, ExpandClosure, ClosureCancelled, ClosureDone, Pin, PinCancelled,
     PinDone, MaterializeNext, MaterializeCancelled, LoadBatchDone
<1>4. CASE Client
  BY <1>4 DEF Client, LoadInstance, LoadBatch, ReleaseBatch, MoveBatch, Release
<1> QED BY <1>1, <1>2, <1>3, <1>4 DEF Next, Running

(* A call of loadInstance that a batch made caches its instance, if it can. *)
LEMMA LowestCallLoads ==
    ASSUME TypeOK, Phase, Guards, BatchStack, LoadStep, build.phase = "load",
           ~cancelled', stack' = <<>>, Tail(stack) = <<>>, Loadable(Top.id)
    PROVE  Top.id \in instancesLoaded'
<1> USE DEF cache, loading, calls, batches
<1>1. ~cancelled /\ batchLoadDepth = 1 /\ stack # <<>> /\ Top \in LoadFrame
  BY CallsLatch, LoadShape DEF Phase
<1>2. Top \in BatchFrames
  BY <1>1, TopIn DEF BatchStack
<1>3. /\ index.entry[Top.id] = "good" /\ Top.id <= IntMax
  BY DEF Loadable
<1>4. stack = <<Top>>
  <2>1. stack \in Seq(Frame)
    BY DEF TypeOK
  <2>2. stack = <<Top>> \o <<>>
    BY <1>1, <2>1, StackSplit
  <2>3. <<Top>> \o <<>> = <<Top>>
    OBVIOUS
  <2> QED BY <2>2, <2>3
<1>5. Top.pc = "enter" => instancesLoading = {}
  <2>1. Top.pc = "enter" => ~IsReading(Top)
    BY DEF IsReading
  <2> QED BY <1>4, <2>1, OneFrameReads, ReadingIsReadingOf DEF Guards, LoadingIsStack
<1>6. CASE LoadCancelled \/ DropPartial
  BY <1>6 DEF LoadCancelled, DropPartial
<1>7. CASE CacheHit \/ InsertBatchOwned \/ InsertPermanent
  BY <1>7 DEF CacheHit, InsertBatchOwned, InsertPermanent, Insert
<1>8. CASE IdTooLarge \/ NoPosition \/ UnknownType
  <2>1. Top.id \in Nat /\ IntMax \in Nat
    BY <1>1, IdsAssumption, ClientAssumption DEF LoadFrame
  <2> QED BY <1>3, <1>8, <2>1 DEF IdTooLarge, NoPosition, UnknownType
<1>9. CASE CyclicDependency
  BY <1>5, <1>9 DEF CyclicDependency, CacheMiss, Entered, At
<1>10. CASE StartRead \/ ReadReference \/ ReadGarbage \/ GotReference
  BY <1>10 DEF StartRead, ReadReference, ReadGarbage, GotReference, Become, Call
<1>11. CASE ResolveNext \/ ResolveSwap \/ ResolveDone
  BY <1>2, <1>11 DEF ResolveNext, ResolveSwap, ResolveDone, At, BatchFrames
<1> QED BY <1>6, <1>7, <1>8, <1>9, <1>10, <1>11 DEF LoadStep

LEMMA NextProgress ==
    ASSUME TypeOK, Phase, Guards, BatchStack, Progress, [Next]_vars
    PROVE  Progress'
<1> USE DEF cache, batches, calls
<1>0. /\ build \in Build /\ \A i : Loadable(i)' <=> Loadable(i)
      /\ ~cancelled' => ~cancelled
  BY NextFixesIndex, NextLatch DEF TypeOK, Loadable
<1>1. ASSUME build'.phase # "load" \/ cancelled' PROVE Progress'
  BY <1>1 DEF Progress
<1>2. ASSUME build' = build, UNCHANGED <<stack, instancesLoaded>> PROVE Progress'
  BY <1>0, <1>2 DEF Progress
<1>3. CASE UNCHANGED vars
  BY <1>2, <1>3 DEF vars
<1>4. CASE LoadStep
  <2> SUFFICES ASSUME build.phase = "load", ~cancelled', UNCHANGED build
               PROVE  Progress'
    BY <1>1, <1>4, CallsKeepBatches
  <2>1. instancesLoaded \subseteq instancesLoaded'
    BY <1>4
    DEF LoadStep, LoadCancelled, CacheHit, IdTooLarge, CyclicDependency,
        NoPosition, UnknownType, StartRead, ReadReference, ReadGarbage, GotReference,
        DropPartial, InsertBatchOwned, InsertPermanent, Insert, ResolveNext,
        ResolveSwap, ResolveDone
  <2> SUFFICES ASSUME NEW i \in build.closure \ build.todo, Loadable(i)
               PROVE  \/ i \in instancesLoaded'
                      \/ stack' # <<>> /\ BottomId(stack') = i
    BY <1>0 DEF Progress, BottomId
  <2>2. i \in instancesLoaded \/ (stack # <<>> /\ BottomId(stack) = i)
    BY <1>0 DEF Progress
  <2>3. CASE i \in instancesLoaded
    BY <2>1, <2>3
  <2>4. CASE BottomId(stack) = i /\ stack' # <<>>
    BY <1>4, <2>4, LoadStepBottom
  <2>5. CASE BottomId(stack) = i /\ stack' = <<>>
    BY <1>4, <2>5, LoadStepBottom, LowestCallLoads
  <2> QED BY <2>2, <2>3, <2>4, <2>5
<1>5. CASE RefsStep
  <2>1. ASSUME build.phase = "load", ~cancelled PROVE FALSE
    <3>1. stack \in Seq(BatchFrames)
      BY <2>1 DEF BatchStack
    <3>2. stack # <<>> /\ Top.op = "lazyRefs"
      BY <1>5 DEF RefsStep, NoInverses, HasInverses, MapRefsToTypes, NullType,
         CheckAnInvAttr, RefsDone, LoadReferent, GotReferent, AttrDone, At
    <3> QED BY <3>1, <3>2, TopIn DEF BatchFrames, LoadFrame
  <2> QED BY <1>0, <1>1, <1>5, <2>1, CallsKeepBatches
<1>6. CASE BatchStep
  <2>1. CASE ExpandClosure \/ ClosureDone \/ Pin
    BY <1>0, <1>1, <2>1 DEF ExpandClosure, ClosureDone, Pin, Building, Build
  <2>2. CASE ClosureCancelled \/ PinCancelled \/ MaterializeCancelled
    BY <1>1, <2>2 DEF ClosureCancelled, PinCancelled, MaterializeCancelled
  <2>3. CASE LoadBatchDone
    BY <1>1, <2>3 DEF LoadBatchDone, NoBuild
  <2>4. CASE PinDone
    BY <1>0, <2>4 DEF PinDone, Progress, Build
  <2>5. CASE MaterializeNext
    <3>1. PICK i \in build.todo : /\ build' = [build EXCEPT !.todo = @ \ {i}]
                                  /\ stack' = <<loadInstance(i, TRUE, TRUE)>>
      BY <2>5 DEF MaterializeNext
    <3>2. stack' # <<>> /\ BottomId(stack') = i
      BY <3>1 DEF BottomId, loadInstance
    <3>3. /\ build'.closure = build.closure /\ build'.todo = build.todo \ {i}
          /\ build.phase = "load" /\ stack = <<>> /\ UNCHANGED instancesLoaded
      BY <1>0, <2>5, <3>1 DEF MaterializeNext, Building, Build
    <3> QED BY <1>0, <3>2, <3>3 DEF Progress, BottomId
  <2> QED BY <1>6, <2>1, <2>2, <2>3, <2>4, <2>5 DEF BatchStep
<1>7. CASE Client
  <2>1. build'.phase # "load"
    BY <1>0, <1>7 DEF Client, LoadInstance, LoadBatch, ReleaseBatch, MoveBatch, Release,
       Idle, NoBuild
  <2> QED BY <1>1, <2>1
<1> QED BY <1>3, <1>4, <1>5, <1>6, <1>7 DEF Next, Running

LEMMA NextBatches ==
    ASSUME TypeOK, Phase, Pinning, Closed, Progress, BatchIsClosed, [Next]_vars
    PROVE  BatchIsClosed'
<1> USE DEF batches, calls
<1>0. /\ build \in Build /\ live \subseteq Handles /\ held \in [Handles -> SUBSET Ids]
      /\ \A i : (Loadable(i)' <=> Loadable(i)) /\ (Known(i)' <=> Known(i))
      /\ \A i : Fwd(i)' = Fwd(i)
      /\ ~cancelled' => ~cancelled
  BY NextFixesIndex, NextLatch DEF TypeOK, Loadable, Known, Fwd
<1>1. \A i \in instancesLoaded \ instancesLoaded' : \A h \in live' : i \notin held'[h]
  BY NextEvicts
<1>2. ASSUME \A h \in live' : \E g \in live : held'[h] \subseteq held[g] /\ held[g] \subseteq held'[h]
      PROVE  BatchIsClosed'
  <2> SUFFICES ASSUME ~cancelled, NEW h \in live', NEW i \in held'[h]
               PROVE  /\ \A r \in Fwd(i) : Known(r) => r \in held'[h]
                      /\ Loadable(i) => i \in instancesLoaded'
    BY <1>0 DEF BatchIsClosed
  <2>1. PICK g \in live : held'[h] \subseteq held[g] /\ held[g] \subseteq held'[h]
    BY <1>2
  <2> QED BY <1>1, <2>1 DEF BatchIsClosed
<1>3. ASSUME UNCHANGED <<live, held>> PROVE BatchIsClosed'
  BY <1>2, <1>3
<1>4. CASE UNCHANGED vars
  BY <1>3, <1>4 DEF vars
<1>5. CASE LoadStep \/ RefsStep
  BY <1>3, <1>5, CallsKeepBatches
<1>6. CASE LoadBatchDone
  <2>1. /\ stack = <<>> /\ build.todo = {} /\ build.phase = "load"
        /\ build.handle \in Handles /\ live' = live \cup {build.handle}
        /\ held' = [held EXCEPT ![build.handle] = build.closure]
        /\ UNCHANGED <<instancesLoaded, cancelled>> /\ build.closure \subseteq Ids
        /\ build.handle \notin live
    BY <1>0, <1>6 DEF LoadBatchDone, Building, Phase, cache, Pinning, Handover, Build
  <2> SUFFICES ASSUME ~cancelled, NEW h \in live', NEW i \in held'[h]
               PROVE  /\ \A r \in Fwd(i) : Known(r) => r \in held'[h]
                      /\ Loadable(i) => i \in instancesLoaded'
    BY <1>0 DEF BatchIsClosed
  <2>2. CASE h = build.handle
    <3>1. held'[h] = build.closure /\ i \in Ids
      BY <1>0, <2>1, <2>2
    <3>2. \A r \in Fwd(i) : Covered(r)
      BY <2>1, <3>1 DEF Closed, Covered
    <3>3. Loadable(i) => i \in instancesLoaded
      BY <2>1, <3>1 DEF Progress
    <3> QED BY <2>1, <3>1, <3>2, <3>3 DEF Covered
  <2>3. CASE h # build.handle
    BY <1>0, <2>1, <2>3 DEF BatchIsClosed
  <2> QED BY <2>2, <2>3
<1>7. CASE BatchStep /\ ~LoadBatchDone
  BY <1>3, <1>7 DEF BatchStep, ExpandClosure, ClosureCancelled, ClosureDone, Pin,
     PinCancelled, PinDone, MaterializeNext, MaterializeCancelled
<1>8. CASE Client
  <2>1. CASE LoadInstance
    BY <1>3, <2>1 DEF LoadInstance
  <2>2. ASSUME NEW h \in Handles, LoadBatch(h) PROVE BatchIsClosed'
    BY <1>3, <2>2 DEF LoadBatch
  <2>3. ASSUME NEW h \in Handles, ReleaseBatch(h) PROVE BatchIsClosed'
    <3>1. \A x \in live' : x \in live /\ held'[x] = held[x]
      BY <1>0, <2>3 DEF ReleaseBatch
    <3> QED BY <1>2, <3>1
  <2>4. ASSUME NEW g \in Handles, NEW h \in Handles, MoveBatch(g, h)
        PROVE  BatchIsClosed'
    <3>1. \A x \in live' : x # g /\ held'[x] = held[IF x = h THEN g ELSE x]
      BY <1>0, <2>4 DEF MoveBatch
    <3>2. \A x \in live' : x = h \/ x \in live
      BY <2>4 DEF MoveBatch
    <3>3. g \in live
      BY <2>4 DEF MoveBatch
    <3> QED BY <1>2, <3>1, <3>2, <3>3
  <2> QED BY <1>8, <2>1, <2>2, <2>3, <2>4 DEF Client
<1> QED BY <1>4, <1>5, <1>6, <1>7, <1>8 DEF Next, Running

LEMMA CompleteInv == Spec => [](Progress /\ BatchIsClosed)
<1>1. Init => Progress /\ BatchIsClosed
  BY DEF Init, NoBuild, Progress, BatchIsClosed
<1>2. /\ TypeOK /\ Phase /\ Pinning /\ Guards /\ Ownership /\ Progress
      /\ BatchIsClosed /\ [Next]_vars
      => (Progress /\ BatchIsClosed)'
  BY NextProgress, NextBatches DEF Ownership
<1> QED BY <1>1, <1>2, TypeInv, PinInv, GuardsInv, OwnershipInv, PTL DEF Spec

(* A batch that was not cut short holds everything that its instances      *)
(* refer to, and keeps in the cache every one that can be loaded, until it *)
(* is released - whatever other loads and batches the client makes         *)
(* meanwhile, on any reference graph (loadBatch, lazySupport.h:91).        *)
THEOREM BatchesComplete == Spec => []BatchIsClosed
BY CompleteInv, PTL

-----------------------------------------------------------------------------
(* Inverse attributes.  A client that only loads for good, and files whose *)
(* referrers are records typeFromFile can read: with an exception, and     *)
(* for what a batch loads, inverse attributes are not resolved.            *)
LoadsOnly == "loadBatch" \notin Uses

ReferrersTyped ==
    \A x \in Indexes : \A i \in Ids : x.fwd[i] # <<>> => x.entry[i] \in {"good", "alien"}

(* Frames: an instance whose deferred inverses its load resolves is cached. *)
KeptFrames ==
    {f \in Frame : f.op = "load" => IF f.pc = "resolve" THEN f.id \in instancesLoaded
                                                        ELSE f.todo = {}}

Waits(f) == f.op = "lazyRefs" /\ f.pc \in {"load", "await"}

(* g was called by f. *)
Serves(g, f) ==
    IF g.op = "lazyRefs" THEN f.op = "load" /\ f.pc = "resolve"
    ELSE f.pc = "await" /\ (f.op = "lazyRefs" => First(f.todo, g.id))

(* f may stand on the calls t: a lazyRefs that has passed checkAnInvAttr    *)
(* does not wait for an instance that one of them is reading.               *)
Fits(f, t) ==
    /\ IF t = <<>> THEN f.op = "load" ELSE Serves(f, Head(t))
    /\ Waits(f) => f.todo \cap ReadingOf(t) = {}

Nested(s) ==
    /\ s # <<>> => s[Len(s)].op = "load"
    /\ \A k \in 1..(Len(s) - 1) : Serves(s[k], s[k + 1])
    /\ \A j, k \in 1..Len(s) :
           j < k /\ Waits(s[j]) /\ IsReading(s[k]) => s[k].id \notin s[j].todo

(* What f has still to do for the referrer r of i through attribute a. *)
Owes(f, i, a, r) ==
    \/ f.op = "load" /\ i \in f.todo
    \/ /\ f.op = "lazyRefs" /\ f.id = i
       /\ \/ f.pc = "enter"
          \/ a \in f.attrs
          \/ Waits(f) /\ f.attr = a /\ r \in f.todo
Owed(s, i, a, r) == \E k \in 1..Len(s) : Owes(s[k], i, a, r)

Related(i, a, r) ==
    r \in instancesLoaded /\ (i \in obj[r].refs => obj[i].inverse[a] # {})
Due(i, a, r)  == /\ i \in instancesLoaded /\ a \in index.inverseAttrs[i]
                 /\ r \in a /\ r \in Referrers(i) /\ Loadable(r)

Loads == build = NoBuild /\ live = {} /\ batchLoadDepth = 0

Calls == stack \in Seq(KeptFrames) /\ Nested(stack)

Answered ==
    At("lazyRefs", "await") =>
        \A r \in Top.todo : First(Top.todo, r) /\ Loadable(r) => ret = r /\ r \in instancesLoaded

NothingDeferred ==
    stack = <<>> \/ (Tail(stack) = <<>> /\ At("load", "enter")) => deferredInverseInstances = {}

DuesCovered ==
    \A i \in Ids : \A a \in SUBSET Ids : \A r \in Ids : Due(i, a, r) =>
        Related(i, a, r) \/ i \in deferredInverseInstances \/ Owed(stack, i, a, r)

InverseInv == Calls /\ Answered /\ NothingDeferred /\ DuesCovered

LEMMA SeqGrows ==
    ASSUME NEW S, NEW T, S \subseteq T, NEW s \in Seq(S) PROVE s \in Seq(T)
OBVIOUS

LEMMA OnTop ==
    ASSUME NEW S, NEW t \in Seq(S), NEW f \in S
    PROVE  /\ Len(<<f>> \o t) = Len(t) + 1 /\ Len(t) \in Nat /\ (<<f>> \o t)[1] = f
           /\ \A k \in 1..Len(t) : (<<f>> \o t)[k + 1] = t[k]
           /\ \A k \in 2..(Len(t) + 1) : (<<f>> \o t)[k] = t[k - 1] /\ k - 1 \in 1..Len(t)
           /\ t # <<>> => Head(t) = t[1] /\ Len(t) > 0
           /\ t = <<>> => Len(t) = 0
           /\ <<f>> \o t # <<>>
OBVIOUS

LEMMA NestedPush ==
    ASSUME NEW S, NEW t \in Seq(S), NEW f \in S
    PROVE  Nested(<<f>> \o t) <=> Nested(t) /\ Fits(f, t)
<1> DEFINE u == <<f>> \o t
<1>1. /\ Len(u) = Len(t) + 1 /\ Len(t) \in Nat /\ u[1] = f
      /\ \A k \in 1..Len(t) : u[k + 1] = t[k]
      /\ \A k \in 2..(Len(t) + 1) : u[k] = t[k - 1] /\ k - 1 \in 1..Len(t)
      /\ t # <<>> => Head(t) = t[1] /\ Len(t) > 0
      /\ t = <<>> => Len(t) = 0
      /\ u # <<>>
  BY OnTop
<1> HIDE DEF u
<1>2. u[Len(u)].op = "load" <=> IF t = <<>> THEN f.op = "load" ELSE t[Len(t)].op = "load"
  BY <1>1
<1>3. (\A k \in 1..(Len(u) - 1) : Serves(u[k], u[k + 1])) <=>
         /\ t # <<>> => Serves(f, Head(t))
         /\ \A k \in 1..(Len(t) - 1) : Serves(t[k], t[k + 1])
  <2>1. ASSUME \A k \in 1..(Len(u) - 1) : Serves(u[k], u[k + 1]), t # <<>>
        PROVE  Serves(f, Head(t))
    <3>1. 1 \in 1..(Len(u) - 1) /\ u[1] = f /\ u[1 + 1] = Head(t)
      BY <1>1, <2>1
    <3>2. Serves(u[1], u[1 + 1])
      BY <2>1, <3>1, Zenon
    <3> QED BY <3>1, <3>2
  <2>2. ASSUME \A k \in 1..(Len(u) - 1) : Serves(u[k], u[k + 1]), NEW k \in 1..(Len(t) - 1)
        PROVE  Serves(t[k], t[k + 1])
    <3>1. k + 1 \in 1..(Len(u) - 1) /\ u[k + 1] = t[k] /\ u[k + 1 + 1] = t[k + 1]
      BY <1>1
    <3>2. Serves(u[k + 1], u[k + 1 + 1])
      BY <2>2, <3>1, Zenon
    <3> QED BY <3>1, <3>2
  <2>3. ASSUME t # <<>> => Serves(f, Head(t)), \A k \in 1..(Len(t) - 1) : Serves(t[k], t[k + 1]),
               NEW k \in 1..(Len(u) - 1)
        PROVE  Serves(u[k], u[k + 1])
    <3>1. CASE k = 1
      <4>1. t # <<>> /\ u[k] = f /\ u[k + 1] = Head(t)
        BY <1>1, <2>3, <3>1
      <4> QED BY <2>3, <4>1
    <3>2. CASE k # 1
      <4>1. k - 1 \in 1..(Len(t) - 1) /\ u[k] = t[k - 1] /\ u[k + 1] = t[(k - 1) + 1]
        BY <1>1, <2>3, <3>2
      <4>2. Serves(t[k - 1], t[(k - 1) + 1])
        BY <2>3, <4>1, Zenon
      <4> QED BY <4>1, <4>2
    <3> QED BY <3>1, <3>2
  <2> QED BY <2>1, <2>2, <2>3
<1> DEFINE Clear(s) == \A j, k \in 1..Len(s) :
               j < k /\ Waits(s[j]) /\ IsReading(s[k]) => s[k].id \notin s[j].todo
<1>4. Clear(u) <=> Clear(t) /\ (Waits(f) => f.todo \cap ReadingOf(t) = {})
  <2>1. ASSUME Clear(u), NEW j \in 1..Len(t), NEW k \in 1..Len(t), j < k,
               Waits(t[j]), IsReading(t[k])
        PROVE  t[k].id \notin t[j].todo
    <3>1. j + 1 \in 1..Len(u) /\ k + 1 \in 1..Len(u) /\ j + 1 < k + 1
          /\ u[j + 1] = t[j] /\ u[k + 1] = t[k]
      BY <1>1, <2>1
    <3> QED BY <2>1, <3>1
  <2>2. ASSUME Clear(u), Waits(f), NEW i \in ReadingOf(t) PROVE i \notin f.todo
    <3>1. PICK k \in 1..Len(t) : IsReading(t[k]) /\ t[k].id = i
      BY <2>2 DEF ReadingOf
    <3>2. 1 \in 1..Len(u) /\ k + 1 \in 1..Len(u) /\ 1 < k + 1 /\ u[k + 1] = t[k]
      BY <1>1
    <3> QED BY <1>1, <2>2, <3>1, <3>2
  <2>3. ASSUME Clear(t), Waits(f) => f.todo \cap ReadingOf(t) = {},
               NEW j \in 1..Len(u), NEW k \in 1..Len(u), j < k, Waits(u[j]), IsReading(u[k])
        PROVE  u[k].id \notin u[j].todo
    <3>1. u[k] = t[k - 1] /\ k - 1 \in 1..Len(t)
      BY <1>1, <2>3
    <3>2. CASE j = 1
      <4>1. u[k].id \in ReadingOf(t)
        BY <2>3, <3>1 DEF ReadingOf
      <4> QED BY <1>1, <2>3, <3>2, <4>1
    <3>3. CASE j # 1
      <4>1. u[j] = t[j - 1] /\ j - 1 \in 1..Len(t) /\ j - 1 < k - 1
        BY <1>1, <2>3, <3>3
      <4> QED BY <2>3, <3>1, <4>1
    <3> QED BY <3>2, <3>3
  <2> HIDE DEF Clear
  <2>4. Clear(u) => Clear(t)
    BY <2>1 DEF Clear
  <2>5. Clear(t) /\ (Waits(f) => f.todo \cap ReadingOf(t) = {}) => Clear(u)
    BY <2>3 DEF Clear
  <2> QED BY <2>2, <2>4, <2>5
<1> QED BY <1>1, <1>2, <1>3, <1>4 DEF Nested, Fits, u

LEMMA OwedPush ==
    ASSUME NEW S, NEW t \in Seq(S), NEW f \in S, NEW i, NEW a, NEW r
    PROVE  Owed(<<f>> \o t, i, a, r) <=> Owes(f, i, a, r) \/ Owed(t, i, a, r)
<1> DEFINE u == <<f>> \o t
<1>1. /\ Len(u) = Len(t) + 1 /\ Len(t) \in Nat /\ u[1] = f
      /\ \A k \in 1..Len(t) : u[k + 1] = t[k]
      /\ \A k \in 2..(Len(t) + 1) : u[k] = t[k - 1] /\ k - 1 \in 1..Len(t)
  BY OnTop
<1> HIDE DEF u
<1>2. ASSUME NEW k \in 1..Len(u), Owes(u[k], i, a, r)
      PROVE  Owes(f, i, a, r) \/ Owed(t, i, a, r)
  <2>1. k = 1 \/ (k \in 2..(Len(t) + 1))
    BY <1>1, <1>2
  <2>2. k # 1 => u[k] = t[k - 1] /\ k - 1 \in 1..Len(t)
    BY <1>1, <2>1
  <2> QED BY <1>1, <1>2, <2>2 DEF Owed
<1>3. Owes(f, i, a, r) => Owed(u, i, a, r)
  <2>1. 1 \in 1..Len(u) /\ u[1] = f
    BY <1>1
  <2> QED BY <2>1 DEF Owed
<1>4. ASSUME NEW k \in 1..Len(t), Owes(t[k], i, a, r) PROVE Owed(u, i, a, r)
  <2>1. k + 1 \in 1..Len(u) /\ u[k + 1] = t[k]
    BY <1>1
  <2> QED BY <1>4, <2>1 DEF Owed
<1> QED BY <1>2, <1>3, <1>4 DEF Owed, u

LEMMA TopFits ==
    ASSUME Calls, stack # <<>>
    PROVE  /\ Top \in KeptFrames /\ Top \in Frame
           /\ Tail(stack) \in Seq(KeptFrames) /\ Tail(stack) \in Seq(Frame)
           /\ stack = <<Top>> \o Tail(stack)
           /\ Nested(Tail(stack)) /\ Fits(Top, Tail(stack))
           /\ \A i, a, r : Owed(stack, i, a, r) <=> Owes(Top, i, a, r) \/ Owed(Tail(stack), i, a, r)
<1>1. /\ Top \in KeptFrames /\ Tail(stack) \in Seq(KeptFrames)
      /\ stack = <<Top>> \o Tail(stack)
  BY StackSplit DEF Calls
<1>2. KeptFrames \subseteq Frame
  BY DEF KeptFrames
<1>3. Tail(stack) \in Seq(Frame)
  BY <1>1, <1>2, SeqGrows
<1>4. Nested(Tail(stack)) /\ Fits(Top, Tail(stack))
  BY <1>1, NestedPush DEF Calls
<1>5. \A i, a, r : Owed(stack, i, a, r) <=> Owes(Top, i, a, r) \/ Owed(Tail(stack), i, a, r)
  BY <1>1, OwedPush, Zenon
<1> QED BY <1>1, <1>2, <1>3, <1>4, <1>5

LEMMA FirstOnce ==
    ASSUME NEW T, T \subseteq Nat, NEW i, NEW j, First(T, i), First(T, j) PROVE i = j
<1>1. i \in Nat /\ j \in Nat /\ i <= j /\ j <= i
  BY DEF First
<1> QED BY <1>1

LEMMA StackTops ==
    ASSUME NEW S, NEW t \in Seq(S), t # <<>> PROVE Head(t) \in S
OBVIOUS

LEMMA KeptGrow ==
    ASSUME instancesLoaded \subseteq instancesLoaded' PROVE KeptFrames \subseteq KeptFrames'
BY DEF KeptFrames

(* The three ways the stack of calls changes. *)
LEMMA CallsReturned ==
    ASSUME Calls, stack # <<>>, stack' = Tail(stack), instancesLoaded \subseteq instancesLoaded'
    PROVE  Calls' /\ \A i, a, r : Owed(stack', i, a, r) <=> Owed(Tail(stack), i, a, r)
<1>1. Tail(stack) \in Seq(KeptFrames) /\ Nested(Tail(stack))
  BY TopFits
<1>2. Tail(stack) \in Seq(KeptFrames')
  BY <1>1, KeptGrow, SeqGrows
<1> QED BY <1>1, <1>2 DEF Calls

LEMMA CallsReplaced ==
    ASSUME Calls, stack # <<>>, instancesLoaded \subseteq instancesLoaded',
           NEW f \in KeptFrames', stack' = <<f>> \o Tail(stack), Fits(f, Tail(stack))
    PROVE  /\ Calls'
           /\ stack' # <<>> /\ Head(stack') = f /\ Tail(stack') = Tail(stack)
           /\ \A i, a, r : Owed(stack', i, a, r) <=> Owes(f, i, a, r) \/ Owed(Tail(stack), i, a, r)
<1> DEFINE t == Tail(stack)
<1>1. t \in Seq(KeptFrames) /\ Nested(t)
  BY TopFits
<1>2. t \in Seq(KeptFrames')
  BY <1>1, KeptGrow, SeqGrows
<1> HIDE DEF t
<1>3. stack' = <<f>> \o t /\ Fits(f, t)
  BY DEF t
<1>4. /\ stack' \in Seq(KeptFrames') /\ stack' # <<>> /\ Head(stack') = f /\ Tail(stack') = t
  <2>1. /\ <<f>> \o t \in Seq(KeptFrames') /\ <<f>> \o t # <<>>
        /\ Head(<<f>> \o t) = f /\ Tail(<<f>> \o t) = t
    BY <1>2, PushOne
  <2> QED BY <1>3, <2>1, Zenon
<1>5. Nested(<<f>> \o t)
  BY <1>1, <1>2, <1>3, NestedPush
<1>6. Nested(stack')
  BY <1>3, <1>5, Zenon
<1>7. \A i, a, r : Owed(stack', i, a, r) <=> Owes(f, i, a, r) \/ Owed(t, i, a, r)
  BY <1>2, <1>3, OwedPush, Zenon
<1>8. Calls'
  BY <1>4, <1>6 DEF Calls
<1> QED BY <1>4, <1>7, <1>8 DEF t

LEMMA CallsPushed ==
    ASSUME Calls, stack # <<>>, instancesLoaded \subseteq instancesLoaded',
           NEW f \in KeptFrames', NEW g \in KeptFrames', stack' = <<g, f>> \o Tail(stack),
           Fits(f, Tail(stack)), ~Waits(g), Serves(g, f)
    PROVE  /\ Calls'
           /\ stack' # <<>> /\ Head(stack') = g /\ Tail(stack') # <<>>
           /\ \A i, a, r : Owed(stack', i, a, r) <=>
                              Owes(g, i, a, r) \/ Owes(f, i, a, r) \/ Owed(Tail(stack), i, a, r)
<1> DEFINE t == Tail(stack)
           u == <<f>> \o t
<1>1. t \in Seq(KeptFrames) /\ Nested(t)
  BY TopFits
<1>2. t \in Seq(KeptFrames')
  BY <1>1, KeptGrow, SeqGrows
<1>3. stack' = <<g>> \o u
  <2>1. <<g, f>> \o t = <<g>> \o u
    BY <1>1
  <2> QED BY <2>1, Zenon
<1> HIDE DEF t
<1>4. Fits(f, t)
  BY DEF t
<1>5. u \in Seq(KeptFrames') /\ u # <<>> /\ Head(u) = f
  BY <1>2, PushOne
<1>6. Nested(u)
  BY <1>1, <1>2, <1>4, NestedPush
<1>7. \A i, a, r : Owed(u, i, a, r) <=> Owes(f, i, a, r) \/ Owed(t, i, a, r)
  BY <1>2, OwedPush, Zenon
<1> HIDE DEF u
<1>8. Fits(g, u)
  BY <1>5 DEF Fits
<1>9. /\ stack' \in Seq(KeptFrames') /\ stack' # <<>> /\ Head(stack') = g /\ Tail(stack') = u
  <2>1. /\ <<g>> \o u \in Seq(KeptFrames') /\ <<g>> \o u # <<>>
        /\ Head(<<g>> \o u) = g /\ Tail(<<g>> \o u) = u
    BY <1>5, PushOne
  <2> QED BY <1>3, <2>1, Zenon
<1>10. Nested(stack')
  <2>1. Nested(<<g>> \o u)
    BY <1>5, <1>6, <1>8, NestedPush
  <2> QED BY <1>3, <2>1, Zenon
<1>11. \A i, a, r : Owed(stack', i, a, r) <=> Owes(g, i, a, r) \/ Owed(u, i, a, r)
  BY <1>3, <1>5, OwedPush, Zenon
<1>12. Calls'
  BY <1>9, <1>10 DEF Calls
<1> QED BY <1>5, <1>7, <1>9, <1>11, <1>12 DEF t

(* Nothing owed is forgotten when what the call at the top owed is still    *)
(* owed by somebody.                                                        *)
LEMMA CoverKept ==
    ASSUME Calls, DuesCovered, stack # <<>>, UNCHANGED <<index, instancesLoaded, obj>>,
           deferredInverseInstances \subseteq deferredInverseInstances',
           \A i, a, r : Owed(Tail(stack), i, a, r) => Owed(stack', i, a, r),
           \A i \in Ids : \A a \in SUBSET Ids : \A r \in Ids :
               Due(i, a, r) /\ Owes(Top, i, a, r) =>
                   i \in deferredInverseInstances' \/ Owed(stack', i, a, r)
    PROVE  DuesCovered'
<1> SUFFICES ASSUME NEW i \in Ids, NEW a \in SUBSET Ids, NEW r \in Ids, Due(i, a, r)'
             PROVE  Related(i, a, r)' \/ i \in deferredInverseInstances' \/ Owed(stack', i, a, r)
  BY DEF DuesCovered
<1>1. Due(i, a, r)
  BY DEF Due, Referrers, Fwd, Loadable
<1>2. Related(i, a, r) \/ i \in deferredInverseInstances \/ Owed(stack, i, a, r)
  BY <1>1 DEF DuesCovered
<1>3. Related(i, a, r) => Related(i, a, r)'
  BY DEF Related
<1>4. Owed(stack, i, a, r) => Owes(Top, i, a, r) \/ Owed(Tail(stack), i, a, r)
  BY TopFits
<1> QED BY <1>1, <1>2, <1>3, <1>4

(* loadInstance returns what it was asked for, if a lazyRefs asked. *)
LEMMA LoadReturns ==
    ASSUME InverseInv, stack # <<>>, Top.op = "load", Top.todo = {},
           stack' = Tail(stack), UNCHANGED <<index, instancesLoaded, obj, deferredInverseInstances>>,
           Tail(stack) = <<>> => deferredInverseInstances = {},
           Tail(stack) # <<>> /\ Head(Tail(stack)).op = "lazyRefs" /\ Loadable(Top.id) =>
               ret' = Top.id /\ Top.id \in instancesLoaded
    PROVE  InverseInv'
<1>1. Calls' /\ \A i, a, r : Owed(stack', i, a, r) <=> Owed(Tail(stack), i, a, r)
  BY CallsReturned DEF InverseInv
<1>2. \A i, a, r : ~Owes(Top, i, a, r)
  BY DEF Owes
<1>3. DuesCovered'
  BY <1>1, <1>2, CoverKept DEF InverseInv
<1>4. Tail(stack) # <<>> => Serves(Top, Head(Tail(stack)))
  BY TopFits DEF InverseInv, Fits
<1>5. NothingDeferred'
  BY <1>4 DEF NothingDeferred, At, Top, Serves
<1>6. Answered'
  <2> SUFFICES ASSUME Tail(stack) # <<>>, Head(Tail(stack)).op = "lazyRefs",
                      NEW r \in Head(Tail(stack)).todo, First(Head(Tail(stack)).todo, r),
                      Loadable(r)
               PROVE  ret' = r /\ r \in instancesLoaded
    BY DEF Answered, At, Top, Loadable
  <2>1. First(Head(Tail(stack)).todo, Top.id)
    BY <1>4 DEF Serves
  <2>2. r = Top.id
    <3>1. Head(Tail(stack)) \in Frame
      BY TopFits, StackTops DEF InverseInv
    <3>2. Head(Tail(stack)).todo \subseteq Nat
      BY <3>1, IdsAssumption DEF Frame, LoadFrame, RefsFrame
    <3> QED BY <2>1, <3>2, FirstOnce
  <2> QED BY <2>2
<1> QED BY <1>1, <1>3, <1>5, <1>6 DEF InverseInv

(* loadInstance goes on, or calls itself for the next reference. *)
LEMMA LoadGoesOn ==
    ASSUME InverseInv, stack # <<>>, Top.op = "load", Top.pc # "resolve",
           UNCHANGED <<index, instancesLoaded, obj, deferredInverseInstances>>,
           NEW f \in LoadFrame, f.id = Top.id, f.pc # "resolve", f.todo = Top.todo,
           \/ f.pc # "enter" /\ stack' = <<f>> \o Tail(stack)
           \/ /\ f.pc = "await"
              /\ \E g \in LoadFrame : /\ g.pc = "enter" /\ g.todo = {}
                                      /\ stack' = <<g, f>> \o Tail(stack)
    PROVE  InverseInv'
<1>1. /\ Top \in KeptFrames /\ Fits(Top, Tail(stack)) /\ Tail(stack) \in Seq(Frame)
  BY TopFits DEF InverseInv
<1>2. f \in KeptFrames' /\ Fits(f, Tail(stack))
  <2>1. f.op = "load" /\ f \in Frame /\ f.todo = {}
    BY <1>1 DEF LoadFrame, Frame, KeptFrames
  <2> QED BY <1>1, <2>1 DEF KeptFrames, Fits, Serves, Waits
<1>3. \A i, a, r : Owes(Top, i, a, r) => Owes(f, i, a, r)
  BY DEF Owes, LoadFrame
<1>4. CASE f.pc # "enter" /\ stack' = <<f>> \o Tail(stack)
  <2>1. /\ Calls' /\ stack' # <<>> /\ Head(stack') = f /\ Tail(stack') = Tail(stack)
        /\ \A i, a, r : Owed(stack', i, a, r) <=> Owes(f, i, a, r) \/ Owed(Tail(stack), i, a, r)
    BY <1>2, <1>4, CallsReplaced DEF InverseInv
  <2>2. DuesCovered'
    BY <1>3, <2>1, CoverKept DEF InverseInv
  <2>3. Answered' /\ NothingDeferred'
    BY <1>4, <2>1 DEF Answered, NothingDeferred, At, Top, LoadFrame
  <2> QED BY <2>1, <2>2, <2>3 DEF InverseInv
<1>5. ASSUME f.pc = "await", NEW g \in LoadFrame, g.pc = "enter", g.todo = {},
             stack' = <<g, f>> \o Tail(stack)
      PROVE  InverseInv'
  <2>1. g \in KeptFrames' /\ ~Waits(g) /\ Serves(g, f)
    BY <1>5 DEF LoadFrame, Frame, KeptFrames, Waits, Serves
  <2>2. /\ Calls' /\ stack' # <<>> /\ Head(stack') = g /\ Tail(stack') # <<>>
        /\ \A i, a, r : Owed(stack', i, a, r) <=>
                           Owes(g, i, a, r) \/ Owes(f, i, a, r) \/ Owed(Tail(stack), i, a, r)
    BY <1>2, <1>5, <2>1, CallsPushed DEF InverseInv
  <2>3. DuesCovered'
    BY <1>3, <2>2, CoverKept DEF InverseInv
  <2>4. Answered' /\ NothingDeferred'
    BY <2>2 DEF Answered, NothingDeferred, At, Top, LoadFrame
  <2> QED BY <2>2, <2>3, <2>4 DEF InverseInv
<1> QED BY <1>4, <1>5

(* What is being read is not cached. *)
LEMMA ReadingIsFresh ==
    ASSUME TypeOK, Guards, stack # <<>>, Top.op = "load", Top.pc = "read"
    PROVE  Top.id \in Ids /\ Top.id \notin instancesLoaded
<1>1. /\ Top \in Frame /\ Tail(stack) \in Seq(Frame) /\ stack = <<Top>> \o Tail(stack)
  BY StackSplit DEF TypeOK
<1>2. Top.id \in Ids
  BY <1>1 DEF Frame, LoadFrame, RefsFrame
<1>3. IsReading(Top)
  BY DEF IsReading
<1>4. ReadingOf(<<Top>> \o Tail(stack)) = {Top.id} \cup ReadingOf(Tail(stack))
  BY <1>1, <1>3, ReadingOfPush
<1>5. Top.id \in ReadingOf(stack)
  BY <1>1, <1>4
<1> QED BY <1>2, <1>5, ReadingIsReadingOf DEF Guards, LoadingIsStack

(* The instance is cached and its inverse attributes are owed. *)
LEMMA InsertOwes ==
    ASSUME TypeOK, Guards, InverseInv, InsertPermanent PROVE InverseInv'
<1> DEFINE f == [Top EXCEPT !.pc = "resolve"]
           g == lazyRefs(Top.id)
<1>1. /\ stack # <<>> /\ Top.op = "load" /\ Top.pc = "read"
      /\ instancesLoaded' = instancesLoaded \cup {Top.id}
      /\ \E o : obj' = [obj EXCEPT ![Top.id] = o]
      /\ stack' = <<g, f>> \o Tail(stack)
      /\ UNCHANGED <<index, deferredInverseInstances>>
  BY DEF InsertPermanent, Insert, EndRead, AllRead, At, Call
<1>2. /\ Top \in KeptFrames /\ Top \in LoadFrame /\ Fits(Top, Tail(stack))
      /\ Tail(stack) \in Seq(Frame) /\ Top.id \in Ids /\ Top.todo = {}
  <2>1. /\ Top \in KeptFrames /\ Fits(Top, Tail(stack)) /\ Tail(stack) \in Seq(Frame)
    BY <1>1, TopFits DEF InverseInv
  <2> QED BY <1>1, <2>1 DEF KeptFrames, Frame, LoadFrame, RefsFrame
<1>3. f \in LoadFrame /\ f.op = "load" /\ f.pc = "resolve" /\ f.id = Top.id /\ f.todo = {}
  BY <1>2 DEF LoadFrame
<1>4. g \in RefsFrame /\ g.op = "lazyRefs" /\ g.pc = "enter" /\ g.id = Top.id
  BY <1>2, NewFrames DEF lazyRefs
<1> HIDE DEF f, g
<1>5. f \in KeptFrames' /\ Fits(f, Tail(stack))
  BY <1>1, <1>2, <1>3 DEF KeptFrames, Frame, Fits, Serves, Waits
<1>6. g \in KeptFrames' /\ ~Waits(g) /\ Serves(g, f)
  BY <1>3, <1>4 DEF KeptFrames, Frame, Waits, Serves
<1>7. /\ Calls' /\ stack' # <<>> /\ Head(stack') = g /\ Tail(stack') # <<>>
      /\ \A i, a, r : Owed(stack', i, a, r) <=>
                         Owes(g, i, a, r) \/ Owes(f, i, a, r) \/ Owed(Tail(stack), i, a, r)
  BY <1>1, <1>5, <1>6, CallsPushed DEF InverseInv
<1>8. Answered' /\ NothingDeferred'
  BY <1>4, <1>7 DEF Answered, NothingDeferred, At, Top
<1>9. Top.id \notin instancesLoaded
  BY <1>1, ReadingIsFresh
<1>10. DuesCovered'
  <2> SUFFICES ASSUME NEW i \in Ids, NEW a \in SUBSET Ids, NEW r \in Ids, Due(i, a, r)'
               PROVE  Related(i, a, r)' \/ i \in deferredInverseInstances' \/ Owed(stack', i, a, r)
    BY DEF DuesCovered
  <2>1. CASE i = Top.id
    BY <1>4, <1>7, <2>1 DEF Owes
  <2>2. CASE i # Top.id
    <3>1. Due(i, a, r)
      BY <1>1, <2>2 DEF Due, Referrers, Fwd, Loadable
    <3>2. Related(i, a, r) \/ i \in deferredInverseInstances \/ Owed(stack, i, a, r)
      BY <3>1 DEF DuesCovered, InverseInv
    <3>3. Related(i, a, r) => Related(i, a, r)'
      <4> SUFFICES ASSUME Related(i, a, r) PROVE Related(i, a, r)'
        OBVIOUS
      <4>1. r # Top.id /\ r \in instancesLoaded
        BY <1>9 DEF Related
      <4>2. obj'[r] = obj[r] /\ obj'[i] = obj[i]
        BY <1>1, <2>2, <4>1 DEF TypeOK
      <4> QED BY <1>1, <4>2 DEF Related
    <3>4. Owed(stack, i, a, r) => Owes(Top, i, a, r) \/ Owed(Tail(stack), i, a, r)
      BY <1>1, TopFits DEF InverseInv
    <3>5. ~Owes(Top, i, a, r)
      BY <1>1, <1>2 DEF Owes
    <3> QED BY <1>1, <1>7, <3>2, <3>3, <3>4, <3>5
  <2> QED BY <2>1, <2>2
<1> QED BY <1>7, <1>8, <1>10 DEF InverseInv

LEMMA ResolveOwes ==
    ASSUME TypeOK, Guards, InverseInv, ResolveNext \/ ResolveSwap \/ ResolveDone
    PROVE  InverseInv'
<1> USE DEF cache, loading, calls
<1>1. /\ stack # <<>> /\ Top.op = "load" /\ Top.pc = "resolve"
      /\ UNCHANGED <<index, instancesLoaded, obj>>
  BY DEF ResolveNext, ResolveSwap, ResolveDone, At
<1>2. /\ Top \in LoadFrame /\ Top.id \in instancesLoaded /\ Fits(Top, Tail(stack))
      /\ Tail(stack) \in Seq(Frame) /\ stack = <<Top>> \o Tail(stack)
  <2>1. /\ Top \in KeptFrames /\ Fits(Top, Tail(stack)) /\ Tail(stack) \in Seq(Frame)
        /\ stack = <<Top>> \o Tail(stack)
    BY <1>1, TopFits DEF InverseInv
  <2> QED BY <1>1, <2>1 DEF KeptFrames, Frame, LoadFrame, RefsFrame
<1>3. ASSUME NEW f \in LoadFrame, f.pc = "resolve", f.id = Top.id
      PROVE  f \in KeptFrames' /\ Fits(f, Tail(stack))
  BY <1>1, <1>2, <1>3 DEF KeptFrames, Frame, LoadFrame, Fits, Serves, Waits
<1>4. ASSUME ResolveNext PROVE InverseInv'
  <2>1. PICK i \in Top.todo :
          LET rest == [Top EXCEPT !.todo = @ \ {i}] IN
          IF i \in instancesLoaded THEN Call(rest, lazyRefs(i)) ELSE Become(rest)
    BY <1>4 DEF ResolveNext
  <2> DEFINE f == [Top EXCEPT !.todo = @ \ {i}]
             g == lazyRefs(i)
  <2>2. /\ f \in LoadFrame /\ f.op = "load" /\ f.id = Top.id /\ f.pc = "resolve"
        /\ f.todo = Top.todo \ {i}
    BY <1>1, <1>2 DEF LoadFrame
  <2>3. g \in RefsFrame /\ g.op = "lazyRefs" /\ g.pc = "enter" /\ g.id = i
    BY <1>2, NewFrames DEF lazyRefs, LoadFrame
  <2>4. UNCHANGED deferredInverseInstances
    BY <1>4 DEF ResolveNext
  <2>5. IF i \in instancesLoaded THEN stack' = <<g, f>> \o Tail(stack)
                                 ELSE stack' = <<f>> \o Tail(stack)
    BY <2>1 DEF Call, Become
  <2> HIDE DEF f, g
  <2>6. f \in KeptFrames' /\ Fits(f, Tail(stack))
    BY <1>3, <2>2
  <2>7. \A j, a, r : Owes(Top, j, a, r) => Owes(f, j, a, r) \/ j = i
    BY <1>1, <2>2 DEF Owes
  <2>8. CASE i \in instancesLoaded
    <3>1. g \in KeptFrames' /\ ~Waits(g) /\ Serves(g, f)
      BY <2>2, <2>3 DEF KeptFrames, Frame, Waits, Serves
    <3>2. /\ Calls' /\ stack' # <<>> /\ Head(stack') = g /\ Tail(stack') # <<>>
          /\ \A j, a, r : Owed(stack', j, a, r) <=>
                             Owes(g, j, a, r) \/ Owes(f, j, a, r) \/ Owed(Tail(stack), j, a, r)
      BY <1>1, <2>5, <2>6, <2>8, <3>1, CallsPushed DEF InverseInv
    <3>3. \A a, r : Owes(g, i, a, r)
      BY <2>3 DEF Owes
    <3>4. DuesCovered'
      BY <1>1, <2>4, <2>7, <3>2, <3>3, CoverKept DEF InverseInv
    <3>5. Answered' /\ NothingDeferred'
      BY <2>3, <3>2 DEF Answered, NothingDeferred, At, Top
    <3> QED BY <3>2, <3>4, <3>5 DEF InverseInv
  <2>9. CASE i \notin instancesLoaded
    <3>1. /\ Calls' /\ stack' # <<>> /\ Head(stack') = f /\ Tail(stack') = Tail(stack)
          /\ \A j, a, r : Owed(stack', j, a, r) <=> Owes(f, j, a, r) \/ Owed(Tail(stack), j, a, r)
      BY <1>1, <2>5, <2>6, <2>9, CallsReplaced DEF InverseInv
    <3>2. DuesCovered'
      BY <1>1, <2>4, <2>7, <2>9, <3>1, CoverKept DEF InverseInv, Due
    <3>3. Answered' /\ NothingDeferred'
      BY <2>2, <3>1 DEF Answered, NothingDeferred, At, Top
    <3> QED BY <3>1, <3>2, <3>3 DEF InverseInv
  <2> QED BY <2>8, <2>9
<1>5. ASSUME ResolveSwap PROVE InverseInv'
  <2> DEFINE f == [Top EXCEPT !.todo = deferredInverseInstances]
  <2>1. /\ f \in LoadFrame /\ f.op = "load" /\ f.id = Top.id /\ f.pc = "resolve"
        /\ f.todo = deferredInverseInstances
    BY <1>1, <1>2 DEF LoadFrame, TypeOK
  <2>2. stack' = <<f>> \o Tail(stack) /\ Top.todo = {}
    BY <1>5 DEF ResolveSwap, Become
  <2> HIDE DEF f
  <2>3. f \in KeptFrames' /\ Fits(f, Tail(stack))
    BY <1>3, <2>1
  <2>4. /\ Calls' /\ stack' # <<>> /\ Head(stack') = f /\ Tail(stack') = Tail(stack)
        /\ \A j, a, r : Owed(stack', j, a, r) <=> Owes(f, j, a, r) \/ Owed(Tail(stack), j, a, r)
    BY <1>1, <2>2, <2>3, CallsReplaced DEF InverseInv
  <2>5. Answered' /\ NothingDeferred'
    BY <2>1, <2>4 DEF Answered, NothingDeferred, At, Top
  <2>6. DuesCovered'
    <3> SUFFICES ASSUME NEW i \in Ids, NEW a \in SUBSET Ids, NEW r \in Ids, Due(i, a, r)'
                 PROVE  Related(i, a, r)' \/ Owed(stack', i, a, r)
      BY DEF DuesCovered
    <3>1. Due(i, a, r)
      BY <1>1 DEF Due, Referrers, Fwd, Loadable
    <3>2. Related(i, a, r) \/ i \in deferredInverseInstances \/ Owed(stack, i, a, r)
      BY <3>1 DEF DuesCovered, InverseInv
    <3>3. Related(i, a, r) => Related(i, a, r)'
      BY <1>1 DEF Related
    <3>4. Owed(stack, i, a, r) => Owes(Top, i, a, r) \/ Owed(Tail(stack), i, a, r)
      BY <1>1, TopFits DEF InverseInv
    <3>5. ~Owes(Top, i, a, r)
      BY <1>1, <2>2 DEF Owes
    <3>6. i \in deferredInverseInstances => Owes(f, i, a, r)
      BY <2>1 DEF Owes
    <3> QED BY <2>4, <3>2, <3>3, <3>4, <3>5, <3>6
  <2> QED BY <2>4, <2>5, <2>6 DEF InverseInv
<1>6. ASSUME ResolveDone PROVE InverseInv'
  <2>1. /\ Top.todo = {} /\ stack' = Tail(stack) /\ ret' = Top.id
        /\ instancesLoading # {} \/ deferredInverseInstances = {}
        /\ UNCHANGED deferredInverseInstances
    BY <1>6 DEF ResolveDone, Return
  <2>2. Tail(stack) = <<>> => deferredInverseInstances = {}
    <3> SUFFICES ASSUME Tail(stack) = <<>> PROVE instancesLoading = {}
      BY <2>1
    <3>1. ~IsReading(Top)
      BY <1>1 DEF IsReading
    <3>2. ReadingOf(stack) = ReadingOf(Tail(stack))
      <4>1. ReadingOf(<<Top>> \o Tail(stack)) = ReadingOf(Tail(stack))
        BY <1>1, <3>1, TopFits, QuietPush DEF InverseInv
      <4> QED BY <1>2, <4>1
    <3>3. ReadingOf(<<>>) = {}
      BY DEF ReadingOf
    <3> QED BY <3>2, <3>3, ReadingIsReadingOf DEF Guards, LoadingIsStack
  <2> QED BY <1>1, <1>2, <2>1, <2>2, LoadReturns
<1> QED BY <1>4, <1>5, <1>6

LEMMA LoadStepOwes ==
    ASSUME TypeOK, Guards, batchLoadDepth = 0, InverseInv, LoadStep PROVE InverseInv'
<1> USE DEF cache, loading, calls
<1>1. stack # <<>> /\ Top \in LoadFrame /\ Tail(stack) \in Seq(Frame)
  BY LoadShape
<1>2. /\ Top.op = "load" /\ Top.id \in Ids /\ (Top.pc # "resolve" => Top.todo = {})
      /\ Tail(stack) # <<>> => Serves(Top, Head(Tail(stack)))
  BY <1>1, TopFits DEF InverseInv, KeptFrames, LoadFrame, Fits
(* A call that is just entered returns at once. *)
<1>3. ASSUME Top.pc = "enter", Return(ret'),
             UNCHANGED <<index, instancesLoaded, obj, deferredInverseInstances>>,
             Tail(stack) # <<>> /\ Head(Tail(stack)).op = "lazyRefs" /\ Loadable(Top.id) =>
                 ret' = Top.id /\ Top.id \in instancesLoaded
      PROVE  InverseInv'
  <2>1. Tail(stack) = <<>> => deferredInverseInstances = {}
    BY <1>1, <1>2, <1>3 DEF InverseInv, NothingDeferred, At
  <2> QED BY <1>1, <1>2, <1>3, <2>1, LoadReturns DEF Return
<1>4. ASSUME LoadCancelled \/ DropPartial \/ InsertBatchOwned PROVE FALSE
  BY <1>4 DEF LoadCancelled, DropPartial, InsertBatchOwned
<1>5. CASE CacheHit
  BY <1>3, <1>5 DEF CacheHit, Entered, At, Return
<1>6. CASE IdTooLarge
  <2>1. Top.id \in Nat /\ IntMax \in Nat
    BY <1>2, IdsAssumption, ClientAssumption
  <2>2. ~Loadable(Top.id)
    BY <1>6, <2>1 DEF IdTooLarge, Loadable
  <2> QED BY <1>3, <1>6, <2>2 DEF IdTooLarge, CacheMiss, Entered, At, Return
<1>7. CASE NoPosition \/ UnknownType
  <2>1. ~Loadable(Top.id)
    BY <1>7 DEF NoPosition, UnknownType, Loadable
  <2> QED BY <1>3, <1>7, <2>1
          DEF NoPosition, UnknownType, Begin, CacheMiss, Entered, At, Return
(* What lazyRefs asks for is not being read. *)
<1>8. CASE CyclicDependency
  <2>1. Top.pc = "enter" /\ Top.id \in instancesLoading
    BY <1>8 DEF CyclicDependency, CacheMiss, Entered, At
  <2>2. ASSUME Tail(stack) # <<>>, Head(Tail(stack)).op = "lazyRefs" PROVE FALSE
    <3> DEFINE t == Tail(stack)
               c == Head(t)
    <3>1. /\ t \in Seq(Frame) /\ t # <<>> /\ Nested(t)
          /\ stack = <<Top>> \o t /\ Top \in Frame
      BY <1>1, <2>2, TopFits DEF InverseInv
    <3>2. c.op = "lazyRefs" /\ c.pc = "await" /\ Top.id \in c.todo
      BY <1>2, <2>2 DEF Serves, First
    <3> HIDE DEF t
    <3>3. c \in Frame /\ Tail(t) \in Seq(Frame) /\ t = <<c>> \o Tail(t)
      BY <3>1, HeadTailProperties
    <3> HIDE DEF c
    <3>4. Nested(<<c>> \o Tail(t))
      BY <3>1, <3>3, Zenon
    <3>5. Fits(c, Tail(t))
      BY <3>3, <3>4, NestedPush
    <3>6. c.todo \cap ReadingOf(Tail(t)) = {}
      BY <3>2, <3>5 DEF Fits, Waits
    <3>7. ~IsReading(Top) /\ ~IsReading(c)
      BY <2>1, <3>2 DEF IsReading
    <3>8. ReadingOf(<<Top>> \o t) = ReadingOf(t)
      BY <3>1, <3>7, QuietPush
    <3>9. ReadingOf(<<c>> \o Tail(t)) = ReadingOf(Tail(t))
      BY <3>3, <3>7, QuietPush
    <3>10. ReadingOf(stack) = ReadingOf(Tail(t))
      BY <3>1, <3>3, <3>8, <3>9, Zenon
    <3>11. Top.id \in ReadingOf(stack)
      BY <2>1, ReadingIsReadingOf DEF Guards, LoadingIsStack
    <3> QED BY <3>2, <3>6, <3>10, <3>11
  <2> QED BY <1>3, <1>8, <2>1, <2>2 DEF CyclicDependency, Return
<1>9. CASE StartRead
  <2> DEFINE f == [Top EXCEPT !.pc = "read", !.oldPos = stream]
  <2>1. /\ Top.pc = "enter" /\ stack' = <<f>> \o Tail(stack)
        /\ UNCHANGED <<index, instancesLoaded, obj, deferredInverseInstances>>
    BY <1>9 DEF StartRead, Begin, CacheMiss, Entered, At, Become
  <2>2. f \in LoadFrame /\ f.pc = "read" /\ f.id = Top.id /\ f.todo = Top.todo
    BY <1>1 DEF LoadFrame, TypeOK
  <2> HIDE DEF f
  <2> QED BY <1>1, <1>2, <2>1, <2>2, LoadGoesOn
<1>10. CASE ReadReference
  <2> DEFINE f == [Top EXCEPT !.pc = "await", !.next = @ + 1,
                              !.misread = @ \/ ~InPlace]
             g == loadInstance(index.fwd[stream.rec][stream.k + 1], TRUE, FALSE)
  <2>1. /\ Top.pc = "read" /\ stack' = <<g, f>> \o Tail(stack)
        /\ UNCHANGED <<index, instancesLoaded, obj, deferredInverseInstances>>
    BY <1>10 DEF ReadReference, Unread, At, Call
  <2>2. f \in LoadFrame
    <3>1. (Top.misread \/ ~InPlace) \in BOOLEAN
      BY Zenon
    <3> QED BY <1>1, <3>1, ReadingFrame, Zenon
  <2>3. f.id = Top.id /\ f.pc = "await" /\ f.todo = Top.todo
    BY <1>1, Zenon DEF LoadFrame
  <2>4. g \in LoadFrame /\ g.pc = "enter" /\ g.todo = {}
    <3>1. index.fwd[stream.rec][stream.k + 1] \in Ids
      BY <1>10, IndexType DEF ReadReference, TypeOK, Position, Null
    <3> QED BY <3>1, NewFrames DEF loadInstance
  <2> HIDE DEF f, g
  <2> QED BY <1>1, <1>2, <2>1, <2>2, <2>3, <2>4, LoadGoesOn
<1>11. CASE ReadGarbage
  <2> DEFINE f == [Top EXCEPT !.next = @ + 1, !.misread = TRUE]
  <2>1. /\ Top.pc = "read" /\ stack' = <<f>> \o Tail(stack)
        /\ UNCHANGED <<index, instancesLoaded, obj, deferredInverseInstances>>
    BY <1>11 DEF ReadGarbage, Unread, At, Become
  <2>2. f \in LoadFrame
    BY <1>1, ReadingFrame, Zenon
  <2>3. f.id = Top.id /\ f.pc = Top.pc /\ f.todo = Top.todo
    BY <1>1, Zenon DEF LoadFrame
  <2> HIDE DEF f
  <2> QED BY <1>1, <1>2, <2>1, <2>2, <2>3, LoadGoesOn
<1>12. CASE GotReference
  <2> DEFINE f == [Top EXCEPT !.pc = "read",
                              !.got = IF ret = Null THEN @ ELSE @ \cup {ret}]
  <2>1. /\ Top.pc = "await" /\ stack' = <<f>> \o Tail(stack)
        /\ UNCHANGED <<index, instancesLoaded, obj, deferredInverseInstances>>
    BY <1>12 DEF GotReference, At, Become
  <2>2. f \in LoadFrame /\ f.id = Top.id /\ f.pc = "read" /\ f.todo = Top.todo
    BY <1>1 DEF LoadFrame, TypeOK
  <2> HIDE DEF f
  <2> QED BY <1>1, <1>2, <2>1, <2>2, LoadGoesOn
<1> QED BY <1>4, <1>5, <1>6, <1>7, <1>8, <1>9, <1>10, <1>11, <1>12, InsertOwes, ResolveOwes
        DEF LoadStep

(* lazyRefs goes on. *)
LEMMA RefsGoOn ==
    ASSUME InverseInv, stack # <<>>, Top \in RefsFrame, UNCHANGED <<index, instancesLoaded, obj>>,
           deferredInverseInstances \subseteq deferredInverseInstances',
           NEW f \in RefsFrame, f.pc # "await", stack' = <<f>> \o Tail(stack),
           Waits(f) => f.todo \cap ReadingOf(Tail(stack)) = {},
           \A i \in Ids : \A a \in SUBSET Ids : \A r \in Ids :
               Due(i, a, r) /\ Owes(Top, i, a, r) =>
                   i \in deferredInverseInstances' \/ Owes(f, i, a, r)
    PROVE  InverseInv'
<1>1. Fits(Top, Tail(stack)) /\ Top.op = "lazyRefs"
  BY TopFits DEF InverseInv, RefsFrame
<1>2. f \in KeptFrames' /\ Fits(f, Tail(stack)) /\ f.op = "lazyRefs"
  BY <1>1 DEF KeptFrames, Frame, RefsFrame, Fits, Serves
<1>3. /\ Calls' /\ stack' # <<>> /\ Head(stack') = f /\ Tail(stack') = Tail(stack)
      /\ \A i, a, r : Owed(stack', i, a, r) <=> Owes(f, i, a, r) \/ Owed(Tail(stack), i, a, r)
  BY <1>2, CallsReplaced DEF InverseInv
<1>4. DuesCovered'
  BY <1>3, CoverKept DEF InverseInv
<1>5. Answered' /\ NothingDeferred'
  BY <1>2, <1>3 DEF Answered, NothingDeferred, At, Top
<1> QED BY <1>3, <1>4, <1>5 DEF InverseInv

(* lazyRefs returns when it owes nothing more. *)
LEMMA RefsReturn ==
    ASSUME InverseInv, stack # <<>>, Top.op = "lazyRefs", stack' = Tail(stack),
           UNCHANGED <<index, instancesLoaded, obj, deferredInverseInstances>>,
           \A i \in Ids : \A a \in SUBSET Ids : \A r \in Ids :
               ~(Due(i, a, r) /\ Owes(Top, i, a, r))
    PROVE  InverseInv'
<1>1. Calls' /\ \A i, a, r : Owed(stack', i, a, r) <=> Owed(Tail(stack), i, a, r)
  BY CallsReturned DEF InverseInv
<1>2. Tail(stack) # <<>> /\ Head(Tail(stack)).op = "load" /\ Head(Tail(stack)).pc = "resolve"
  BY TopFits DEF InverseInv, Fits, Serves
<1>3. DuesCovered'
  BY <1>1, CoverKept DEF InverseInv
<1>4. Answered' /\ NothingDeferred'
  BY <1>2 DEF Answered, NothingDeferred, At, Top
<1> QED BY <1>1, <1>3, <1>4 DEF InverseInv

(* A referrer was loaded and is entered if it does refer to the instance.  *)
LEMMA ReferentEntered ==
    ASSUME TypeOK, InverseInv, GotReferent PROVE InverseInv'
<1>1. /\ stack # <<>> /\ Top \in RefsFrame /\ Top.op = "lazyRefs" /\ Top.pc = "await"
      /\ Tail(stack) \in Seq(Frame) /\ Top.id \in Ids /\ Top.todo \subseteq Ids
      /\ Fits(Top, Tail(stack)) /\ Waits(Top)
  <2>1. At("lazyRefs", "await")
    BY DEF GotReferent
  <2>2. /\ stack # <<>> /\ Top \in RefsFrame /\ Tail(stack) \in Seq(Frame)
    BY <2>1, RefsTop
  <2> QED BY <2>1, <2>2, TopFits DEF InverseInv, At, RefsFrame, Waits
<1>2. PICK r \in Top.todo :
         /\ First(Top.todo, r)
         /\ obj' = IF ret = r /\ r \in Top.attr /\ Top.id \in obj[r].refs
                   THEN Enter(r) ELSE obj
         /\ stack' = <<[Top EXCEPT !.pc = "load", !.todo = @ \ {r}]>> \o Tail(stack)
  BY DEF GotReferent, Become
<1>3. UNCHANGED <<index, instancesLoaded, deferredInverseInstances>>
  BY DEF GotReferent, loading
<1> DEFINE f == [Top EXCEPT !.pc = "load", !.todo = @ \ {r}]
<1>4. /\ f \in RefsFrame /\ f.op = "lazyRefs" /\ f.pc = "load" /\ f.id = Top.id
      /\ f.todo = Top.todo \ {r} /\ f.attrs = Top.attrs /\ f.attr = Top.attr
  BY <1>1 DEF RefsFrame
<1>5. stack' = <<f>> \o Tail(stack)
  BY <1>2
<1> HIDE DEF f
<1>6. f \in KeptFrames' /\ Fits(f, Tail(stack))
  BY <1>1, <1>4 DEF KeptFrames, Frame, Fits, Serves, Waits
<1>7. /\ Calls' /\ stack' # <<>> /\ Head(stack') = f /\ Tail(stack') = Tail(stack)
      /\ \A i, a, s : Owed(stack', i, a, s) <=> Owes(f, i, a, s) \/ Owed(Tail(stack), i, a, s)
  BY <1>1, <1>3, <1>5, <1>6, CallsReplaced DEF InverseInv
<1>8. Answered' /\ NothingDeferred'
  BY <1>4, <1>7 DEF Answered, NothingDeferred, At, Top
<1>9. \A j \in Ids : \A b \in SUBSET Ids :
         /\ obj'[j].refs = obj[j].refs
         /\ obj[j].inverse[b] # {} => obj'[j].inverse[b] # {}
         /\ j = Top.id /\ b = Top.attr /\ ret = r /\ r \in Top.attr /\ Top.id \in obj[r].refs
               => obj'[j].inverse[b] # {}
  <2>1. /\ obj \in [Ids -> Object] /\ r \in Ids /\ Top.attr \in SUBSET Ids
    BY <1>1, <1>2 DEF TypeOK, RefsFrame
  <2>2. CASE obj' = obj /\ ~(ret = r /\ r \in Top.attr /\ Top.id \in obj[r].refs)
    BY <2>2
  <2>3. CASE obj' = Enter(r)
    <3> DEFINE e == Enter(r)
    <3>1. /\ \A j \in Ids : e[j].refs = obj[j].refs
          /\ \A j \in Ids : \A b \in SUBSET Ids :
                j = Top.id /\ b = Top.attr => r \in e[j].inverse[b]
          /\ \A j \in Ids : \A b \in SUBSET Ids :
                ~(j = Top.id /\ b = Top.attr) => e[j].inverse[b] = obj[j].inverse[b]
      BY <1>1, <2>1, EnterType
    <3>2. obj' = e
      BY <2>3
    <3> HIDE DEF e
    <3> QED BY <3>1, <3>2
  <2> QED BY <1>2, <2>2, <2>3
<1>10. DuesCovered'
  <2> SUFFICES ASSUME NEW i \in Ids, NEW a \in SUBSET Ids, NEW s \in Ids, Due(i, a, s)'
               PROVE  Related(i, a, s)' \/ i \in deferredInverseInstances' \/ Owed(stack', i, a, s)
    BY DEF DuesCovered
  <2>1. Due(i, a, s)
    BY <1>3 DEF Due, Referrers, Fwd, Loadable
  <2>2. Related(i, a, s) \/ i \in deferredInverseInstances \/ Owed(stack, i, a, s)
    BY <2>1 DEF DuesCovered, InverseInv
  <2>3. Related(i, a, s) => Related(i, a, s)'
    BY <1>3, <1>9 DEF Related
  <2>4. Owed(stack, i, a, s) => Owes(Top, i, a, s) \/ Owed(Tail(stack), i, a, s)
    BY <1>1, TopFits DEF InverseInv
  <2>5. ASSUME Owes(Top, i, a, s), ~Owes(f, i, a, s) PROVE Related(i, a, s)'
    <3>1. i = Top.id /\ a = Top.attr /\ s = r
      BY <1>1, <1>4, <2>5 DEF Owes, Waits
    <3>2. ret = r /\ r \in instancesLoaded
      BY <1>1, <1>2, <2>1, <3>1 DEF InverseInv, Answered, At, Due
    <3>3. r \in Top.attr
      BY <2>1, <3>1 DEF Due
    <3> QED BY <1>3, <1>9, <3>1, <3>2, <3>3 DEF Related
  <2> QED BY <1>3, <1>7, <2>2, <2>3, <2>4, <2>5
<1> QED BY <1>7, <1>8, <1>10 DEF InverseInv

LEMMA RefsStepOwes ==
    ASSUME ReferrersTyped, TypeOK, Guards, InverseInv, RefsStep PROVE InverseInv'
<1> USE DEF cache, loading, calls
<1>1. /\ stack # <<>> /\ Top \in RefsFrame /\ Tail(stack) \in Seq(Frame)
      /\ Top.op = "lazyRefs" /\ Top.id \in Ids
  <2>1. \E pc : At("lazyRefs", pc)
    BY DEF RefsStep, NoInverses, HasInverses, MapRefsToTypes, NullType, CheckAnInvAttr,
       RefsDone, LoadReferent, GotReferent, AttrDone
  <2> QED BY <2>1, RefsTop DEF RefsFrame
<1>2. CASE NoInverses
  <2>1. \A i, a, r : ~(Due(i, a, r) /\ Owes(Top, i, a, r))
    BY <1>1, <1>2 DEF NoInverses, At, Owes, Due
  <2> QED BY <1>1, <1>2, <2>1, RefsReturn DEF NoInverses, Return
<1>3. CASE RefsDone
  <2>1. \A i, a, r : ~Owes(Top, i, a, r)
    BY <1>1, <1>3 DEF RefsDone, At, Owes, Waits
  <2> QED BY <1>1, <1>3, <2>1, RefsReturn DEF RefsDone, Return
<1>4. CASE MapRefsToTypes
  <2> DEFINE f == [Top EXCEPT !.pc = "attrs", !.attrs = index.inverseAttrs[Top.id]]
  <2>1. /\ f \in RefsFrame /\ f.op = "lazyRefs" /\ f.pc = "attrs" /\ f.id = Top.id
        /\ f.attrs = index.inverseAttrs[Top.id]
    BY <1>1, IndexType DEF RefsFrame, TypeOK
  <2>2. stack' = <<f>> \o Tail(stack)
    BY <1>4 DEF MapRefsToTypes, Become
  <2> HIDE DEF f
  <2>3. \A i, a, r : Due(i, a, r) /\ Owes(Top, i, a, r) => Owes(f, i, a, r)
    BY <1>1, <2>1 DEF Owes, Due
  <2>4. ~Waits(f) /\ f.pc # "await"
    BY <2>1 DEF Waits
  <2> QED BY <1>1, <1>4, <2>1, <2>2, <2>3, <2>4, RefsGoOn DEF MapRefsToTypes
<1>5. ASSUME NullType PROVE FALSE
  <2>1. PICK r \in Referrers(Top.id) : ~Typed(r)
    BY <1>5 DEF NullType
  <2>2. r \in Ids /\ Fwd(r) # {}
    BY <2>1 DEF Referrers
  <2>3. index.fwd[r] # <<>>
    BY <2>2 DEF Fwd
  <2> QED BY <2>1, <2>2, <2>3 DEF ReferrersTyped, Typed, TypeOK
<1>6. CASE CheckAnInvAttr
  <2>1. PICK a \in Top.attrs :
         LET referents == Top.referents \cup (a \cap Referrers(Top.id))
             f == [Top EXCEPT !.attrs = @ \ {a}, !.referents = referents]
         IN  IF referents \cap instancesLoading # {}
             THEN /\ deferredInverseInstances' = deferredInverseInstances \cup {Top.id}
                  /\ Become(f)
             ELSE /\ UNCHANGED deferredInverseInstances
                  /\ Become([f EXCEPT !.pc = "load", !.attr = a, !.todo = referents,
                                      !.null = a \notin obj[Top.id].aggregates])
    BY <1>6 DEF CheckAnInvAttr
  <2> DEFINE referents == Top.referents \cup (a \cap Referrers(Top.id))
             f == [Top EXCEPT !.attrs = @ \ {a}, !.referents = referents]
             null == a \notin obj[Top.id].aggregates
             g == [f EXCEPT !.pc = "load", !.attr = a, !.todo = referents, !.null = null]
  <2>2. /\ referents \in SUBSET Ids /\ a \in SUBSET Ids
        /\ a \cap Referrers(Top.id) \subseteq referents
    BY <1>1 DEF RefsFrame, Referrers
  <2>3. Top.pc = "attrs"
    BY <1>6 DEF CheckAnInvAttr, At
  <2>4. IF referents \cap instancesLoading # {}
        THEN /\ deferredInverseInstances' = deferredInverseInstances \cup {Top.id}
             /\ stack' = <<f>> \o Tail(stack)
        ELSE /\ UNCHANGED deferredInverseInstances /\ stack' = <<g>> \o Tail(stack)
    BY <2>1 DEF Become
  <2> null \in BOOLEAN
    BY Zenon
  <2> HIDE DEF referents, null
  <2>5. /\ f \in RefsFrame /\ f.op = "lazyRefs" /\ f.pc = "attrs" /\ f.id = Top.id
        /\ f.attrs = Top.attrs \ {a}
    BY <1>1, <2>2, <2>3 DEF RefsFrame
  <2> HIDE DEF f
  <2>6. /\ g \in RefsFrame /\ g.op = "lazyRefs" /\ g.pc = "load" /\ g.id = Top.id
        /\ g.attrs = Top.attrs \ {a} /\ g.attr = a /\ g.todo = referents
    BY <2>2, <2>5 DEF RefsFrame
  <2> HIDE DEF g
  <2>7. \A i, b, r : Owes(Top, i, b, r) => i = Top.id /\ b \in Top.attrs
    BY <1>1, <2>3 DEF Owes, Waits
  <2>8. UNCHANGED <<index, instancesLoaded, obj>>
    BY <1>6 DEF CheckAnInvAttr
  <2>9. CASE referents \cap instancesLoading # {}
    <3>1. ~Waits(f) /\ f.pc # "await"
      BY <2>5 DEF Waits
    <3> QED BY <1>1, <2>4, <2>5, <2>7, <2>8, <2>9, <3>1, RefsGoOn
  <2>10. CASE referents \cap instancesLoading = {}
    <3>1. \A i, b, r : Due(i, b, r) /\ Owes(Top, i, b, r) => Owes(g, i, b, r)
      <4> SUFFICES ASSUME NEW i, NEW b, NEW r, Due(i, b, r), Owes(Top, i, b, r)
                   PROVE  Owes(g, i, b, r)
        OBVIOUS
      <4>1. i = Top.id /\ b \in Top.attrs
        BY <2>7
      <4>2. b = a => r \in referents
        BY <2>2, <4>1 DEF Due
      <4> QED BY <2>6, <4>1, <4>2 DEF Owes, Waits
    <3>2. ReadingOf(Tail(stack)) = instancesLoading
      <4>1. ~IsReading(Top)
        BY <1>1 DEF IsReading
      <4>2. ReadingOf(<<Top>> \o Tail(stack)) = ReadingOf(Tail(stack))
        BY <1>1, <4>1, TopFits, QuietPush DEF InverseInv
      <4>3. stack = <<Top>> \o Tail(stack)
        BY <1>1, TopFits DEF InverseInv
      <4> QED BY <4>2, <4>3, ReadingIsReadingOf DEF Guards, LoadingIsStack
    <3>3. g.todo \cap ReadingOf(Tail(stack)) = {}
      BY <2>6, <2>10, <3>2
    <3> QED BY <1>1, <2>4, <2>6, <2>8, <2>10, <3>1, <3>3, RefsGoOn
  <2> QED BY <2>9, <2>10
<1>7. CASE LoadReferent
  <2>1. PICK r \in Top.todo :
          First(Top.todo, r) /\ Call([Top EXCEPT !.pc = "await"], loadInstance(r, FALSE, TRUE))
    BY <1>7 DEF LoadReferent
  <2> DEFINE f == [Top EXCEPT !.pc = "await"]
             g == loadInstance(r, FALSE, TRUE)
  <2>2. /\ f \in RefsFrame /\ f.op = "lazyRefs" /\ f.pc = "await" /\ f.id = Top.id
        /\ f.todo = Top.todo /\ f.attr = Top.attr /\ f.attrs = Top.attrs
    BY <1>1 DEF RefsFrame
  <2>3. g \in LoadFrame /\ g.op = "load" /\ g.pc = "enter" /\ g.todo = {} /\ g.id = r
    BY <1>1, NewFrames DEF RefsFrame, loadInstance
  <2>4. /\ stack' = <<g, f>> \o Tail(stack) /\ Top.pc = "load"
        /\ UNCHANGED <<index, instancesLoaded, obj, deferredInverseInstances>>
    BY <1>7, <2>1 DEF Call, LoadReferent, At
  <2> HIDE DEF f, g
  <2>5. Fits(Top, Tail(stack)) /\ Waits(Top)
    BY <1>1, <2>4, TopFits DEF InverseInv, Waits
  <2>6. f \in KeptFrames' /\ Fits(f, Tail(stack))
    BY <1>1, <2>2, <2>5 DEF KeptFrames, Frame, Fits, Serves, Waits
  <2>7. g \in KeptFrames' /\ ~Waits(g) /\ Serves(g, f)
    BY <2>1, <2>2, <2>3 DEF KeptFrames, Frame, Waits, Serves
  <2>8. /\ Calls' /\ stack' # <<>> /\ Head(stack') = g /\ Tail(stack') # <<>>
        /\ \A i, a, s : Owed(stack', i, a, s) <=>
                           Owes(g, i, a, s) \/ Owes(f, i, a, s) \/ Owed(Tail(stack), i, a, s)
    BY <1>1, <2>4, <2>6, <2>7, CallsPushed DEF InverseInv
  <2>9. \A i, a, s : Owes(Top, i, a, s) => Owes(f, i, a, s)
    BY <1>1, <2>2, <2>4 DEF Owes, Waits
  <2>10. DuesCovered'
    BY <1>1, <2>4, <2>8, <2>9, CoverKept DEF InverseInv
  <2>11. Answered' /\ NothingDeferred'
    BY <2>3, <2>8 DEF Answered, NothingDeferred, At, Top
  <2> QED BY <2>8, <2>10, <2>11 DEF InverseInv
<1>8. CASE AttrDone
  <2> DEFINE f == [Top EXCEPT !.pc = "attrs"]
  <2>1. /\ f \in RefsFrame /\ f.op = "lazyRefs" /\ f.pc = "attrs" /\ f.id = Top.id
        /\ f.attrs = Top.attrs
    BY <1>1 DEF RefsFrame
  <2>2. /\ stack' = <<f>> \o Tail(stack) /\ Top.pc = "load" /\ Top.todo = {}
        /\ UNCHANGED <<index, instancesLoaded, obj, deferredInverseInstances>>
    BY <1>8 DEF AttrDone, Become, At
  <2> HIDE DEF f
  <2>3. \A i, a, r : Owes(Top, i, a, r) => Owes(f, i, a, r)
    BY <1>1, <2>1, <2>2 DEF Owes
  <2>4. ~Waits(f) /\ f.pc # "await"
    BY <2>1 DEF Waits
  <2> QED BY <1>1, <2>1, <2>2, <2>3, <2>4, RefsGoOn
<1> QED BY <1>2, <1>3, <1>4, <1>5, <1>6, <1>7, <1>8, ReferentEntered DEF RefsStep

(* Such a client makes no batch. *)
LEMMA NoBatches ==
    ASSUME LoadsOnly, Loads, [Next]_vars PROVE Loads'
<1> USE DEF batches
<1>1. ASSUME UNCHANGED batches PROVE Loads'
  BY <1>1 DEF Loads
<1>2. ASSUME BatchStep PROVE FALSE
  BY <1>2 DEF BatchStep, ExpandClosure, ClosureCancelled, ClosureDone, Pin, PinCancelled,
     PinDone, MaterializeNext, MaterializeCancelled, LoadBatchDone, Building, Loads, NoBuild
<1>3. CASE LoadStep \/ RefsStep
  BY <1>1, <1>3, CallsKeepBatches
<1>4. CASE Client
  BY <1>1, <1>4 DEF Client, LoadInstance, LoadBatch, ReleaseBatch, MoveBatch, LoadsOnly, Loads
<1>5. CASE UNCHANGED vars
  BY <1>1, <1>5 DEF vars
<1> QED BY <1>2, <1>3, <1>4, <1>5 DEF Next, Running

LEMMA ClientOwes ==
    ASSUME LoadsOnly, Loads, InverseInv, Client PROVE InverseInv'
<1> USE DEF cache, loading, batches
<1>1. PICK n \in Ids : /\ Idle /\ stack' = <<loadInstance(n, FALSE, TRUE)>>
                       /\ UNCHANGED <<index, instancesLoaded, obj, deferredInverseInstances>>
  BY DEF Client, LoadInstance, LoadBatch, ReleaseBatch, MoveBatch, LoadsOnly, Loads
<1> DEFINE g == loadInstance(n, FALSE, TRUE)
<1>2. g \in LoadFrame /\ g.op = "load" /\ g.pc = "enter" /\ g.todo = {}
  BY NewFrames DEF loadInstance
<1>3. stack' = <<g>> \o <<>> /\ stack = <<>>
  BY <1>1 DEF Idle
<1> HIDE DEF g
<1>4. g \in KeptFrames' /\ Fits(g, <<>>)
  BY <1>2 DEF KeptFrames, Frame, Fits, Waits
<1>5. /\ <<g>> \o <<>> \in Seq(KeptFrames') /\ <<g>> \o <<>> # <<>>
      /\ Head(<<g>> \o <<>>) = g /\ Tail(<<g>> \o <<>>) = <<>>
  BY <1>4, PushOne
<1>6. Nested(<<g>> \o <<>>)
  <2>1. Nested(<<>>)
    BY DEF Nested
  <2>2. <<>> \in Seq({g})
    OBVIOUS
  <2> QED BY <1>4, <2>1, <2>2, NestedPush
<1>7. Calls'
  BY <1>3, <1>5, <1>6, Zenon DEF Calls
<1>8. deferredInverseInstances' = {}
  BY <1>1, <1>3 DEF InverseInv, NothingDeferred
<1>9. Answered' /\ NothingDeferred'
  <2>1. Head(stack') = g
    BY <1>3, <1>5, Zenon
  <2> QED BY <1>2, <1>8, <2>1 DEF Answered, NothingDeferred, At, Top
<1>10. DuesCovered'
  <2> SUFFICES ASSUME NEW i \in Ids, NEW a \in SUBSET Ids, NEW r \in Ids, Due(i, a, r)'
               PROVE  Related(i, a, r)'
    BY DEF DuesCovered
  <2>1. Due(i, a, r)
    BY <1>1 DEF Due, Referrers, Fwd, Loadable
  <2>2. ~Owed(stack, i, a, r)
    BY <1>3 DEF Owed
  <2>3. Related(i, a, r)
    BY <1>1, <1>8, <2>1, <2>2 DEF InverseInv, DuesCovered
  <2> QED BY <1>1, <2>3 DEF Related
<1> QED BY <1>7, <1>9, <1>10 DEF InverseInv

LEMMA NextOwes ==
    ASSUME LoadsOnly, ReferrersTyped, TypeOK, Guards, Loads, InverseInv, [Next]_vars
    PROVE  InverseInv'
<1>1. CASE UNCHANGED vars
  <2>1. UNCHANGED <<stack, ret, index, instancesLoaded, obj, deferredInverseInstances>>
    BY <1>1 DEF vars, cache, loading, calls
  <2>2. \A i, a, r : Related(i, a, r)' <=> Related(i, a, r)
    BY <2>1 DEF Related
  <2>3. \A i, a, r : Due(i, a, r)' <=> Due(i, a, r)
    BY <2>1 DEF Due, Referrers, Fwd, Loadable
  <2>4. Calls' /\ Answered' /\ NothingDeferred'
    BY <2>1 DEF InverseInv, Calls, KeptFrames, Answered, NothingDeferred, At, Top, Loadable
  <2>5. DuesCovered'
    BY <2>1, <2>2, <2>3 DEF InverseInv, DuesCovered
  <2> QED BY <2>4, <2>5 DEF InverseInv
<1>2. ASSUME BatchStep PROVE FALSE
  BY <1>2 DEF BatchStep, ExpandClosure, ClosureCancelled, ClosureDone, Pin, PinCancelled,
     PinDone, MaterializeNext, MaterializeCancelled, LoadBatchDone, Building, Loads, NoBuild
<1>3. batchLoadDepth = 0
  BY DEF Loads
<1> QED BY <1>1, <1>2, <1>3, LoadStepOwes, RefsStepOwes, ClientOwes DEF Next, Running

(* What has been entered in an inverse attribute refers to the instance.   *)
Genuine ==
    \A i \in Ids :
        /\ obj[i].refs # {} => i \in instancesLoaded
        /\ \A a \in SUBSET Ids : obj[i].inverse[a] \subseteq {r \in a : i \in obj[r].refs}

LEMMA InsertGenuine ==
    ASSUME TypeOK, Guards, Genuine, InsertPermanent PROVE Genuine'
<1>1. /\ stack # <<>> /\ Top.op = "load" /\ Top.pc = "read"
      /\ instancesLoaded' = instancesLoaded \cup {Top.id}
      /\ \E m : obj' = [obj EXCEPT ![Top.id] =
                           [NoObject EXCEPT !.refs = Top.got, !.misread = m]]
  BY DEF InsertPermanent, Insert, EndRead, AllRead, At
<1>2. /\ Top.id \in Ids /\ Top.id \notin instancesLoaded
  BY <1>1, ReadingIsFresh
<1>3. obj[Top.id].refs = {}
  BY <1>2 DEF Genuine
<1>4. /\ \A i \in Ids \ {Top.id} : obj'[i] = obj[i]
      /\ \A a \in SUBSET Ids : obj'[Top.id].inverse[a] = {}
  <2>1. PICK m : obj' = [obj EXCEPT ![Top.id] =
                            [NoObject EXCEPT !.refs = Top.got, !.misread = m]]
    BY <1>1
  <2>2. [NoObject EXCEPT !.refs = Top.got, !.misread = m].inverse
        = [a \in SUBSET Ids |-> {}]
    BY DEF NoObject
  <2> QED BY <1>2, <2>1, <2>2 DEF TypeOK
<1> SUFFICES ASSUME NEW i \in Ids
             PROVE  /\ obj'[i].refs # {} => i \in instancesLoaded'
                    /\ \A a \in SUBSET Ids :
                           obj'[i].inverse[a] \subseteq {r \in a : i \in obj'[r].refs}
  BY DEF Genuine
<1>5. CASE i = Top.id
  BY <1>1, <1>4, <1>5
<1>6. CASE i # Top.id
  <2>1. obj'[i].refs # {} => i \in instancesLoaded'
    BY <1>1, <1>4, <1>6 DEF Genuine
  <2>2. ASSUME NEW a \in SUBSET Ids, NEW r \in obj'[i].inverse[a]
        PROVE  r \in a /\ i \in obj'[r].refs
    <3>1. r \in a /\ i \in obj[r].refs
      BY <1>4, <1>6, <2>2 DEF Genuine
    <3>2. r \in Ids \ {Top.id}
      BY <1>3, <3>1
    <3> QED BY <1>4, <3>1, <3>2
  <2> QED BY <2>1, <2>2
<1> QED BY <1>5, <1>6

LEMMA EnterGenuine ==
    ASSUME TypeOK, Genuine, GotReferent PROVE Genuine'
<1>1. stack # <<>> /\ Top \in RefsFrame
  BY RefsTop DEF GotReferent
<1>2. PICK r \in Top.todo :
         obj' = IF ret = r /\ r \in Top.attr /\ Top.id \in obj[r].refs
                THEN Enter(r) ELSE obj
  BY DEF GotReferent
<1>3. UNCHANGED instancesLoaded
  BY DEF GotReferent
<1>4. CASE UNCHANGED obj
  BY <1>3, <1>4 DEF Genuine
<1>5. CASE r \in Top.attr /\ Top.id \in obj[r].refs /\ obj' = Enter(r)
  <2>1. /\ obj \in [Ids -> Object] /\ r \in Ids /\ Top.id \in Ids /\ Top.attr \in SUBSET Ids
    BY <1>1 DEF TypeOK, RefsFrame
  <2>2. /\ \A i \in Ids : obj'[i].refs = obj[i].refs
        /\ \A i \in Ids : \A a \in SUBSET Ids :
               \/ obj'[i].inverse[a] = obj[i].inverse[a]
               \/ /\ i = Top.id /\ a = Top.attr
                  /\ obj'[i].inverse[a] \subseteq obj[i].inverse[a] \cup {r}
    <3> DEFINE e == Enter(r)
    <3>1. /\ \A i \in Ids : e[i].refs = obj[i].refs
          /\ \A i \in Ids : \A a \in SUBSET Ids : i = Top.id /\ a = Top.attr =>
                 e[i].inverse[a] \subseteq obj[i].inverse[a] \cup {r}
          /\ \A i \in Ids : \A a \in SUBSET Ids :
                 ~(i = Top.id /\ a = Top.attr) => e[i].inverse[a] = obj[i].inverse[a]
      BY <2>1, EnterType
    <3>2. obj' = e
      BY <1>5
    <3> HIDE DEF e
    <3> QED BY <3>1, <3>2
  <2>3. ASSUME NEW i \in Ids, NEW a \in SUBSET Ids, NEW s \in obj'[i].inverse[a]
        PROVE  s \in a /\ i \in obj'[s].refs
    <3>1. s \in obj[i].inverse[a] \/ (s = r /\ i = Top.id /\ a = Top.attr)
      BY <2>2, <2>3
    <3>2. s \in a /\ i \in obj[s].refs
      BY <1>5, <3>1 DEF Genuine
    <3> QED BY <2>2, <3>2
  <2> QED BY <1>3, <2>2, <2>3 DEF Genuine
<1> QED BY <1>2, <1>4, <1>5

LEMMA NextGenuine ==
    ASSUME LoadsOnly, TypeOK, Guards, Loads, Genuine, [Next]_vars PROVE Genuine'
<1> USE DEF cache
<1>1. ASSUME UNCHANGED <<instancesLoaded, obj>> PROVE Genuine'
  BY <1>1 DEF Genuine
<1>2. CASE LoadStep
  <2>1. ~InsertBatchOwned
    BY DEF InsertBatchOwned, Loads
  <2> QED BY <1>1, <1>2, <2>1, InsertGenuine
          DEF LoadStep, LoadCancelled, CacheHit, IdTooLarge, CyclicDependency, NoPosition,
              UnknownType, StartRead, ReadReference, ReadGarbage, GotReference, DropPartial,
              ResolveNext, ResolveSwap, ResolveDone
<1>3. CASE RefsStep
  BY <1>1, <1>3, EnterGenuine
     DEF RefsStep, NoInverses, MapRefsToTypes, NullType, CheckAnInvAttr, RefsDone,
         LoadReferent, AttrDone
<1>4. ASSUME BatchStep PROVE FALSE
  BY <1>4 DEF BatchStep, ExpandClosure, ClosureCancelled, ClosureDone, Pin, PinCancelled,
     PinDone, MaterializeNext, MaterializeCancelled, LoadBatchDone, Building, Loads, NoBuild
<1>5. CASE Client
  BY <1>1, <1>5 DEF Client, LoadInstance, LoadBatch, ReleaseBatch, MoveBatch, LoadsOnly, Loads
<1>6. CASE UNCHANGED vars
  BY <1>1, <1>6 DEF vars
<1> QED BY <1>2, <1>3, <1>4, <1>5, <1>6 DEF Next, Running

(* For a client that loads instances for good, in files whose referrers    *)
(* have a type: between calls every loadable referrer of a loaded instance *)
(* has been loaded, an inverse attribute some of them belong in is not     *)
(* empty, and it contains nothing else, whatever the reference graph and   *)
(* the order in which instances were found while others were being read    *)
(* (lazyRefs, resolveDeferredInverses, lazyInstMgr.cc:400).  Which of      *)
(* several referrers stay in the attribute is not said: in the code it is  *)
(* the last one entered.                                                   *)
THEOREM InversesAreResolved ==
    ASSUME LoadsOnly, ReferrersTyped PROVE Spec => []InversesResolved
<1>1. Init => Loads /\ InverseInv /\ Genuine
  <2> SUFFICES ASSUME Init PROVE Loads /\ InverseInv /\ Genuine
    OBVIOUS
  <2>1. Loads /\ Answered /\ NothingDeferred
    BY DEF Init, Loads, Answered, NothingDeferred, At
  <2>2. Calls
    BY DEF Init, Calls, Nested
  <2>3. DuesCovered
    BY DEF Init, DuesCovered, Due
  <2>4. Genuine
    BY DEF Init, Genuine, NoObject
  <2> QED BY <2>1, <2>2, <2>3, <2>4 DEF InverseInv
<1>2. TypeOK /\ Guards /\ Loads /\ InverseInv /\ Genuine /\ [Next]_vars
          => (Loads /\ InverseInv /\ Genuine)'
  BY NoBatches, NextOwes, NextGenuine
<1>3. TypeOK /\ InverseInv /\ Genuine => InversesResolved
  <2> SUFFICES ASSUME TypeOK, InverseInv, Genuine, Idle, NEW i \in instancesLoaded,
                      NEW a \in index.inverseAttrs[i]
               PROVE  /\ \A r \in a \cap Referrers(i) : Loadable(r) => Related(i, a, r)
                      /\ obj[i].inverse[a] \subseteq
                             {r \in a \cap instancesLoaded : i \in obj[r].refs}
    BY DEF InversesResolved, Related
  <2>1. i \in Ids /\ a \in SUBSET Ids
    BY IndexType DEF TypeOK
  <2>2. ASSUME NEW r \in a \cap Referrers(i), Loadable(r) PROVE Related(i, a, r)
    <3>1. r \in Ids /\ Due(i, a, r)
      BY <2>1, <2>2 DEF Due
    <3>2. deferredInverseInstances = {} /\ ~Owed(stack, i, a, r)
      BY DEF Idle, InverseInv, NothingDeferred, Owed
    <3> QED BY <2>1, <3>1, <3>2 DEF InverseInv, DuesCovered
  <2>3. ASSUME NEW r \in obj[i].inverse[a]
        PROVE  r \in a /\ r \in instancesLoaded /\ i \in obj[r].refs
    <3>1. r \in a /\ i \in obj[r].refs
      BY <2>1 DEF Genuine
    <3> QED BY <2>1, <3>1 DEF Genuine
  <2> QED BY <2>2, <2>3
<1> QED BY <1>1, <1>2, <1>3, TypeInv, GuardsInv, PTL DEF Spec

-----------------------------------------------------------------------------
(* Batches alone, over files whose references lead one way: parsers go on   *)
(* where they stopped, cached objects are whole, and nothing dangles.  Both *)
(* conditions are those of the run LazyBatch, for every number of           *)
(* instances.  A load for good resolves inverse attributes, which moves     *)
(* the stream of the readers below it and keeps objects whose references a  *)
(* release may delete; a cyclic reference is refused, so that the object    *)
(* misses it, and its diagnostic moves the stream.                          *)
BatchesOnly == "loadInstance" \notin Uses

AcyclicReferences ==
    \A x \in Indexes : \E rank \in [Ids -> Nat] :
        \A i \in Ids : \A k \in 1..Len(x.fwd[i]) : rank[x.fwd[i][k]] < rank[i]

-----------------------------------------------------------------------------
(* The stack of a batch *)

Place(f) == [rec |-> f.id, k |-> f.next]

(* The references of f's record that are already looked up *)
Seen(f) == {index.fwd[f.id][n] :
               n \in 1..(IF f.pc = "await" THEN f.next - 1 ELSE f.next)}

PlainFrames ==
    {f \in LoadFrame :
        /\ f.pc # "resolve" /\ f.reSeek /\ ~f.misread
        /\ f.next <= Len(index.fwd[f.id])
        /\ f.pc = "enter" => f.next = 0
        /\ f.pc # "enter" => Loadable(f.id)
        /\ f.pc = "await" => f.next > 0
        /\ f.got \subseteq Fwd(f.id)
        /\ ~cancelled => \A r \in Seen(f) : Loadable(r) => r \in f.got}

(* f was called for the reference that c has just read. *)
CalledBy(f, c) ==
    /\ c.pc = "await" /\ f.id = index.fwd[c.id][c.next]
    /\ f.pc # "enter" => f.oldPos = Place(c)

Linked(s) == \A k \in 1..(Len(s) - 1) : CalledBy(s[k], s[k + 1])

(* Where the stream stands, and what came back *)
Standing ==
    stack # <<>> =>
        /\ Top.pc # "enter" => stream = Place(Top)
        /\ Top.pc = "enter" /\ Tail(stack) # <<>> => stream = Place(Head(Tail(stack)))
        /\ Top.pc = "await" =>
             LET r == index.fwd[Top.id][Top.next] IN
             ret \in {Null, r} /\ (~cancelled /\ Loadable(r) => ret = r)

PlainCalls ==
    /\ stack # <<>> => build.phase = "load"
    /\ permanentlyLoadedInstances = {}
    /\ stack \in Seq(PlainFrames) /\ Linked(stack) /\ Standing

(* The calls descend along the references. *)
RankOK(rank) == \A i \in Ids : \A k \in 1..Len(index.fwd[i]) :
                   rank[index.fwd[i][k]] < rank[i]
Ordered(rank, s) == \A j, k \in 1..Len(s) : j < k => rank[s[j].id] < rank[s[k].id]
Descending == \A rank \in [Ids -> Nat] : RankOK(rank) => Ordered(rank, stack)

LEMMA LessIsTransitive ==
    ASSUME NEW a \in Nat, NEW b \in Nat, NEW c \in Nat, a < b, b < c PROVE a < c
OBVIOUS

LEMMA LinkedPush ==
    ASSUME NEW S, NEW t \in Seq(S), NEW f \in S
    PROVE  Linked(<<f>> \o t) <=> Linked(t) /\ (t # <<>> => CalledBy(f, Head(t)))
<1> DEFINE u == <<f>> \o t
<1>1. /\ Len(u) = Len(t) + 1 /\ Len(t) \in Nat /\ u[1] = f
      /\ \A k \in 1..Len(t) : u[k + 1] = t[k]
      /\ \A k \in 2..(Len(t) + 1) : u[k] = t[k - 1] /\ k - 1 \in 1..Len(t)
      /\ t # <<>> => Head(t) = t[1] /\ Len(t) > 0
      /\ t = <<>> => Len(t) = 0
  BY OnTop
<1> HIDE DEF u
<1>2. ASSUME Linked(u), NEW k \in 1..(Len(t) - 1) PROVE CalledBy(t[k], t[k + 1])
  <2>1. k + 1 \in 1..(Len(u) - 1) /\ u[k + 1] = t[k] /\ u[k + 1 + 1] = t[k + 1]
    BY <1>1
  <2>2. CalledBy(u[k + 1], u[k + 1 + 1])
    BY <1>2, <2>1, Zenon DEF Linked
  <2> QED BY <2>1, <2>2
<1>3. ASSUME Linked(u), t # <<>> PROVE CalledBy(f, Head(t))
  <2>1. 1 \in 1..(Len(u) - 1) /\ u[1] = f /\ u[1 + 1] = Head(t)
    BY <1>1, <1>3
  <2>2. CalledBy(u[1], u[1 + 1])
    BY <1>3, <2>1, Zenon DEF Linked
  <2> QED BY <2>1, <2>2
<1>4. ASSUME Linked(t), t # <<>> => CalledBy(f, Head(t)), NEW k \in 1..(Len(u) - 1)
      PROVE  CalledBy(u[k], u[k + 1])
  <2>1. CASE k = 1
    <3>1. Len(t) > 0 /\ u[k] = f /\ u[k + 1] = Head(t) /\ t # <<>>
      BY <1>1, <1>4, <2>1
    <3> QED BY <1>4, <3>1
  <2>2. CASE k # 1
    <3>1. k - 1 \in 1..(Len(t) - 1) /\ u[k] = t[k - 1] /\ u[k + 1] = t[(k - 1) + 1]
      BY <1>1, <1>4, <2>2
    <3>2. CalledBy(t[k - 1], t[(k - 1) + 1])
      BY <1>4, <3>1, Zenon DEF Linked
    <3> QED BY <3>1, <3>2
  <2> QED BY <2>1, <2>2
<1> QED BY <1>2, <1>3, <1>4 DEF Linked, u

LEMMA OrderedPush ==
    ASSUME NEW S, NEW t \in Seq(S), NEW f \in S, NEW rank
    PROVE  Ordered(rank, <<f>> \o t) <=>
              /\ Ordered(rank, t)
              /\ \A k \in 1..Len(t) : rank[f.id] < rank[t[k].id]
<1> DEFINE u == <<f>> \o t
<1>1. /\ Len(u) = Len(t) + 1 /\ Len(t) \in Nat /\ u[1] = f
      /\ \A k \in 1..Len(t) : u[k + 1] = t[k]
      /\ \A k \in 2..(Len(t) + 1) : u[k] = t[k - 1] /\ k - 1 \in 1..Len(t)
  BY OnTop
<1> HIDE DEF u
<1>2. ASSUME Ordered(rank, u), NEW j \in 1..Len(t), NEW k \in 1..Len(t), j < k
      PROVE  rank[t[j].id] < rank[t[k].id]
  <2>1. /\ j + 1 \in 1..Len(u) /\ k + 1 \in 1..Len(u) /\ j + 1 < k + 1
        /\ u[j + 1] = t[j] /\ u[k + 1] = t[k]
    BY <1>1, <1>2
  <2> QED BY <1>2, <2>1 DEF Ordered
<1>3. ASSUME Ordered(rank, u), NEW k \in 1..Len(t) PROVE rank[f.id] < rank[t[k].id]
  <2>1. 1 \in 1..Len(u) /\ k + 1 \in 1..Len(u) /\ 1 < k + 1 /\ u[k + 1] = t[k]
    BY <1>1
  <2> QED BY <1>1, <1>3, <2>1 DEF Ordered
<1>4. ASSUME Ordered(rank, t), \A k \in 1..Len(t) : rank[f.id] < rank[t[k].id],
             NEW j \in 1..Len(u), NEW k \in 1..Len(u), j < k
      PROVE  rank[u[j].id] < rank[u[k].id]
  <2>1. u[k] = t[k - 1] /\ k - 1 \in 1..Len(t)
    BY <1>1, <1>4
  <2>2. CASE j = 1
    BY <1>1, <1>4, <2>1, <2>2
  <2>3. CASE j # 1
    <3>1. u[j] = t[j - 1] /\ j - 1 \in 1..Len(t) /\ j - 1 < k - 1
      BY <1>1, <1>4, <2>3
    <3> QED BY <1>4, <2>1, <3>1 DEF Ordered
  <2> QED BY <2>2, <2>3
<1> QED BY <1>2, <1>3, <1>4 DEF Ordered, u

LEMMA PlainFramesGrow ==
    ASSUME UNCHANGED index, cancelled => cancelled'
    PROVE  PlainFrames \subseteq PlainFrames'
BY DEF PlainFrames, Loadable, Fwd, Seen

LEMMA PlainTop ==
    ASSUME TypeOK, PlainCalls, stack # <<>>
    PROVE  /\ Top \in PlainFrames /\ Top \in LoadFrame /\ Tail(stack) \in Seq(PlainFrames)
           /\ stack = <<Top>> \o Tail(stack) /\ Top.id \in Ids
           /\ index.fwd[Top.id] \in Seq(Ids) /\ Len(index.fwd[Top.id]) \in Nat
           /\ Linked(Tail(stack))
           /\ Tail(stack) # <<>> => CalledBy(Top, Head(Tail(stack)))
<1>1. /\ Top \in PlainFrames /\ Tail(stack) \in Seq(PlainFrames)
      /\ stack = <<Top>> \o Tail(stack)
  BY StackSplit DEF PlainCalls
<1>2. Top \in LoadFrame /\ Top.id \in Ids
  BY <1>1 DEF PlainFrames, LoadFrame
<1>3. index.fwd[Top.id] \in Seq(Ids)
  BY <1>2, IndexType DEF TypeOK
<1>4. Linked(Tail(stack)) /\ (Tail(stack) # <<>> => CalledBy(Top, Head(Tail(stack))))
  BY <1>1, LinkedPush DEF PlainCalls
<1> QED BY <1>1, <1>2, <1>3, <1>4

(* A call returns null, or the instance it was asked for. *)
LEMMA PlainReturn ==
    ASSUME TypeOK, PlainCalls, Descending, stack # <<>>, stack' = Tail(stack),
           UNCHANGED <<index, build, permanentlyLoadedInstances>>, cancelled => cancelled',
           ret' \in {Null, Top.id}, ~cancelled' /\ Loadable(Top.id) => ret' = Top.id,
           Tail(stack) # <<>> => stream' = Place(Head(Tail(stack)))
    PROVE  PlainCalls' /\ Descending'
<1> DEFINE t == Tail(stack)
<1>1. /\ Top \in PlainFrames /\ t \in Seq(PlainFrames) /\ stack = <<Top>> \o t
      /\ Linked(t) /\ (t # <<>> => CalledBy(Top, Head(t)))
  BY PlainTop
<1> HIDE DEF t
<1>2. stack' = t
  BY DEF t
<1>3. t \in Seq(PlainFrames')
  BY <1>1, PlainFramesGrow, SeqGrows
<1>5. Standing'
  <2> SUFFICES ASSUME t # <<>>
               PROVE  /\ Head(t).pc # "enter" => stream' = Place(Head(t))
                      /\ Head(t).pc # "enter"
                      /\ LET r == index.fwd[Head(t).id][Head(t).next] IN
                         ret' \in {Null, r} /\ (~cancelled' /\ Loadable(r) => ret' = r)
    BY <1>2 DEF Standing, Top, Place, Loadable
  <2>1. Head(t).pc = "await" /\ Top.id = index.fwd[Head(t).id][Head(t).next]
    BY <1>1 DEF CalledBy
  <2> QED BY <2>1 DEF t
<1>6. Descending'
  <2> SUFFICES ASSUME NEW rank \in [Ids -> Nat], RankOK(rank) PROVE Ordered(rank, t)
    BY <1>2 DEF Descending, RankOK, Ordered
  <2>1. Ordered(rank, stack)
    BY DEF Descending
  <2> QED BY <1>1, <2>1, OrderedPush
<1>7. Linked(stack')
  BY <1>1, <1>2
<1>8. Linked(stack)'
  BY <1>2, <1>7 DEF Linked, CalledBy, Place
<1> QED BY <1>2, <1>3, <1>5, <1>6, <1>8 DEF PlainCalls

(* The call at the top goes on reading. *)
LEMMA PlainGoesOn ==
    ASSUME TypeOK, PlainCalls, Descending, stack # <<>>,
           NEW f \in PlainFrames, stack' = <<f>> \o Tail(stack),
           f.id = Top.id, f.pc = "read", stream' = Place(f),
           Tail(stack) # <<>> => f.oldPos = Place(Head(Tail(stack))),
           UNCHANGED <<index, build, permanentlyLoadedInstances, cancelled>>
    PROVE  PlainCalls' /\ Descending'
<1> DEFINE t == Tail(stack)
<1>1. /\ Top \in PlainFrames /\ t \in Seq(PlainFrames) /\ stack = <<Top>> \o t
      /\ Linked(t) /\ (t # <<>> => CalledBy(Top, Head(t)))
  BY PlainTop
<1> HIDE DEF t
<1>2. /\ stack' = <<f>> \o t /\ stack' \in Seq(PlainFrames) /\ stack' # <<>>
      /\ Head(stack') = f /\ Tail(stack') = t
  <2>1. stack' = <<f>> \o t
    BY DEF t
  <2> QED BY <1>1, <2>1, PushOne
<1>3. stack' \in Seq(PlainFrames')
  BY <1>2, PlainFramesGrow, SeqGrows
<1>4. t # <<>> => CalledBy(f, Head(t))
  BY <1>1 DEF CalledBy, t
<1>5. Linked(stack')
  <2>1. Linked(<<f>> \o t)
    BY <1>1, <1>4, LinkedPush
  <2> QED BY <1>2, <2>1, Zenon
<1>6. Linked(stack)'
  BY <1>5 DEF Linked, CalledBy, Place
<1>7. Standing'
  BY <1>2 DEF Standing, Top, Place
<1>8. Descending'
  <2> SUFFICES ASSUME NEW rank \in [Ids -> Nat], RankOK(rank) PROVE Ordered(rank, stack')
    BY DEF Descending, RankOK, Ordered
  <2>1. Ordered(rank, stack)
    BY DEF Descending
  <2>2. Ordered(rank, t) /\ \A k \in 1..Len(t) : rank[Top.id] < rank[t[k].id]
    BY <1>1, <2>1, OrderedPush
  <2>3. Ordered(rank, <<f>> \o t)
    BY <1>1, <2>2, OrderedPush
  <2> QED BY <1>2, <2>3, Zenon
<1> QED BY <1>2, <1>3, <1>6, <1>7, <1>8 DEF PlainCalls

(* The call at the top calls loadInstance for the reference it has read. *)
LEMMA PlainDescends ==
    ASSUME TypeOK, PlainCalls, Descending, stack # <<>>,
           NEW f \in PlainFrames, NEW g \in PlainFrames,
           stack' = <<g, f>> \o Tail(stack),
           f.id = Top.id, f.pc = "await", stream' = Place(f),
           Tail(stack) # <<>> => f.oldPos = Place(Head(Tail(stack))),
           f.next \in 1..Len(index.fwd[f.id]), g.pc = "enter",
           g.id = index.fwd[f.id][f.next],
           UNCHANGED <<index, build, permanentlyLoadedInstances, cancelled>>
    PROVE  PlainCalls' /\ Descending'
<1> DEFINE t == Tail(stack)
           u == <<f>> \o t
<1>1. /\ Top \in PlainFrames /\ t \in Seq(PlainFrames) /\ stack = <<Top>> \o t
      /\ Linked(t) /\ (t # <<>> => CalledBy(Top, Head(t)))
      /\ Top.id \in Ids /\ index.fwd[Top.id] \in Seq(Ids)
  BY PlainTop
<1> HIDE DEF t
<1>2. u \in Seq(PlainFrames) /\ u # <<>> /\ Head(u) = f /\ Tail(u) = t
  BY <1>1, PushOne
<1>3. stack' = <<g>> \o u
  <2>1. <<g, f>> \o t = <<g>> \o u
    BY <1>1
  <2>2. stack' = <<g, f>> \o t
    BY DEF t
  <2> QED BY <2>1, <2>2, Zenon
<1>4. t # <<>> => CalledBy(f, Head(t))
  BY <1>1 DEF CalledBy, t
<1>5. Linked(u)
  BY <1>1, <1>4, LinkedPush
<1> HIDE DEF u
<1>6. /\ stack' \in Seq(PlainFrames) /\ stack' # <<>>
      /\ Head(stack') = g /\ Tail(stack') = u
  BY <1>2, <1>3, PushOne
<1>7. CalledBy(g, f)
  BY DEF CalledBy
<1>8. Linked(stack')
  <2>1. Linked(<<g>> \o u)
    BY <1>2, <1>5, <1>7, LinkedPush
  <2> QED BY <1>3, <2>1, Zenon
<1>9. Linked(stack)'
  BY <1>8 DEF Linked, CalledBy, Place
<1>10. Standing'
  BY <1>2, <1>6 DEF Standing, Top, Place
<1>11. stack' \in Seq(PlainFrames')
  BY <1>6, PlainFramesGrow, SeqGrows
<1>12. Descending'
  <2> SUFFICES ASSUME NEW rank \in [Ids -> Nat], RankOK(rank) PROVE Ordered(rank, stack')
    BY DEF Descending, RankOK, Ordered
  <2>1. Ordered(rank, stack)
    BY DEF Descending
  <2>2. Ordered(rank, t) /\ \A k \in 1..Len(t) : rank[Top.id] < rank[t[k].id]
    BY <1>1, <2>1, OrderedPush
  <2>3. Ordered(rank, u)
    BY <1>1, <2>2, OrderedPush DEF u
  <2>4. /\ rank[g.id] < rank[f.id] /\ g.id \in Ids
        /\ rank[g.id] \in Nat /\ rank[f.id] \in Nat
    <3>1. f.id \in Ids /\ index.fwd[f.id] \in Seq(Ids)
      BY <1>1
    <3>2. index.fwd[f.id][f.next] \in Ids
      BY <3>1
    <3>3. rank[index.fwd[f.id][f.next]] < rank[f.id]
      BY <3>1 DEF RankOK
    <3> QED BY <3>1, <3>2, <3>3
  <2>5. ASSUME NEW k \in 1..Len(u) PROVE rank[g.id] < rank[u[k].id]
    <3>1. /\ Len(u) = Len(t) + 1 /\ Len(t) \in Nat /\ u[1] = f
          /\ \A j \in 2..(Len(t) + 1) : u[j] = t[j - 1] /\ j - 1 \in 1..Len(t)
      BY <1>1, OnTop DEF u
    <3>2. CASE k = 1
      <4>1. u[k] = f
        BY <3>1, <3>2, Zenon
      <4> QED BY <2>4, <4>1, Zenon
    <3>3. CASE k # 1
      <4>1. u[k] = t[k - 1] /\ k - 1 \in 1..Len(t)
        BY <2>5, <3>1, <3>3
      <4>2. t[k - 1] \in PlainFrames
        BY <1>1, <4>1
      <4>3. rank[t[k - 1].id] \in Nat
        BY <4>2 DEF PlainFrames, LoadFrame
      <4>4. rank[f.id] < rank[t[k - 1].id]
        BY <2>2, <4>1, Zenon
      <4>5. rank[g.id] < rank[t[k - 1].id]
        BY <2>4, <4>3, <4>4, LessIsTransitive, Zenon
      <4> QED BY <4>1, <4>5, Zenon
    <3> QED BY <3>2, <3>3
  <2>6. Ordered(rank, <<g>> \o u)
    BY <1>2, <2>3, <2>5, OrderedPush
  <2> QED BY <1>3, <2>6, Zenon
<1>13. build'.phase = "load"
  BY DEF PlainCalls
<1> QED BY <1>9, <1>10, <1>11, <1>12, <1>13 DEF PlainCalls

LEMMA LoadStepPlain ==
    ASSUME TypeOK, Phase, Guards, PlainCalls, Descending,
           \E rank \in [Ids -> Nat] : RankOK(rank), LoadStep
    PROVE  PlainCalls' /\ Descending'
<1>1. /\ UNCHANGED <<index, build>> /\ stack # <<>> /\ (cancelled => cancelled')
      /\ batchLoadDepth = 1
  <2>1. Next
    BY DEF Next, Running
  <2>2. UNCHANGED index
    BY <2>1, NextFixesIndex
  <2>3. UNCHANGED build /\ stack # <<>> /\ (cancelled => cancelled')
    BY CallsLatch, CallsKeepBatches, LoadShape DEF batches
  <2>4. batchLoadDepth = 1
    BY <2>3 DEF Phase, PlainCalls
  <2> QED BY <2>2, <2>3, <2>4
<1>2. /\ Top \in PlainFrames /\ Top \in LoadFrame /\ Tail(stack) \in Seq(PlainFrames)
      /\ stack = <<Top>> \o Tail(stack) /\ Top.id \in Ids
      /\ index.fwd[Top.id] \in Seq(Ids) /\ Len(index.fwd[Top.id]) \in Nat
      /\ Linked(Tail(stack)) /\ (Tail(stack) # <<>> => CalledBy(Top, Head(Tail(stack))))
  BY <1>1, PlainTop
<1>3. /\ Top.pc # "resolve" /\ Top.reSeek /\ ~Top.misread /\ Top.next \in Nat
      /\ Top.next <= Len(index.fwd[Top.id]) /\ Top.got \subseteq Fwd(Top.id)
      /\ Top.pc = "enter" => Top.next = 0
      /\ Top.pc # "enter" => Loadable(Top.id)
      /\ Top.pc = "await" => Top.next > 0
      /\ ~cancelled => \A r \in Seen(Top) : Loadable(r) => r \in Top.got
  BY <1>2 DEF PlainFrames, LoadFrame
<1>4. /\ Top.pc # "enter" => stream = Place(Top)
      /\ Tail(stack) # <<>> => IF Top.pc = "enter" THEN stream = Place(Head(Tail(stack)))
                                        ELSE Top.oldPos = Place(Head(Tail(stack)))
  BY <1>1, <1>2 DEF PlainCalls, Standing, CalledBy
<1> USE DEF cache, loading, calls, batches
(* A call that is just entered returns at once. *)
<1>5. ASSUME Top.pc = "enter", UNCHANGED <<stream, permanentlyLoadedInstances>>,
             Return(ret'), ret' \in {Null, Top.id},
             ~cancelled' /\ Loadable(Top.id) => ret' = Top.id
      PROVE  PlainCalls' /\ Descending'
  BY <1>1, <1>4, <1>5, PlainReturn DEF Return
<1>6. CASE LoadCancelled
  BY <1>5, <1>6 DEF LoadCancelled, At, Return
<1>7. CASE CacheHit
  BY <1>1, <1>5, <1>7 DEF CacheHit, Entered, At, Return
<1>8. CASE IdTooLarge
  <2>1. Top.id \in Nat /\ IntMax \in Nat
    BY <1>2, IdsAssumption, ClientAssumption
  <2>2. ~Loadable(Top.id)
    BY <1>8, <2>1 DEF IdTooLarge, Loadable
  <2> QED BY <1>5, <1>8, <2>2 DEF IdTooLarge, CacheMiss, Entered, At, Return
<1>9. CASE NoPosition \/ UnknownType
  <2>1. ~Loadable(Top.id)
    BY <1>9 DEF NoPosition, UnknownType, Loadable
  <2>2. UNCHANGED stream
    BY <1>3, <1>9 DEF NoPosition, UnknownType
  <2> QED BY <1>5, <1>9, <2>1, <2>2
          DEF NoPosition, UnknownType, Begin, CacheMiss, Entered, At, Return
(* The instance being read cannot come back: ranks descend. *)
<1>10. ASSUME CyclicDependency PROVE FALSE
  <2>1. Top.pc = "enter" /\ Top.id \in instancesLoading
    BY <1>10 DEF CyclicDependency, CacheMiss, Entered, At
  <2>2. ~IsReading(Top)
    BY <2>1 DEF IsReading
  <2>3. Top.id \in ReadingOf(Tail(stack))
    <3>1. ReadingOf(<<Top>> \o Tail(stack)) = ReadingOf(Tail(stack))
      BY <1>2, <2>2, QuietPush
    <3>2. Top.id \in ReadingOf(stack)
      BY <2>1, ReadingIsReadingOf DEF Guards, LoadingIsStack
    <3> QED BY <1>2, <3>1, <3>2
  <2>4. PICK k \in 1..Len(Tail(stack)) : Tail(stack)[k].id = Top.id
    BY <2>3 DEF ReadingOf
  <2>5. PICK rank \in [Ids -> Nat] : RankOK(rank)
    OBVIOUS
  <2>6. Ordered(rank, stack)
    BY <2>5 DEF Descending
  <2>7. rank[Top.id] < rank[Tail(stack)[k].id]
    BY <1>2, <2>6, OrderedPush
  <2> QED BY <1>2, <2>4, <2>7
<1>11. CASE StartRead
  <2> DEFINE f == [Top EXCEPT !.pc = "read", !.oldPos = stream]
  <2>1. /\ Top.pc = "enter" /\ stream' = Start(Top.id) /\ stack' = <<f>> \o Tail(stack)
        /\ index.entry[Top.id] = "good" /\ Top.id <= IntMax
        /\ UNCHANGED <<cancelled, permanentlyLoadedInstances>>
    BY <1>11 DEF StartRead, Begin, CacheMiss, Entered, At, Become
  <2>2. /\ f \in LoadFrame /\ f.pc = "read" /\ f.id = Top.id /\ f.reSeek = Top.reSeek
        /\ f.oldPos = stream /\ f.next = 0 /\ f.misread = Top.misread /\ f.got = Top.got
    BY <1>2, <1>3, <2>1 DEF LoadFrame, TypeOK
  <2> HIDE DEF f
  <2>3. Seen(f) = {}
    BY <2>2 DEF Seen
  <2>4. f \in PlainFrames
    BY <1>2, <1>3, <2>1, <2>2, <2>3 DEF PlainFrames, Loadable
  <2>5. stream' = Place(f)
    BY <2>1, <2>2 DEF Place, Start
  <2> QED BY <1>1, <1>4, <2>1, <2>2, <2>4, <2>5, PlainGoesOn
<1>12. CASE ReadReference
  <2> DEFINE f == [Top EXCEPT !.pc = "await", !.next = @ + 1,
                              !.misread = @ \/ ~InPlace]
             g == loadInstance(index.fwd[stream.rec][stream.k + 1], TRUE, FALSE)
  <2>1. /\ Top.pc = "read" /\ stack' = <<g, f>> \o Tail(stack)
        /\ stream.k < Len(index.fwd[stream.rec])
        /\ stream' = [stream EXCEPT !.k = @ + 1]
        /\ UNCHANGED <<cancelled, permanentlyLoadedInstances>>
    BY <1>12 DEF ReadReference, Unread, At, Call
  <2>2. stream = [rec |-> Top.id, k |-> Top.next] /\ InPlace
    BY <1>4, <2>1 DEF Place, InPlace
  <2>3. (Top.misread \/ ~InPlace) \in BOOLEAN /\ ~(Top.misread \/ ~InPlace)
    BY <1>3, <2>2, Zenon
  <2>4. f \in LoadFrame
    BY <1>2, <2>3, ReadingFrame, Zenon
  <2>5. /\ f.pc = "await" /\ f.id = Top.id /\ f.reSeek = Top.reSeek
        /\ f.oldPos = Top.oldPos /\ f.next = Top.next + 1 /\ ~f.misread /\ f.got = Top.got
    BY <1>2, <2>3, Zenon DEF LoadFrame
  <2>6. g \in LoadFrame /\ g.pc = "enter" /\ g.id = index.fwd[Top.id][Top.next + 1]
        /\ g.reSeek /\ g.next = 0 /\ g.got = {} /\ ~g.misread /\ g.id \in Ids
    <3>1. Top.next + 1 \in 1..Len(index.fwd[Top.id])
      BY <1>2, <1>3, <2>1, <2>2
    <3>2. index.fwd[Top.id][Top.next + 1] \in Ids
      BY <1>2, <3>1
    <3>3. g = loadInstance(index.fwd[Top.id][Top.next + 1], TRUE, FALSE)
      BY <2>2
    <3>4. g \in LoadFrame
      BY <3>2, <3>3, NewFrames
    <3> QED BY <3>2, <3>3, <3>4 DEF loadInstance
  <2>7. /\ Top.next + 1 \in 1..Len(index.fwd[Top.id])
        /\ stream' = [rec |-> Top.id, k |-> Top.next + 1]
    BY <1>2, <1>3, <2>1, <2>2
  <2> HIDE DEF f, g
  <2>8. Seen(f) = Seen(Top) /\ Seen(g) = {}
    <3>1. f.next - 1 = Top.next
      BY <1>3, <2>5
    <3> QED BY <2>1, <2>5, <2>6, <3>1 DEF Seen
  <2>9. f \in PlainFrames
    <3>1. f.next <= Len(index.fwd[f.id]) /\ f.next > 0
      BY <1>2, <1>3, <2>5, <2>7
    <3>2. Loadable(f.id) /\ f.got \subseteq Fwd(f.id)
      BY <1>3, <2>1, <2>5
    <3> QED BY <1>3, <2>4, <2>5, <2>8, <3>1, <3>2, Zenon DEF PlainFrames
  <2>10. g \in PlainFrames
    <3>1. g.next <= Len(index.fwd[g.id])
      BY <2>6, IndexType DEF TypeOK
    <3>2. g.got \subseteq Fwd(g.id)
      BY <2>6
    <3> QED BY <2>6, <2>8, <3>1, <3>2, Zenon DEF PlainFrames
  <2>11. stream' = Place(f) /\ f.next \in 1..Len(index.fwd[f.id])
         /\ g.id = index.fwd[f.id][f.next]
    BY <2>5, <2>6, <2>7 DEF Place
  <2> QED BY <1>1, <1>4, <2>1, <2>5, <2>6, <2>9, <2>10, <2>11, PlainDescends
<1>13. ASSUME ReadGarbage PROVE FALSE
  BY <1>4, <1>13 DEF ReadGarbage, Unread, At, InPlace, Place
<1>14. CASE GotReference
  <2> DEFINE f == [Top EXCEPT !.pc = "read",
                              !.got = IF ret = Null THEN @ ELSE @ \cup {ret}]
             r == index.fwd[Top.id][Top.next]
  <2>1. /\ Top.pc = "await" /\ stack' = <<f>> \o Tail(stack)
        /\ UNCHANGED <<stream, cancelled, permanentlyLoadedInstances>>
    BY <1>14 DEF GotReference, At, Become
  <2>2. ret \in {Null, r} /\ (~cancelled /\ Loadable(r) => ret = r)
    BY <1>1, <2>1 DEF PlainCalls, Standing
  <2>3. /\ f \in LoadFrame /\ f.pc = "read" /\ f.id = Top.id /\ f.reSeek = Top.reSeek
        /\ f.oldPos = Top.oldPos /\ f.next = Top.next /\ f.misread = Top.misread
        /\ f.got = IF ret = Null THEN Top.got ELSE Top.got \cup {ret}
    BY <1>2, <2>1 DEF LoadFrame, TypeOK
  <2>4. Top.next \in 1..Len(index.fwd[Top.id]) /\ r \in Fwd(Top.id) /\ r # Null
    <3>1. Top.next \in 1..Len(index.fwd[Top.id])
      BY <1>2, <1>3, <2>1
    <3>2. r \in Ids
      BY <1>2, <3>1
    <3> QED BY <3>1, <3>2, IdsAssumption DEF Fwd, Null
  <2> HIDE DEF f, r
  <2>5. ASSUME NEW x \in Seen(f) PROVE x \in Seen(Top) \/ x = r
    <3>1. PICK n \in 1..Top.next : x = index.fwd[Top.id][n]
      BY <2>3 DEF Seen
    <3>2. n = Top.next \/ n \in 1..(Top.next - 1)
      BY <1>3
    <3> QED BY <2>1, <3>1, <3>2 DEF Seen, r
  <2>6. \A x \in Seen(f) : ~cancelled /\ Loadable(x) => x \in f.got
    BY <1>3, <2>2, <2>3, <2>4, <2>5
  <2>7. f \in PlainFrames
    <3>1. f.got \subseteq Fwd(f.id)
      BY <1>3, <2>2, <2>3, <2>4
    <3> QED BY <1>3, <2>1, <2>3, <2>6, <3>1, Zenon DEF PlainFrames
  <2>8. stream' = Place(f)
    BY <1>4, <2>1, <2>3 DEF Place
  <2> QED BY <1>1, <1>4, <2>1, <2>3, <2>7, <2>8, PlainGoesOn
<1>15. CASE DropPartial
  <2>1. /\ Top.pc = "read" /\ stack' = Tail(stack) /\ ret' = Null /\ stream' = Top.oldPos
        /\ cancelled' = TRUE /\ UNCHANGED permanentlyLoadedInstances
    BY <1>3, <1>15 DEF DropPartial, EndRead, AllRead, At, Return
  <2> QED BY <1>1, <1>4, <2>1, PlainReturn
<1>16. CASE InsertBatchOwned
  <2>1. /\ Top.pc = "read" /\ stack' = Tail(stack) /\ ret' = Top.id /\ stream' = Top.oldPos
        /\ UNCHANGED permanentlyLoadedInstances
    BY <1>3, <1>16 DEF InsertBatchOwned, Insert, EndRead, AllRead, At, Return
  <2> QED BY <1>1, <1>4, <2>1, PlainReturn
<1>17. ASSUME InsertPermanent PROVE FALSE
  BY <1>1, <1>17 DEF InsertPermanent
<1>18. ASSUME ResolveNext \/ ResolveSwap \/ ResolveDone PROVE FALSE
  BY <1>3, <1>18 DEF ResolveNext, ResolveSwap, ResolveDone, At
<1> QED BY <1>6, <1>7, <1>8, <1>9, <1>10, <1>11, <1>12, <1>13, <1>14, <1>15, <1>16,
           <1>17, <1>18 DEF LoadStep

LEMMA EmptyPlain ==
    ASSUME stack' = <<>>, permanentlyLoadedInstances' = {} PROVE PlainCalls' /\ Descending'
<1>1. /\ <<>> \in Seq(PlainFrames') /\ Len(<<>>) = 0 /\ 1..0 = {} /\ 1..(0 - 1) = {}
  OBVIOUS
<1>2. Linked(stack)'
  BY <1>1 DEF Linked
<1>3. Descending'
  BY <1>1 DEF Descending, Ordered
<1> QED BY <1>1, <1>2, <1>3 DEF PlainCalls, Standing

LEMMA FirstPlain ==
    ASSUME NEW i \in Ids, stack' = <<loadInstance(i, TRUE, TRUE)>>, index \in Indexes,
           permanentlyLoadedInstances' = {}, build'.phase = "load", UNCHANGED index
    PROVE  PlainCalls' /\ Descending'
<1> DEFINE f == loadInstance(i, TRUE, TRUE)
<1>1. /\ f \in LoadFrame /\ f.pc = "enter" /\ f.id = i /\ f.reSeek /\ ~f.misread
      /\ f.next = 0 /\ f.got = {}
  BY NewFrames DEF loadInstance
<1> HIDE DEF f
<1>2. f \in PlainFrames'
  <2>1. f.next <= Len(index'.fwd[f.id])
    BY <1>1, IndexType
  <2>2. Seen(f)' = {}
    BY <1>1 DEF Seen
  <2> QED BY <1>1, <2>1, <2>2, Zenon DEF PlainFrames
<1>3. /\ stack' = <<f>> /\ <<f>> \in Seq(PlainFrames') /\ Len(<<f>>) = 1
      /\ Head(<<f>>) = f /\ Tail(<<f>>) = <<>> /\ <<f>> # <<>>
      /\ 1..1 = {1} /\ 1..(1 - 1) = {}
  <2>1. stack' = <<f>>
    BY DEF f
  <2>2. <<f>> \in Seq(PlainFrames')
    BY <1>2, OneFrame
  <2>3. /\ Len(<<f>>) = 1 /\ Head(<<f>>) = f /\ Tail(<<f>>) = <<>> /\ <<f>> # <<>>
        /\ 1..1 = {1} /\ 1..(1 - 1) = {}
    OBVIOUS
  <2> QED BY <2>1, <2>2, <2>3
<1>4. Linked(stack)'
  BY <1>3 DEF Linked
<1>5. Descending'
  BY <1>3 DEF Descending, Ordered
<1>6. Standing'
  BY <1>1, <1>3 DEF Standing, Top
<1> QED BY <1>3, <1>4, <1>5, <1>6 DEF PlainCalls

LEMMA NextPlain ==
    ASSUME BatchesOnly, TypeOK, Phase, Guards, PlainCalls, Descending,
           \E rank \in [Ids -> Nat] : RankOK(rank), [Next]_vars
    PROVE  PlainCalls' /\ Descending'
<1> USE DEF cache, loading, calls, batches
<1>0. permanentlyLoadedInstances = {} /\ UNCHANGED index /\ index \in Indexes
  BY NextFixesIndex DEF PlainCalls, TypeOK
<1>1. CASE UNCHANGED vars
  <2>1. UNCHANGED <<stack, ret, stream, index, build, cancelled,
                    permanentlyLoadedInstances>>
    BY <1>1 DEF vars
  <2>2. UNCHANGED <<PlainFrames, Top>>
    BY <2>1 DEF PlainFrames, Seen, Fwd, Loadable, Top
  <2>3. Standing' /\ Linked(stack)' /\ Descending'
    BY <2>1, <2>2 DEF PlainCalls, Standing, Loadable, Place, Linked, CalledBy,
       Descending, RankOK, Ordered
  <2> QED BY <2>1, <2>2, <2>3 DEF PlainCalls
<1>2. CASE LoadStep
  BY <1>2, LoadStepPlain
<1>3. CASE RefsStep
  <2>1. stack # <<>> /\ Top.op = "lazyRefs"
    BY <1>3 DEF RefsStep, NoInverses, MapRefsToTypes, NullType, CheckAnInvAttr,
       RefsDone, LoadReferent, GotReferent, AttrDone, HasInverses, At
  <2>2. Top \in LoadFrame
    BY <2>1, PlainTop
  <2> QED BY <2>1, <2>2 DEF LoadFrame
<1>4. CASE MaterializeNext
  <2>1. PICK i \in build.todo : /\ build' = [build EXCEPT !.todo = @ \ {i}]
                                /\ stack' = <<loadInstance(i, TRUE, TRUE)>>
    BY <1>4 DEF MaterializeNext
  <2>2. build.phase = "load" /\ UNCHANGED permanentlyLoadedInstances
    BY <1>4 DEF MaterializeNext, Building
  <2>3. i \in Ids /\ build'.phase = "load"
    BY <2>1, <2>2 DEF TypeOK, Build
  <2> QED BY <1>0, <2>1, <2>2, <2>3, FirstPlain
<1>5. CASE BatchStep /\ ~MaterializeNext
  <2>1. stack' = <<>> /\ UNCHANGED permanentlyLoadedInstances
    BY <1>5 DEF BatchStep, ExpandClosure, ClosureCancelled, ClosureDone, Pin,
       PinCancelled, PinDone, MaterializeCancelled, LoadBatchDone, Building
  <2> QED BY <1>0, <2>1, EmptyPlain
<1>6. CASE Client
  <2>1. ~LoadInstance
    BY DEF BatchesOnly, LoadInstance
  <2>2. stack' = <<>> /\ UNCHANGED permanentlyLoadedInstances
    BY <1>6, <2>1 DEF Client, LoadBatch, ReleaseBatch, MoveBatch, Release, Idle
  <2> QED BY <1>0, <2>2, EmptyPlain
<1> QED BY <1>1, <1>2, <1>3, <1>4, <1>5, <1>6 DEF Next, Running

LEMMA PlainInv ==
    ASSUME BatchesOnly, AcyclicReferences PROVE Spec => [](PlainCalls /\ Descending)
<1>1. Init => PlainCalls /\ Descending
  <2> SUFFICES ASSUME Init PROVE PlainCalls /\ Descending
    OBVIOUS
  <2>1. stack = <<>> /\ permanentlyLoadedInstances = {} /\ <<>> \in Seq(PlainFrames)
        /\ Len(<<>>) = 0 /\ 1..0 = {} /\ 1..(0 - 1) = {}
    BY DEF Init
  <2> QED BY <2>1 DEF PlainCalls, Descending, Standing, Linked, Ordered
<1>2. TypeOK /\ Phase /\ Guards /\ PlainCalls /\ Descending /\ [Next]_vars
      => (PlainCalls /\ Descending)'
  <2> SUFFICES ASSUME TypeOK, Phase, Guards, PlainCalls, Descending, [Next]_vars
               PROVE  PlainCalls' /\ Descending'
    OBVIOUS
  <2>1. \E rank \in [Ids -> Nat] : RankOK(rank)
    BY DEF TypeOK, AcyclicReferences, RankOK
  <2> QED BY <2>1, NextPlain
<1> QED BY <1>1, <1>2, TypeInv, GuardsInv, PTL DEF Spec

(* A load of a referenced instance puts the shared stream back where the   *)
(* parser that asked for it stopped: every read of a batch goes on in its  *)
(* own record, whatever was cached, missing, unknown to the registry or    *)
(* cancelled on the way (reSeek, lazyInstMgr.h:268, lazyInstMgr.cc:360).  *)
THEOREM ParsersResume ==
    ASSUME BatchesOnly, AcyclicReferences PROVE Spec => []ResumesInPlace
<1>1. PlainCalls => ResumesInPlace
  BY DEF PlainCalls, Standing, ResumesInPlace, At, InPlace, Place
<1> QED BY <1>1, PlainInv, PTL

-----------------------------------------------------------------------------
(* The objects of a cache that only batches fill: each has the references  *)
(* of its record, those to deleted objects included, and nothing else.     *)

Whole(i) ==
    /\ Loadable(i) /\ ~obj[i].misread
    /\ obj[i].aggregates = {} /\ obj[i].refs \subseteq Fwd(i)
    /\ \A r \in Fwd(i) : Loadable(r) => r \in obj[i].refs \cup obj[i].stale

Objects == \A i \in instancesLoaded : Whole(i)

LEMMA InsertWhole ==
    ASSUME TypeOK, Phase, PlainCalls, InsertBatchOwned
    PROVE  /\ Top.id \in Ids /\ instancesLoaded' = instancesLoaded \cup {Top.id}
           /\ \A i \in Ids : i # Top.id => obj'[i] = obj[i]
           /\ \A i \in Ids : i = Top.id => Whole(i)' /\ obj'[i].stale = {}
<1>1. /\ stack # <<>> /\ Top.pc = "read" /\ Top.next = Len(index.fwd[Top.id])
      /\ ~cancelled /\ instancesLoaded' = instancesLoaded \cup {Top.id}
      /\ obj' = [obj EXCEPT ![Top.id] = [NoObject EXCEPT
                    !.refs = Top.got, !.misread = Top.misread \/ ~InPlace]]
      /\ UNCHANGED index
  <2>1. InsertBatchOwned /\ batchLoadDepth > 0
    BY DEF InsertBatchOwned
  <2> QED BY <2>1 DEF InsertBatchOwned, Insert, EndRead, AllRead, At, PollsFalse
<1>2. /\ Top \in PlainFrames /\ Top.id \in Ids /\ Len(index.fwd[Top.id]) \in Nat
  BY <1>1, PlainTop
<1>3. /\ ~Top.misread /\ Loadable(Top.id) /\ Top.got \subseteq Fwd(Top.id)
      /\ \A r \in Seen(Top) : Loadable(r) => r \in Top.got
  BY <1>1, <1>2 DEF PlainFrames
<1>4. Seen(Top) = Fwd(Top.id)
  BY <1>1 DEF Seen, Fwd
<1>5. InPlace
  BY <1>1 DEF PlainCalls, Standing, Place, InPlace
<1> DEFINE o == [NoObject EXCEPT !.refs = Top.got, !.misread = Top.misread \/ ~InPlace]
<1>6. o.refs = Top.got /\ ~o.misread /\ o.aggregates = {} /\ o.stale = {}
  <2>1. ~(Top.misread \/ ~InPlace)
    BY <1>3, <1>5
  <2> QED BY <2>1, Zenon DEF NoObject
<1> HIDE DEF o
<1>7. obj' = [obj EXCEPT ![Top.id] = o] /\ obj \in [Ids -> Object]
  BY <1>1 DEF o, TypeOK
<1>8. obj'[Top.id] = o /\ \A i \in Ids : i # Top.id => obj'[i] = obj[i]
  BY <1>2, <1>7
<1>9. ASSUME NEW i \in Ids, i = Top.id PROVE Whole(i)'
  <2>1. obj'[i] = o /\ Fwd(i)' = Fwd(i) /\ \A r : (Loadable(r)' <=> Loadable(r))
    BY <1>1, <1>8, <1>9 DEF Loadable, Fwd
  <2>2. /\ Loadable(i) /\ o.refs \subseteq Fwd(i)
        /\ \A r \in Fwd(i) : Loadable(r) => r \in o.refs
    BY <1>3, <1>4, <1>6, <1>9
  <2> QED BY <1>6, <2>1, <2>2 DEF Whole
<1> QED BY <1>1, <1>2, <1>6, <1>8, <1>9

LEMMA SameWhole ==
    ASSUME UNCHANGED <<index, obj>>, instancesLoaded' \subseteq instancesLoaded
    PROVE  Objects => Objects'
BY DEF Objects, Whole, Loadable, Fwd

(* A deletion moves references to the stale ones. *)
LEMMA ReleaseWhole ==
    ASSUME TypeOK, Objects, NEW h \in Handles, Release(h)
    PROVE  /\ Objects' /\ UNCHANGED index
           /\ \A i \in instancesLoaded' : i \in instancesLoaded /\ i \in Ids
           /\ \A i \in instancesLoaded' :
                obj'[i].stale = obj[i].stale \cup (obj[i].refs \cap Evicted(held[h]))
           /\ instancesLoaded' = instancesLoaded \ Evicted(held[h])
           /\ Evicted(held[h]) \subseteq instancesLoaded
<1> DEFINE gone == Evicted(held[h])
<1>1. /\ instancesLoaded' = instancesLoaded \ gone /\ UNCHANGED index
      /\ obj' = [i \in Ids |-> IF i \in gone THEN NoObject ELSE Survivor(obj[i], gone)]
  BY DEF Release
<1>2. gone \subseteq instancesLoaded /\ instancesLoaded \subseteq Ids /\ obj \in [Ids -> Object]
  BY DEF Evicted, TypeOK
<1> HIDE DEF gone
<1>3. ASSUME NEW i \in instancesLoaded'
      PROVE  /\ i \in instancesLoaded /\ i \in Ids
             /\ obj'[i].stale = obj[i].stale \cup (obj[i].refs \cap gone)
             /\ Whole(i)'
  <2>1. i \in instancesLoaded /\ i \in Ids /\ obj'[i] = Survivor(obj[i], gone)
    BY <1>1, <1>2, <1>3
  <2>2. /\ obj'[i].refs = obj[i].refs \ gone /\ obj'[i].misread = obj[i].misread
        /\ obj'[i].aggregates = obj[i].aggregates
        /\ obj'[i].stale = obj[i].stale \cup ((obj[i].refs \cup InverseOf(obj[i])) \cap gone)
    <3>1. obj[i] \in Object
      BY <1>2, <2>1
    <3> QED BY <2>1, <3>1, Zenon DEF Survivor, Object
  <2>3. Whole(i)
    BY <2>1 DEF Objects
  <2>4. Fwd(i)' = Fwd(i) /\ \A r : (Loadable(r)' <=> Loadable(r))
    BY <1>1 DEF Fwd, Loadable
  <2>5. obj[i].aggregates = {} /\ ~obj[i].misread /\ obj[i].refs \subseteq Fwd(i)
    BY <2>3 DEF Whole
  <2>6. obj'[i].stale = obj[i].stale \cup (obj[i].refs \cap gone)
    <3>1. InverseOf(obj[i]) = {}
      BY <2>5 DEF InverseOf
    <3> QED BY <2>2, <3>1
  <2>7. Whole(i)'
    BY <2>2, <2>3, <2>4, <2>5, <2>6 DEF Whole
  <2> QED BY <2>1, <2>6, <2>7
<1> QED BY <1>1, <1>2, <1>3 DEF Objects, gone

LEMMA NextObjects ==
    ASSUME TypeOK, Phase, PlainCalls, PlainCalls', Objects, [Next]_vars PROVE Objects'
<1> USE DEF cache, loading, calls, batches
<1>0. UNCHANGED index
  BY NextFixesIndex
<1>1. CASE UNCHANGED vars
  BY <1>1, SameWhole DEF vars
<1>2. CASE LoadStep /\ ~InsertBatchOwned /\ ~InsertPermanent
  <2>1. UNCHANGED <<obj, instancesLoaded>>
    BY <1>2 DEF LoadStep, LoadCancelled, CacheHit, IdTooLarge, CyclicDependency,
       NoPosition, UnknownType, StartRead, ReadReference, ReadGarbage, GotReference,
       DropPartial, ResolveNext, ResolveSwap, ResolveDone
  <2> QED BY <1>0, <2>1, SameWhole
<1>3. CASE InsertBatchOwned
  <2>1. instancesLoaded \subseteq Ids
    BY DEF TypeOK
  <2>2. /\ Top.id \in Ids /\ instancesLoaded' = instancesLoaded \cup {Top.id}
        /\ \A i \in Ids : i # Top.id => obj'[i] = obj[i]
        /\ \A i \in Ids : i = Top.id => Whole(i)'
    BY <1>3, InsertWhole
  <2>3. ASSUME NEW i \in instancesLoaded, i # Top.id PROVE Whole(i)'
    BY <1>0, <2>1, <2>2, <2>3 DEF Objects, Whole, Loadable, Fwd
  <2> QED BY <2>1, <2>2, <2>3 DEF Objects
<1>4. ASSUME InsertPermanent PROVE FALSE
  <2>1. /\ permanentlyLoadedInstances' = permanentlyLoadedInstances \cup {Top.id}
    BY <1>4 DEF InsertPermanent
  <2> QED BY <2>1 DEF PlainCalls
<1>5. ASSUME RefsStep PROVE FALSE
  <2>1. stack # <<>> /\ Top.op = "lazyRefs"
    BY <1>5 DEF RefsStep, NoInverses, MapRefsToTypes, NullType, CheckAnInvAttr,
       RefsDone, LoadReferent, GotReferent, AttrDone, HasInverses, At
  <2>2. Top \in LoadFrame
    BY <2>1, PlainTop
  <2> QED BY <2>1, <2>2 DEF LoadFrame
<1>6. CASE BatchStep
  <2>1. UNCHANGED <<obj, instancesLoaded>>
    BY <1>6 DEF BatchStep, ExpandClosure, ClosureCancelled, ClosureDone, Pin,
       PinCancelled, PinDone, MaterializeNext, MaterializeCancelled, LoadBatchDone
  <2> QED BY <1>0, <2>1, SameWhole
<1>7. CASE Client
  <2>1. CASE \E h \in Handles : Release(h)
    BY <2>1, ReleaseWhole
  <2>2. CASE ~ \E h \in Handles : Release(h)
    <3>1. UNCHANGED <<obj, instancesLoaded>>
      BY <1>7, <2>2 DEF Client, LoadInstance, LoadBatch, ReleaseBatch, MoveBatch
    <3> QED BY <1>0, <3>1, SameWhole
  <2> QED BY <2>1, <2>2
<1> QED BY <1>1, <1>2, <1>3, <1>4, <1>5, <1>6, <1>7 DEF Next, Running, LoadStep

LEMMA ObjectsInv ==
    ASSUME BatchesOnly, AcyclicReferences PROVE Spec => []Objects
<1>1. Init => Objects
  BY DEF Init, Objects
<1>2. TypeOK /\ Phase /\ PlainCalls /\ PlainCalls' /\ Objects /\ [Next]_vars => Objects'
  BY NextObjects
<1> QED BY <1>1, <1>2, TypeInv, PlainInv, PTL DEF Spec

(* No object that a batch left in the cache misses a reference its record  *)
(* has, or has one its record has not; one that a cancellation interrupted *)
(* is not in the cache (loadInstance, lazyInstMgr.cc:364).              *)
THEOREM ObjectsComplete ==
    ASSUME BatchesOnly, AcyclicReferences PROVE Spec => []ReferencesComplete
<1>1. Objects => ReferencesComplete
  BY DEF Objects, Whole, ReferencesComplete
<1> QED BY <1>1, ObjectsInv, PTL

(* A pinned instance is held by a handle, between calls of the client. *)
PinnedHaveHandles ==
    \A i \in Ids : pinCounts[i] > 0 => \E h \in live : i \in held[h]

LEMMA PinnedHeld ==
    TypeOK /\ Pinning /\ build.phase = "idle" => PinnedHaveHandles
<1> SUFFICES ASSUME TypeOK, Pinning, build.phase = "idle", NEW i \in Ids, pinCounts[i] > 0
             PROVE  \E h \in live : i \in held[h]
  BY DEF PinnedHaveHandles
<1>1. pinCounts[i] = Cardinality(Holders(i))
  <2>1. build.pinned = {} /\ Cardinality(Holders(i)) \in Nat
    BY HoldersType DEF Pinning, Handover
  <2> QED BY <2>1 DEF Pinning, PinsMatchBatches
<1>2. Holders(i) # {}
  BY <1>1, FS_EmptySet
<1>3. PICK h \in Handles : i \in held[h]
  BY <1>2 DEF Holders
<1> QED BY <1>3 DEF Pinning, Handover

LEMMA PinnedHeldNext == (TypeOK /\ Pinning /\ build.phase = "idle" => PinnedHaveHandles)'
BY PinnedHeld, PTL

LEMMA NextDangles ==
    ASSUME TypeOK, Phase, Pinning, PlainCalls, Objects, BatchIsClosed, NoDangling,
           TypeOK', Pinning', Owned', BatchIsClosed', PlainCalls', Objects', [Next]_vars
    PROVE  NoDangling'
<1> USE DEF cache, loading, calls, batches
<1>0. UNCHANGED index /\ (~cancelled' => ~cancelled)
  BY NextFixesIndex, NextLatch
<1>1. ASSUME UNCHANGED <<obj, instancesLoaded>> PROVE NoDangling'
  BY <1>0, <1>1 DEF NoDangling
<1>2. CASE UNCHANGED vars
  BY <1>1, <1>2 DEF vars
<1>3. CASE LoadStep /\ ~InsertBatchOwned /\ ~InsertPermanent
  BY <1>1, <1>3 DEF LoadStep, LoadCancelled, CacheHit, IdTooLarge, CyclicDependency,
     NoPosition, UnknownType, StartRead, ReadReference, ReadGarbage, GotReference,
     DropPartial, ResolveNext, ResolveSwap, ResolveDone
<1>4. CASE InsertBatchOwned
  <2>1. instancesLoaded \subseteq Ids
    BY DEF TypeOK
  <2>2. /\ Top.id \in Ids /\ instancesLoaded' = instancesLoaded \cup {Top.id}
        /\ \A i \in Ids : i # Top.id => obj'[i] = obj[i]
        /\ obj'[Top.id].stale = {}
    BY <1>4, InsertWhole
  <2> QED BY <1>0, <2>1, <2>2 DEF NoDangling
<1>5. ASSUME InsertPermanent PROVE FALSE
  <2>1. /\ permanentlyLoadedInstances' = permanentlyLoadedInstances \cup {Top.id}
    BY <1>5 DEF InsertPermanent
  <2> QED BY <2>1 DEF PlainCalls
<1>6. ASSUME RefsStep PROVE FALSE
  <2>1. stack # <<>> /\ Top.op = "lazyRefs"
    BY <1>6 DEF RefsStep, NoInverses, MapRefsToTypes, NullType, CheckAnInvAttr,
       RefsDone, LoadReferent, GotReferent, AttrDone, HasInverses, At
  <2>2. Top \in LoadFrame
    BY <2>1, PlainTop
  <2> QED BY <2>1, <2>2 DEF LoadFrame
<1>7. CASE BatchStep
  BY <1>1, <1>7 DEF BatchStep, ExpandClosure, ClosureCancelled, ClosureDone, Pin,
     PinCancelled, PinDone, MaterializeNext, MaterializeCancelled, LoadBatchDone
(* A survivor that refers to a deleted instance is pinned, so that a batch *)
(* which is left holds it and, being complete, the deleted one as well.    *)
<1>8. ASSUME NEW h \in Handles, Release(h), build'.phase = "idle" PROVE NoDangling'
  <2>1. /\ instancesLoaded' = instancesLoaded \ Evicted(held[h])
        /\ Evicted(held[h]) \subseteq instancesLoaded
        /\ \A i \in instancesLoaded' :
             /\ i \in instancesLoaded /\ i \in Ids
             /\ obj'[i].stale = obj[i].stale \cup (obj[i].refs \cap Evicted(held[h]))
    BY <1>8, ReleaseWhole
  <2> SUFFICES ASSUME ~cancelled', NEW i \in instancesLoaded',
                      NEW r \in obj[i].refs \cap Evicted(held[h])
               PROVE  FALSE
    BY <1>0, <2>1 DEF NoDangling
  <2>2. i \in Ids /\ pinCounts'[i] > 0
    BY <2>1 DEF Owned, OnlyPinnedOrPermanent, PlainCalls
  <2>3. PICK x \in live' : i \in held'[x]
    BY <1>8, <2>2, PinnedHeldNext DEF PinnedHaveHandles
  <2>4. r \in Fwd(i) /\ Loadable(r)
    BY <2>1 DEF Objects, Whole
  <2>5. r \in Fwd(i)' /\ Known(r)'
    BY <1>0, <2>4 DEF Fwd, Known, Loadable
  <2>6. r \in held'[x]
    BY <2>3, <2>5 DEF BatchIsClosed
  <2>7. r \in instancesLoaded \ instancesLoaded'
    BY <2>1
  <2> QED BY <2>3, <2>6, <2>7, NextEvicts
<1>9. CASE Client
  <2>1. CASE \E h \in Handles : Release(h)
    <3>1. UNCHANGED build /\ build.phase = "idle"
      BY <1>9, <2>1 DEF Release, Client, Idle, LoadInstance, LoadBatch, ReleaseBatch, MoveBatch
    <3> QED BY <1>8, <2>1, <3>1
  <2>2. CASE ~ \E h \in Handles : Release(h)
    BY <1>1, <1>9, <2>2 DEF Client, LoadInstance, LoadBatch, ReleaseBatch, MoveBatch
  <2> QED BY <2>1, <2>2
<1> QED BY <1>2, <1>3, <1>4, <1>5, <1>6, <1>7, <1>9 DEF Next, Running, LoadStep

(* While no batch was cut short, a release leaves no object that points to *)
(* a deleted one: the batches that are left hold, with an instance, all it *)
(* refers to (releaseBatch, lazyInstMgr.cc:518).                           *)
THEOREM NothingDangles ==
    ASSUME BatchesOnly, AcyclicReferences PROVE Spec => []NoDangling
<1>1. Init => NoDangling
  BY DEF Init, NoDangling
<1>2. /\ TypeOK /\ Phase /\ Pinning /\ PlainCalls /\ Objects /\ BatchIsClosed /\ NoDangling
      /\ TypeOK' /\ Pinning' /\ Ownership' /\ BatchIsClosed' /\ PlainCalls' /\ Objects'
      /\ [Next]_vars
      => NoDangling'
  BY NextDangles DEF Ownership
<1> QED BY <1>1, <1>2, TypeInv, PinInv, OwnershipInv, CompleteInv, PlainInv, ObjectsInv,
           PTL DEF Spec

==============================================================================
