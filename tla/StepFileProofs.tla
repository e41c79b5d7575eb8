----------------------------- MODULE StepFileProofs -----------------------------
(* For all files, in any order and number: types; appended files do not mix;  *)
(* records keep their ids; the two passes over an exchange file agree; a read *)
(* that reports nothing has lost nothing; a working session comes back; and   *)
(* the header is complete.                                                    *)
EXTENDS StepFile, InductionLemmas, FiniteSetTheorems, SequenceTheorems

InstanceType ==
    [id : Nat \ {0}, state : States \ {"noStateSE"}, form : STRING, load : Nat,
     made : Nat, filled : Nat, head : Values, rest : Values]

TypeInv ==
    /\ insts \in Seq(InstanceType)
    /\ maxFileId \in Int /\ maxFileId >= -1
    /\ fileIdIncr \in Nat /\ reads \in Nat /\ k \in Nat \ {0}
    /\ file.records \in Seq(Records)
    /\ written.records \in Seq(Records)

Listed ==
    \A i \in 1..Len(insts) :
        /\ insts[i].id <= maxFileId
        /\ insts[i].load <= reads
        /\ References(insts[i]) \subseteq 1..Len(insts)

(* While a file is read, the increment divides the ids: those of earlier      *)
(* files are below it, those of this one above.                               *)
Divided ==
    pc # "idle" =>
        \A i \in 1..Len(insts) :
            IF insts[i].load = reads THEN insts[i].id > fileIdIncr
                                     ELSE insts[i].id < fileIdIncr

SameFile ==
    \A i \in 1..Len(insts) : \A j \in References(insts[i]) : insts[j].load = insts[i].load

IInv == TypeInv /\ Listed /\ Divided /\ SameFile

(* SetFileIdIncrement leaves room for all ids there are.                      *)
LEMMA IncrementLeavesRoom ==
    ASSUME NEW max \in Int, max >= -1
    PROVE  IncrementAbove(max) \in Nat /\ (max >= 0 => IncrementAbove(max) > max)
<1>1. CASE max < 0
  BY <1>1 DEF IncrementAbove
<1>2. CASE max >= 0
  <2> DEFINE q == (max + 99 + 999) \div 1000
  <2>1. q \in Int /\ 1000 * q <= max + 1098 /\ max + 1098 < 1000 * q + 1000
    BY <1>2
  <2>2. IncrementAbove(max) = (q + 1) * 1000
    BY <1>2 DEF IncrementAbove
  <2> QED BY <1>2, <2>1, <2>2
<1> QED BY <1>1, <1>2

LEMMA InitIInv == Init => IInv
BY DEF Init, IInv, TypeInv, Listed, Divided, SameFile, NoFile

LEMMA FoundIsListed ==
    ASSUME TypeInv, NEW id, FindFileId(id) # 0
    PROVE  FindFileId(id) \in 1..Len(insts) /\ insts[FindFileId(id)].id = id
<1>1. DOMAIN insts = 1..Len(insts)
  BY DEF TypeInv
<1>2. \E i \in DOMAIN insts : insts[i].id = id
  BY DEF FindFileId
<1> QED BY <1>1, <1>2 DEF FindFileId

(* Values that are read refer to what the ids lead to.                        *)
LEMMA ReferencesRead ==
    ASSUME NEW r, NEW strict, NEW i,
           i.head = ValuesRead(r.head, strict), i.rest = ValuesRead(r.rest, strict)
    PROVE  References(i) = {Referenced(id) : id \in References(r)} \ {0}
BY DEF References, ValuesRead

LEMMA InstanceTyped ==
    ASSUME TypeInv, NEW p \in 1..Len(insts)
    PROVE  /\ insts[p] \in InstanceType
           /\ insts[p].id \in Nat \ {0} /\ insts[p].load \in Nat
           /\ References(insts[p]) \subseteq Nat
<1>1. insts[p] \in InstanceType
  BY DEF TypeInv
<1>2. insts[p].head \in Values /\ insts[p].rest \in Values
  BY <1>1 DEF InstanceType
<1> QED BY <1>1, <1>2 DEF InstanceType, Values, References

LEMMA RecordTyped ==
    ASSUME TypeInv, k <= Len(file.records)
    PROVE  /\ Record \in Records
           /\ Record.id \in Nat \ {0} /\ References(Record) \subseteq Nat
           /\ FileId \in Nat \ {0} /\ FileId > fileIdIncr
<1>1. Record \in Records
  BY DEF TypeInv, Record
<1>2. Record.id \in Nat \ {0} /\ Record.head \in Values /\ Record.rest \in Values
  BY <1>1 DEF Records
<1>3. References(Record) \subseteq Nat
  BY <1>2 DEF Values, References
<1> QED BY <1>1, <1>2, <1>3 DEF FileId, TypeInv

LEMMA StateTyped ==
    ASSUME TypeInv, k <= Len(file.records), Working
    PROVE  StateInPass1 \in States \ {"noStateSE"}
<1>1. Record.letter \in Letters \cup {NoLetter}
  BY RecordTyped DEF Records
<1> QED BY <1>1 DEF StateInPass1, EntityWfState, States, Letters, NoLetter

-----------------------------------------------------------------------------
(* Steps that leave the instances alone *)

Same == UNCHANGED <<insts, maxFileId, fileIdIncr, reads, file, written>>

LEMMA SamePreserves ==
    ASSUME IInv, Same, k' \in Nat \ {0}, pc' # "idle" => pc # "idle"
    PROVE  IInv'
BY DEF IInv, TypeInv, Listed, Divided, SameFile, Same

LEMMA BeginPreserves ==
    ASSUME IInv, NEW f \in Files \cup {written}, NEW how \in Ways, Requested(f, how),
           k' \in Nat \ {0}
    PROVE  IInv'
<1>1. f.records \in Seq(Records)
  BY FilesAssumption DEF IInv, TypeInv
<1>2. /\ file' = f /\ reads' = reads + 1 /\ written' = written
      /\ fileIdIncr' = IncrementFor(how)
  BY DEF Requested, session
<1>3. CASE Clears(how)
  <2>1. insts' = <<>> /\ maxFileId' = -1 /\ fileIdIncr' = 0
    BY <1>2, <1>3 DEF Requested, Cleared, IncrementFor, IncrementAbove
  <2> QED BY <1>1, <1>2, <2>1 DEF IInv, TypeInv, Listed, Divided, SameFile
<1>4. CASE ~Clears(how)
  <2>1. insts' = insts /\ maxFileId' = maxFileId
    BY <1>4 DEF Requested, Cleared, manager
  <2>2. fileIdIncr' \in Nat /\ (maxFileId >= 0 => fileIdIncr' > maxFileId)
    BY <1>2, <1>4, IncrementLeavesRoom DEF IncrementFor, IInv, TypeInv
  <2>3. TypeInv'
    BY <1>1, <1>2, <2>1, <2>2 DEF IInv, TypeInv
  <2>4. \A i \in 1..Len(insts) : insts[i].id \in Nat \ {0} /\ insts[i].load \in Nat
    BY InstanceTyped DEF IInv
  <2>5. Listed'
    BY <1>2, <2>1, <2>4 DEF IInv, TypeInv, Listed
  <2>6. Divided'
    BY <1>2, <2>1, <2>2, <2>4 DEF IInv, TypeInv, Listed, Divided
  <2>7. SameFile'
    BY <2>1 DEF IInv, SameFile
  <2> QED BY <2>3, <2>5, <2>6, <2>7 DEF IInv
<1> QED BY <1>3, <1>4

-----------------------------------------------------------------------------
(* An instance is made *)

LEMMA CreatePreserves == IInv /\ CreateInstance => IInv'
<1> SUFFICES ASSUME IInv, CreateInstance PROVE IInv'
  OBVIOUS
<1> DEFINE state == IF Working THEN StateInPass1 ELSE "newSE"
           i     == Instance(state)
<1>1. /\ k \in Nat \ {0} /\ k <= Len(file.records) /\ pc = "pass1" /\ pc' = pc
      /\ k' = k + 1 /\ UNCHANGED <<fileIdIncr, reads, file, written>>
      /\ insts' = Append(insts, i)
      /\ maxFileId' = IF i.id > maxFileId THEN i.id ELSE maxFileId
  BY DEF CreateInstance, InRecord, Create, reading, session, IInv, TypeInv
<1>2. state \in States \ {"noStateSE"}
  BY <1>1, StateTyped DEF IInv, States
<1>3. FindFileId(FileId) = 0 /\ Record.form \in {"simple", "complex"}
  BY DEF CreateInstance, CanCreate, IdTaken
<1>4. i = [id |-> FileId, state |-> state, form |-> Record.form, load |-> reads,
           made |-> k, filled |-> 0, head |-> Unread, rest |-> Unread]
  BY <1>3 DEF Instance
<1>5. FileId \in Nat \ {0} /\ FileId > fileIdIncr
  BY <1>1, RecordTyped DEF IInv
<1> HIDE DEF i, state
<1>a. reads \in Nat
  BY DEF IInv, TypeInv
<1>6. i \in InstanceType /\ i.id = FileId /\ i.load = reads /\ References(i) = {}
  <2>1. FileId \in Nat \ {0} /\ state \in States \ {"noStateSE"} /\ k \in Nat
    BY <1>1, <1>2, <1>5
  <2>2. Record.form \in STRING
    BY <1>1, RecordTyped DEF Records, IInv
  <2>3. Unread \in Values
    BY DEF Unread, Values
  <2>4. i \in InstanceType
    BY <1>4, <1>a, <2>1, <2>2, <2>3 DEF InstanceType
  <2>5. References(i) = {}
    BY <1>4 DEF References, Unread
  <2> QED BY <1>4, <2>4, <2>5
<1>7. /\ Len(insts') = Len(insts) + 1
      /\ \A p \in 1..Len(insts) : insts'[p] = insts[p]
      /\ insts'[Len(insts) + 1] = i
  BY <1>1 DEF IInv, TypeInv
<1>8. TypeInv'
  BY <1>1, <1>5, <1>6 DEF IInv, TypeInv
<1>9. \A p \in 1..Len(insts) : insts[p].id \in Nat /\ insts[p].load \in Nat
  BY InstanceTyped DEF IInv
<1>10. Listed'
  <2> SUFFICES ASSUME NEW p \in 1..Len(insts')
               PROVE  /\ insts'[p].id <= maxFileId' /\ insts'[p].load <= reads'
                      /\ References(insts'[p]) \subseteq 1..Len(insts')
    BY DEF Listed
  <2>1. maxFileId \in Int /\ Len(insts) \in Nat
    BY DEF IInv, TypeInv
  <2>2. CASE p = Len(insts) + 1
    BY <1>1, <1>5, <1>6, <1>7, <1>a, <2>1, <2>2
  <2>3. CASE p \in 1..Len(insts)
    <3>1. insts'[p] = insts[p]
      BY <1>7, <2>3
    <3>2. /\ insts[p].id <= maxFileId /\ insts[p].load <= reads
          /\ References(insts[p]) \subseteq 1..Len(insts)
      BY <2>3 DEF IInv, Listed
    <3> QED BY <1>1, <1>5, <1>6, <1>7, <1>9, <2>1, <2>3, <3>1, <3>2
  <2> QED BY <1>7, <2>1, <2>2, <2>3
<1>11. Divided'
  BY <1>1, <1>5, <1>6, <1>7 DEF IInv, TypeInv, Divided
<1>12. SameFile'
  <2> SUFFICES ASSUME NEW p \in 1..Len(insts'), NEW j \in References(insts'[p])
               PROVE  insts'[j].load = insts'[p].load
    BY DEF SameFile
  <2>1. p \in 1..Len(insts)
    BY <1>6, <1>7 DEF IInv, TypeInv
  <2>2. j \in 1..Len(insts) /\ insts[j].load = insts[p].load
    BY <1>7, <2>1 DEF IInv, Listed, SameFile
  <2> QED BY <1>7, <2>1, <2>2
<1> QED BY <1>8, <1>10, <1>11, <1>12 DEF IInv

-----------------------------------------------------------------------------
(* An instance is read, or has its state changed *)

(* Instance n becomes x, which stays in its file and keeps its id.            *)
LEMMA ReplacePreserves ==
    ASSUME IInv, NEW n \in 1..Len(insts), NEW x \in InstanceType,
           insts' = [insts EXCEPT ![n] = x],
           x.id = insts[n].id, x.load = insts[n].load,
           References(x) \subseteq 1..Len(insts),
           \A j \in References(x) : insts[j].load = x.load,
           k' \in Nat \ {0}, pc' # "idle" => pc # "idle",
           UNCHANGED <<maxFileId, fileIdIncr, reads, file, written>>
    PROVE  IInv'
<1>1. /\ Len(insts') = Len(insts)
      /\ \A p \in 1..Len(insts) : insts'[p] = IF p = n THEN x ELSE insts[p]
  BY DEF IInv, TypeInv
<1>2. TypeInv'
  BY DEF IInv, TypeInv
<1>3. \A p \in 1..Len(insts) :
         insts'[p].id = insts[p].id /\ insts'[p].load = insts[p].load
  BY <1>1
<1>4. Listed'
  BY <1>1, <1>3 DEF IInv, Listed
<1>5. Divided'
  BY <1>1, <1>3 DEF IInv, Divided
<1>6. SameFile'
  <2> SUFFICES ASSUME NEW p \in 1..Len(insts), NEW j \in References(insts'[p])
               PROVE  insts'[j].load = insts'[p].load
    BY <1>1 DEF SameFile
  <2>1. j \in 1..Len(insts)
    BY <1>1 DEF IInv, Listed
  <2>2. insts[j].load = insts[p].load
    BY <1>1 DEF IInv, SameFile
  <2> QED BY <1>3, <2>1, <2>2
<1> QED BY <1>2, <1>4, <1>5, <1>6 DEF IInv

LEMMA ReferencesFound ==
    ASSUME IInv, pc # "idle", k <= Len(file.records), NEW id \in References(Record),
           Referenced(id) # 0
    PROVE  Referenced(id) \in 1..Len(insts) /\ insts[Referenced(id)].load = reads
<1>1. id \in Nat
  BY RecordTyped DEF IInv
<1>2. Referenced(id) \in 1..Len(insts) /\ insts[Referenced(id)].id = id + fileIdIncr
  BY FoundIsListed DEF Referenced, IInv
<1> QED BY <1>1, <1>2 DEF IInv, TypeInv, Divided

LEMMA ReadPreserves == IInv /\ ReadInstance => IInv'
<1> SUFFICES ASSUME IInv, ReadInstance PROVE IInv'
  OBVIOUS
<1> DEFINE refs == {Referenced(id) : id \in References(Record)} \ {0}
           head == ValuesRead(Record.head, IsStrict)
           rest == ValuesRead(Record.rest, IsStrict)
           x == [insts[Node] EXCEPT !.state = StateAfter, !.filled = k,
                                    !.head = head, !.rest = rest]
<1>1. /\ pc = "pass2" /\ k <= Len(file.records) /\ k \in Nat \ {0} /\ k' = k + 1
      /\ insts' = Filled
      /\ UNCHANGED <<maxFileId, fileIdIncr, reads, file, written>>
  BY DEF ReadInstance, InRecord, reading, session, IInv, TypeInv
<1>2. Node \in 1..Len(insts) /\ insts[Node].id = FileId
  <2>1. Node # 0
    BY DEF ReadInstance, Readable
  <2> QED BY <2>1, FoundIsListed DEF Node, IInv
<1>3. insts[Node].load = reads
  BY <1>1, <1>2, RecordTyped DEF IInv, TypeInv, Divided
<1>4. refs \subseteq 1..Len(insts) /\ \A j \in refs : insts[j].load = reads
  BY <1>1, ReferencesFound
<1>5. insts[Node] \in InstanceType
  BY <1>2 DEF IInv, TypeInv
<1>6. StateAfter \in States \ {"noStateSE"}
  BY <1>5 DEF StateAfter, States, InstanceType
<1>7. head \in Values /\ rest \in Values
  <2>1. Record.head \in Values /\ Record.rest \in Values
    BY <1>1, RecordTyped DEF IInv, Records
  <2>2. \A id \in References(Record) : Referenced(id) = 0 \/ Referenced(id) \in Nat
    BY <1>1, ReferencesFound DEF IInv, TypeInv
  <2>3. ASSUME NEW v \in {Record.head, Record.rest} PROVE ValuesRead(v, IsStrict) \in Values
    <3>1. v.refs \subseteq References(Record) /\ v.missing \subseteq {"text", "number", "other"}
      BY <2>1 DEF References, Values
    <3>2. {Referenced(id) : id \in v.refs} \ {0} \subseteq Nat
      BY <2>2, <3>1
    <3>3. /\ Lacking(v, IsStrict) \subseteq {"text", "number", "other"}
          /\ (IF Dangles(v) THEN {"other"} ELSE {}) \subseteq {"text", "number", "other"}
      BY <3>1 DEF Lacking
    <3> QED BY <3>2, <3>3 DEF ValuesRead, Values
  <2> QED BY <2>3
<1>8. insts' = [insts EXCEPT ![Node] = x]
  BY <1>1, <1>2, <1>5 DEF Filled, InstanceType, IInv, TypeInv
<1>r. References(x) = refs
  <2>1. x.head = head /\ x.rest = rest
    BY <1>5 DEF InstanceType
  <2> HIDE DEF x
  <2> QED BY <2>1, ReferencesRead
<1> HIDE DEF refs, head, rest
<1>9. /\ x \in InstanceType /\ x.id = insts[Node].id /\ x.load = insts[Node].load
      /\ References(x) = refs
  BY <1>1, <1>5, <1>6, <1>7, <1>r DEF InstanceType
<1> HIDE DEF x
<1>10. References(x) \subseteq 1..Len(insts) /\ \A j \in References(x) : insts[j].load = x.load
  BY <1>3, <1>4, <1>9
<1>11. k' \in Nat \ {0} /\ pc # "idle"
  BY <1>1
<1> QED BY <1>1, <1>2, <1>8, <1>9, <1>10, <1>11, ReplacePreserves

LEMMA ChangePreserves ==
    ASSUME IInv, NEW n \in DOMAIN insts, NEW s \in States \ {"noStateSE"}, ChangeState(n, s)
    PROVE  IInv'
<1> DEFINE x == [insts[n] EXCEPT !.state = s]
<1>1. n \in 1..Len(insts) /\ insts[n] \in InstanceType
  BY DEF IInv, TypeInv
<1>2. /\ x \in InstanceType /\ x.id = insts[n].id /\ x.load = insts[n].load
      /\ References(x) = References(insts[n])
  BY <1>1 DEF InstanceType, References
<1>3. insts' = [insts EXCEPT ![n] = x]
  BY <1>1 DEF ChangeState
<1>4. /\ UNCHANGED <<maxFileId, fileIdIncr, reads, file, written>>
      /\ k' \in Nat \ {0} /\ pc' = pc
  BY DEF ChangeState, reading, IInv, TypeInv
<1>5. References(x) \subseteq 1..Len(insts) /\ \A j \in References(x) : insts[j].load = x.load
  BY <1>1, <1>2 DEF IInv, Listed, SameFile
<1> HIDE DEF x
<1> QED BY <1>1, <1>2, <1>3, <1>4, <1>5, ReplacePreserves

-----------------------------------------------------------------------------
(* The written session is a file like those of the client *)

LEMMA WritePreserves == IInv /\ WriteWorkingFile => IInv'
<1> SUFFICES ASSUME IInv, WriteWorkingFile PROVE IInv'
  OBVIOUS
<1>1. /\ UNCHANGED <<insts, maxFileId, fileIdIncr, reads, file, k, pc>>
      /\ written'.records = [j \in DOMAIN insts |-> RecordWritten(insts[j])]
  BY DEF WriteWorkingFile, manager, reading
<1>2. ASSUME NEW j \in 1..Len(insts)
      PROVE  RecordWritten(insts[j]) \in Records
  <2>1. insts[j] \in InstanceType
    BY DEF IInv, TypeInv
  <2>2. SaveLetter(insts[j].state) \in Letters \cup {NoLetter}
    BY <2>1 DEF SaveLetter, Letters, InstanceType, States
  <2>3. {insts[i].id : i \in References(insts[j])} \in SUBSET Nat
    <3>1. References(insts[j]) \subseteq 1..Len(insts)
      BY DEF IInv, Listed
    <3> QED BY <3>1, InstanceTyped DEF IInv
  <2>4. insts[j].head \in Values /\ insts[j].rest \in Values
    BY <2>1 DEF InstanceType
  <2>5. ASSUME NEW v \in {insts[j].head, insts[j].rest} PROVE ValuesWritten(v) \in Values
    <3>1. v \in Values /\ v.refs \subseteq References(insts[j])
      BY <2>4 DEF References
    <3>2. {insts[i].id : i \in v.refs} \in SUBSET Nat
      BY <2>3, <3>1
    <3> QED BY <3>1, <3>2 DEF ValuesWritten, Values
  <2>6. ValuesWritten(insts[j].head) \in Values /\ ValuesWritten(insts[j].rest) \in Values
    BY <2>5
  <2> QED BY <2>1, <2>2, <2>6 DEF RecordWritten, Records, InstanceType
<1>3. written'.records \in Seq(Records)
  <2>1. DOMAIN insts = 1..Len(insts) /\ Len(insts) \in Nat
    BY DEF IInv, TypeInv
  <2>2. [j \in DOMAIN insts |-> RecordWritten(insts[j])] \in [1..Len(insts) -> Records]
    BY <1>2, <2>1
  <2> QED BY <1>1, <2>1, <2>2
<1> QED BY <1>1, <1>3 DEF IInv, TypeInv, Listed, Divided, SameFile

-----------------------------------------------------------------------------
LEMMA NextIInv == IInv /\ [Next]_vars => IInv'
<1> SUFFICES ASSUME IInv, [Next]_vars PROVE IInv'
  OBVIOUS
<1> USE DEF reading, manager, session
<1>k. k \in Nat \ {0}
  BY DEF IInv, TypeInv
<1>1. ASSUME NEW how \in Ways, OpenFails(how) PROVE IInv'
  <2>1. /\ UNCHANGED <<insts, maxFileId, fileIdIncr, file, written, k, pc>>
        /\ pc = "idle" /\ reads' = reads + 1
    BY <1>1 DEF OpenFails, CanRead
  <2>2. \A p \in 1..Len(insts) : insts[p].load \in Nat
    BY InstanceTyped DEF IInv
  <2>3. TypeInv' /\ Divided' /\ SameFile'
    BY <2>1 DEF IInv, TypeInv, Divided, SameFile
  <2>4. Listed'
    BY <2>1, <2>2 DEF IInv, TypeInv, Listed
  <2> QED BY <2>3, <2>4 DEF IInv
<1>2. ASSUME NEW how \in Ways, NEW f \in Files \cup {written},
             BeginFails(f, how) \/ Begin(f, how)
      PROVE IInv'
  <2>1. Requested(f, how) /\ k' \in Nat \ {0}
    BY <1>2, <1>k DEF BeginFails, Begin
  <2> QED BY <2>1, BeginPreserves
<1>3. CASE Start1
  BY <1>3, <1>k, SamePreserves DEF Start1, Same
<1>4. CASE CreateInstance
  BY <1>4, CreatePreserves
<1>5. CASE NotCreated
  BY <1>5, <1>k, SamePreserves DEF NotCreated, Same, InRecord
<1>6. CASE End1
  BY <1>6, <1>k, SamePreserves DEF End1, Same
<1>7. CASE Reopen
  BY <1>7, <1>k, SamePreserves DEF Reopen, Same
<1>8. CASE ReopenFails \/ DataNotFound
  BY <1>8, <1>k, SamePreserves DEF ReopenFails, DataNotFound, Same
<1>9. CASE ReadInstance
  BY <1>9, ReadPreserves
<1>10. CASE NotRead
  BY <1>10, <1>k, SamePreserves DEF NotRead, Same, InRecord
<1>11. CASE End2
  BY <1>11, <1>k, SamePreserves DEF End2, Same
<1>12. ASSUME NEW n \in DOMAIN insts, NEW s \in States \ {"noStateSE"}, ChangeState(n, s)
       PROVE IInv'
  BY <1>12, ChangePreserves
<1>13. CASE WriteWorkingFile
  BY <1>13, WritePreserves
<1>14. CASE UNCHANGED vars
  BY <1>14, <1>k, SamePreserves DEF vars, Same
<1> QED
  BY <1>1, <1>2, <1>3, <1>4, <1>5, <1>6, <1>7, <1>8, <1>9, <1>10, <1>11, <1>12,
     <1>13, <1>14 DEF Next

(* A reference leads to an instance of the file it stands in, for all files   *)
(* and however they are read one after another (SetFileIdIncrement,           *)
(* CreateInstance, ReadEntityRef).                                            *)
THEOREM FilesDoNotMix == Spec => []ReferencesStayInFile
<1>1. IInv => ReferencesStayInFile
  BY DEF IInv, TypeInv, SameFile, ReferencesStayInFile
<1> QED BY InitIInv, NextIInv, <1>1, PTL DEF Spec

-----------------------------------------------------------------------------
(* The ids of the instances of the file that is read *)

LEMMA SameKeeps ==
    ASSUME IdsKept, pc' # "idle" => pc # "idle", UNCHANGED <<fileIdIncr, reads, file>>,
           DOMAIN insts' = DOMAIN insts,
           \A i \in DOMAIN insts : /\ insts'[i].id = insts[i].id
                                   /\ insts'[i].load = insts[i].load
                                   /\ insts'[i].made = insts[i].made
    PROVE  IdsKept'
BY DEF IdsKept

LEMMA CreateKeeps == IInv /\ IdsKept /\ CreateInstance => IdsKept'
<1> SUFFICES ASSUME IInv, IdsKept, CreateInstance PROVE IdsKept'
  OBVIOUS
<1> DEFINE state == IF Working THEN StateInPass1 ELSE "newSE"
           i     == Instance(state)
<1>1. /\ pc = "pass1" /\ pc' = pc /\ UNCHANGED <<fileIdIncr, reads, file>>
      /\ insts' = Append(insts, i)
  BY DEF CreateInstance, InRecord, Create, reading
<1>2. i.id = file.records[k].id + fileIdIncr /\ i.made = k
  BY DEF CreateInstance, CanCreate, IdTaken, Instance, FileId, Record
<1> HIDE DEF i, state
<1>3. DOMAIN insts = 1..Len(insts) /\ DOMAIN insts' = 1..(Len(insts) + 1)
  BY <1>1 DEF IInv, TypeInv
<1>4. /\ \A p \in 1..Len(insts) : insts'[p] = insts[p]
      /\ insts'[Len(insts) + 1] = i /\ Len(insts) \in Nat
  BY <1>1 DEF IInv, TypeInv
<1> QED BY <1>1, <1>2, <1>3, <1>4 DEF IdsKept

LEMMA NextKeeps == IInv /\ IdsKept /\ [Next]_vars => IdsKept'
<1> SUFFICES ASSUME IInv, IdsKept, [Next]_vars PROVE IdsKept'
  OBVIOUS
<1> USE DEF reading, manager
<1>0. /\ DOMAIN insts = 1..Len(insts)
      /\ \A p \in 1..Len(insts) : insts[p].load <= reads /\ insts[p].load \in Nat
  BY InstanceTyped DEF IInv, TypeInv, Listed
<1>1. ASSUME NEW how \in Ways, OpenFails(how) PROVE IdsKept'
  BY <1>1 DEF OpenFails, CanRead, IdsKept
<1>2. ASSUME NEW how \in Ways, NEW f \in Files \cup {written},
             BeginFails(f, how) \/ Begin(f, how)
      PROVE IdsKept'
  <2>1. reads' = reads + 1 /\ (insts' = <<>> \/ insts' = insts)
    BY <1>2 DEF BeginFails, Begin, Requested, Cleared
  <2>2. reads \in Nat
    BY DEF IInv, TypeInv
  <2>3. \A p \in DOMAIN insts' : insts'[p].load # reads'
    BY <1>0, <2>1, <2>2
  <2> QED BY <2>3 DEF IdsKept
<1>3. CASE CreateInstance
  BY <1>3, CreateKeeps
<1>4. CASE ReadInstance
  <2>1. /\ insts' = Filled /\ pc # "idle" /\ UNCHANGED <<fileIdIncr, reads, file>>
        /\ Node \in 1..Len(insts)
    BY <1>4, FoundIsListed DEF ReadInstance, InRecord, Readable, Node, IInv
  <2>2. insts[Node] \in InstanceType
    BY <2>1, InstanceTyped DEF IInv
  <2>3. /\ DOMAIN insts' = DOMAIN insts
        /\ \A p \in DOMAIN insts : p # Node => insts'[p] = insts[p]
        /\ insts'[Node].id = insts[Node].id /\ insts'[Node].load = insts[Node].load
        /\ insts'[Node].made = insts[Node].made
    BY <1>0, <2>1, <2>2 DEF Filled, InstanceType
  <2> QED BY <2>1, <2>3, SameKeeps
<1>5. ASSUME NEW n \in DOMAIN insts, NEW s \in States \ {"noStateSE"}, ChangeState(n, s)
      PROVE IdsKept'
  BY <1>5 DEF ChangeState, IdsKept
<1>6. CASE Start1 \/ NotCreated \/ End1 \/ Reopen \/ ReopenFails \/ DataNotFound \/ NotRead \/ End2
            \/ WriteWorkingFile \/ UNCHANGED vars
  <2>1. insts' = insts /\ UNCHANGED <<fileIdIncr, reads, file>>
    BY <1>6 DEF Start1, NotCreated, End1, Reopen, ReopenFails, DataNotFound, NotRead, End2,
                WriteWorkingFile, vars
  <2>2. pc' # "idle" => pc # "idle"
    BY <1>6 DEF Start1, NotCreated, End1, Reopen, ReopenFails, DataNotFound, NotRead, End2,
                WriteWorkingFile, vars, InRecord, Finished
  <2> QED BY <2>1, <2>2 DEF IdsKept
<1> QED BY <1>1, <1>2, <1>3, <1>4, <1>5, <1>6 DEF Next

(* No instance is renumbered while its file is read: it enters with the id of *)
(* its record and the file's increment, which are those of no other           *)
(* (CreateInstance, InstMgr::Append).                                         *)
THEOREM RecordsKeepTheirIds == Spec => []IdsKept
<1>1. Init => IdsKept
  BY DEF Init, IdsKept
<1> QED BY <1>1, InitIInv, NextIInv, NextKeeps, PTL DEF Spec

-----------------------------------------------------------------------------
(* The other types *)

Sized ==
    /\ IF pc = "idle" THEN size = 0 /\ position = 0
                      ELSE size = Len(file.records) + 1 /\ position \in 0..size
    /\ pc = "start1" => k = 1

Counted == {entsNotCreated, entsInvalid, totalInsts, validInsts} \subseteq Nat

Others ==
    /\ pc \in {"idle", "start1", "pass1", "reopen", "pass2"}
    /\ kind \in Ways \cup {"none"}
    /\ fileType \in {"VERSION_CURRENT", "WORKING_SESSION"}
    /\ instState \in States
    /\ error \in Severities /\ result \in Severities
    /\ stage1Done \in BOOLEAN
    /\ written.headerSeverity \in Severities

Formed == \A i \in 1..Len(insts) : insts[i].form \in {"simple", "complex"}

TInv == Sized /\ Counted /\ Others /\ Formed

LEMMA SomeSeverities ==
    /\ SEVERITY_EXIT \in Severities /\ SEVERITY_INPUT_ERROR \in Severities
    /\ SEVERITY_WARNING \in Severities /\ SEVERITY_INCOMPLETE \in Severities
    /\ SEVERITY_NULL \in Severities /\ SEVERITY_BUG \in Severities
    /\ SEVERITY_USERMSG \in Severities
BY DEF Severities, SEVERITY_EXIT, SEVERITY_INPUT_ERROR, SEVERITY_WARNING,
       SEVERITY_INCOMPLETE, SEVERITY_NULL, SEVERITY_BUG, SEVERITY_USERMSG

LEMMA ReadSeverityTyped == ASSUME NEW v, NEW strict PROVE SeverityOf(v, strict) \in Severities
BY SomeSeverities, Zenon DEF SeverityOf

(* What was read without a word was there.                                    *)
LEMMA NullIsFull ==
    ASSUME NEW v, NEW strict, SeverityOf(v, strict) = SEVERITY_NULL
    PROVE  v.missing = {} /\ ValuesRead(v, strict).missing = {}
<1>1. v.missing = {} /\ ~Dangles(v)
  BY DEF SeverityOf, SEVERITY_BUG, SEVERITY_WARNING, SEVERITY_INCOMPLETE, SEVERITY_USERMSG,
         SEVERITY_NULL
<1> QED BY <1>1 DEF ValuesRead, Lacking

LEMMA InitTInv == Init => TInv
<1> USE DEF Init, NoFile
<1>1. Init => Sized /\ Counted
  BY DEF Sized, Counted
<1>2. Init => Others
  <2> SUFFICES ASSUME Init PROVE Others
    OBVIOUS
  <2>1. written.headerSeverity = SEVERITY_NULL
    OBVIOUS
  <2>2. error = SEVERITY_NULL /\ result = SEVERITY_NULL /\ stage1Done = FALSE
    OBVIOUS
  <2> QED BY <2>1, <2>2, SomeSeverities DEF Others, States
<1>3. Init => Formed
  BY DEF Formed
<1> QED BY <1>1, <1>2, <1>3 DEF TInv

(* The lower of two severities is one.                                        *)
LEMMA SeverityTyped ==
    ASSUME NEW s \in Severities, NEW t \in Severities, error \in Severities
    PROVE  Lower(s, t) \in Severities /\ GreaterSeverity(s) \in Severities
BY DEF Lower, GreaterSeverity

LEMMA HeaderErrorTyped ==
    ASSUME Others, NEW f \in Files \cup {written}, NEW how
    PROVE  ErrorAfterHeader(f, how) \in Severities
<1>1. f.headerSeverity \in Severities
  BY FilesAssumption DEF Others
<1>2. error \in Severities
  BY DEF Others
<1>3. HeaderSeverity(f) \in Severities
  BY <1>1, <1>2, SeverityTyped, SomeSeverities, Zenon DEF HeaderSeverity
<1>4. CASE f.keyword = "STEP_WORKING_SESSION" /\ ~IsWorking(how) /\ fileType # "WORKING_SESSION"
  BY <1>2, <1>3, <1>4, SeverityTyped, SomeSeverities, Zenon DEF ErrorAfterHeader
<1>5. CASE ~(f.keyword = "STEP_WORKING_SESSION" /\ ~IsWorking(how) /\ fileType # "WORKING_SESSION")
  BY <1>2, <1>3, <1>5, SeverityTyped, SomeSeverities, Zenon DEF ErrorAfterHeader
<1> QED BY <1>4, <1>5

LEMMA ResultTyped ==
    ASSUME NEW v, NEW e \in Severities, error \in Severities
    PROVE  ResultOf(v, e) \in Severities
BY SeverityTyped, SomeSeverities, Zenon DEF ResultOf

(* Before a read ends, nothing is open, and the file has its type.            *)
LEMMA FinishedTypes ==
    ASSUME TInv, NEW r \in Severities, Finished(r), error' \in Severities,
           instState' \in States, UNCHANGED <<kind, written>>
    PROVE  Sized' /\ Others'
BY DEF TInv, Sized, Others, Finished, Closed, TypeAfter

LEMMA OpenTypes ==
    ASSUME IInv, TInv,
           \/ \E how \in Ways : OpenFails(how)
           \/ \E how \in Ways, f \in Files \cup {written} : BeginFails(f, how) \/ Begin(f, how)
    PROVE  TInv'
<1> USE SomeSeverities DEF reading, session, counts, manager
<1>1. ASSUME NEW how \in Ways, OpenFails(how) PROVE TInv'
  <2>1. Sized' /\ Counted' /\ Formed'
    BY <1>1 DEF TInv, Sized, Counted, Formed, OpenFails, CanRead, Closed
  <2>2. Others'
    BY <1>1 DEF TInv, Others, OpenFails, Closed
  <2> QED BY <2>1, <2>2 DEF TInv
<1>2. ASSUME NEW how \in Ways, NEW f \in Files \cup {written}, BeginFails(f, how)
      PROVE  TInv'
  <2>1. pc = "idle" /\ pc' = "idle" /\ Closed /\ Requested(f, how)
    BY <1>2 DEF BeginFails, Requested, CanRead
  <2>2. Sized' /\ Counted'
    BY <2>1 DEF TInv, Sized, Counted, Closed, Requested
  <2>3. Formed'
    BY <2>1 DEF TInv, Formed, Requested, Cleared
  <2>4. ErrorAfterHeader(f, how) \in Severities
    BY HeaderErrorTyped DEF TInv
  <2>5. error' \in Severities /\ result' \in Severities
    BY <1>2, <2>4, SeverityTyped DEF BeginFails, TInv, Others
  <2>6. fileType' \in {"VERSION_CURRENT", "WORKING_SESSION"}
    BY <1>2 DEF BeginFails, TypeAfter, TypeOfKeyword, TInv, Others
  <2> QED BY <2>1, <2>2, <2>3, <2>5, <2>6 DEF TInv, Others, Requested, Closed
<1>3. ASSUME NEW how \in Ways, NEW f \in Files \cup {written}, Begin(f, how)
      PROVE  TInv'
  <2>1. Requested(f, how) /\ pc' = "start1" /\ k' = 1 /\ error' = ErrorAfterHeader(f, how)
    BY <1>3 DEF Begin
  <2>2. f.records \in Seq(Records)
    BY FilesAssumption DEF IInv, TypeInv
  <2>3. Sized'
    BY <1>3, <2>1, <2>2 DEF Sized, Begin, Requested, StartPosition
  <2>4. Counted' /\ Formed'
    BY <2>1 DEF TInv, Counted, Formed, Requested, Cleared
  <2>5. Others'
    BY <1>3, <2>1, HeaderErrorTyped DEF TInv, Others, Requested, Begin, TypeOfKeyword
  <2> QED BY <2>3, <2>4, <2>5 DEF TInv
<1> QED BY <1>1, <1>2, <1>3

LEMMA Pass1Types ==
    ASSUME IInv, TInv, Start1 \/ CreateInstance \/ NotCreated \/ End1
    PROVE  TInv'
<1> USE SomeSeverities DEF reading, session, counts, manager, progress
<1>0. k \in Nat \ {0} /\ Len(file.records) \in Nat
  BY DEF IInv, TypeInv
<1>1. CASE Start1
  BY <1>1 DEF TInv, Sized, Counted, Others, Formed, Start1, States
<1>2. ASSUME InRecord("pass1") PROVE StateInPass1 \in States
  BY <1>2, StateTyped DEF InRecord, IInv, StateInPass1, TInv, Others
<1>3. CASE CreateInstance
  <2> DEFINE i == Instance(IF Working THEN StateInPass1 ELSE "newSE")
  <2>1. InRecord("pass1") /\ k' = k + 1 /\ position' = k
    BY <1>3 DEF CreateInstance
  <2>2. Sized' /\ Counted'
    BY <1>0, <1>3, <2>1 DEF TInv, Sized, Counted, CreateInstance, InRecord
  <2>3. Others'
    BY <1>2, <1>3, <2>1 DEF TInv, Others, CreateInstance
  <2>4. insts' = Append(insts, i) /\ i.form \in {"simple", "complex"}
    BY <1>3 DEF CreateInstance, CanCreate, Create, Instance
  <2> HIDE DEF i
  <2>5. Formed'
    BY <2>4 DEF TInv, Formed, IInv, TypeInv
  <2> QED BY <2>2, <2>3, <2>5 DEF TInv
<1>4. CASE NotCreated
  <2>1. InRecord("pass1") /\ k' = k + 1 /\ (position' = k \/ position' = position)
    BY <1>4 DEF NotCreated
  <2>2. pc' \in {"pass1", "reopen"} /\ UNCHANGED <<insts, size, file>>
    BY <1>4, <2>1 DEF NotCreated, InRecord
  <2>3. Sized'
    BY <1>0, <2>1, <2>2 DEF TInv, Sized, InRecord
  <2>4. Counted' /\ Formed'
    BY <1>4 DEF TInv, Counted, Formed, NotCreated
  <2>5. Others'
    BY <1>2, <1>4, <2>1 DEF TInv, Others, NotCreated
  <2> QED BY <2>3, <2>4, <2>5 DEF TInv
<1>5. CASE End1
  <2>1. ErrorAfterPass1 \in Severities
    BY SeverityTyped, Zenon DEF ErrorAfterPass1, TInv, Others
  <2>2. Sized' /\ Counted' /\ Formed'
    BY <1>5 DEF TInv, Sized, Counted, Formed, End1
  <2>3. Others'
    BY <1>5, <2>1 DEF TInv, Others, End1
  <2> QED BY <2>2, <2>3 DEF TInv
<1> QED BY <1>1, <1>3, <1>4, <1>5

(* What the second pass changes in the instances: one of them.                *)
LEMMA FilledIs ==
    ASSUME TypeInv, Node \in 1..Len(insts)
    PROVE  /\ DOMAIN Filled = DOMAIN insts
           /\ \A p \in DOMAIN insts : p # Node => Filled[p] = insts[p]
           /\ Filled[Node].id = insts[Node].id /\ Filled[Node].load = insts[Node].load
           /\ Filled[Node].form = insts[Node].form /\ Filled[Node].made = insts[Node].made
           /\ Filled[Node].state = StateAfter /\ Filled[Node].filled = k
           /\ Filled[Node].head = ValuesRead(Record.head, IsStrict)
           /\ Filled[Node].rest = ValuesRead(Record.rest, IsStrict)
<1>1. insts[Node] \in InstanceType /\ Node \in DOMAIN insts
  BY InstanceTyped DEF TypeInv
<1>2. {"id", "state", "form", "load", "made", "filled", "head", "rest"} = DOMAIN insts[Node]
  BY <1>1 DEF InstanceType
<1> QED BY <1>1, <1>2, Zenon DEF Filled

LEMMA Pass2Types ==
    ASSUME IInv, TInv,
           Reopen \/ ReopenFails \/ DataNotFound \/ ReadInstance \/ NotRead \/ End2
    PROVE  TInv'
<1> USE SomeSeverities DEF reading, session, counts, manager
<1>0. /\ k \in Nat \ {0} /\ Len(file.records) \in Nat /\ error \in Severities
      /\ instState \in States
  BY DEF IInv, TypeInv, TInv, Others
<1>1. CASE Reopen
  BY <1>0, <1>1 DEF TInv, Sized, Counted, Others, Formed, Reopen, StartPosition, States
<1>2. CASE ReopenFails \/ DataNotFound
  <2>1. error' \in Severities /\ Finished(SEVERITY_INPUT_ERROR)
    BY <1>0, <1>2, SeverityTyped, Zenon DEF ReopenFails, DataNotFound
  <2>2. Sized' /\ Others'
    BY <1>0, <1>2, <2>1, FinishedTypes DEF ReopenFails, DataNotFound
  <2>3. Counted' /\ Formed'
    BY <1>2 DEF TInv, Counted, Formed, ReopenFails, DataNotFound
  <2> QED BY <2>2, <2>3 DEF TInv
<1>3. ASSUME InRecord("pass2") PROVE StateInPass2 \in States
  <2>1. CASE ~Working \/ Record.letter = NoLetter
    BY <1>0, <2>1 DEF StateInPass2
  <2>2. CASE Working /\ Record.letter # NoLetter
    <3>1. StateInPass2 = StateInPass1
      BY <2>2 DEF StateInPass1, StateInPass2
    <3> QED BY <1>3, <2>2, <3>1, StateTyped DEF InRecord, IInv
  <2> QED BY <2>1, <2>2
<1>4. CASE ReadInstance \/ NotRead
  <2>1. /\ InRecord("pass2") /\ pc = "pass2" /\ k' = k + 1
        /\ instState' = StateInPass2
        /\ UNCHANGED <<kind, written, file, entsNotCreated, totalInsts>>
    BY <1>4 DEF ReadInstance, NotRead, InRecord
  <2>2. Counted'
    BY <1>4 DEF TInv, Counted, ReadInstance, NotRead
  <2>3. Formed'
    <3>1. CASE ReadInstance
      <4>1. Node \in 1..Len(insts) /\ insts' = Filled
        BY <3>1, FoundIsListed DEF ReadInstance, Readable, Node, IInv
      <4>2. /\ Len(insts') = Len(insts)
            /\ \A p \in 1..Len(insts) : insts'[p].form = insts[p].form
        <5>1. insts[Node] \in InstanceType /\ insts \in Seq(InstanceType)
          BY <4>1, InstanceTyped DEF IInv, TypeInv
        <5>2. /\ DOMAIN insts' = DOMAIN insts
              /\ \A p \in DOMAIN insts : p # Node => insts'[p] = insts[p]
              /\ insts'[Node].form = insts[Node].form
          BY <4>1, FilledIs DEF IInv
        <5>3. DOMAIN insts = 1..Len(insts) /\ Len(insts) \in Nat
          BY <5>1
        <5>4. insts' \in Seq(InstanceType)
          BY <3>1, ReadPreserves DEF IInv, TypeInv
        <5>5. DOMAIN insts' = 1..Len(insts') /\ Len(insts') \in Nat
          BY <5>4
        <5> QED BY <5>2, <5>3, <5>5
      <4> QED BY <4>2 DEF TInv, Formed
    <3>2. CASE NotRead
      BY <3>2 DEF TInv, Formed, NotRead
    <3> QED BY <1>4, <3>1, <3>2
  <2>4. CASE GivenUp
    <3>1. ResultOf(validInsts', SEVERITY_EXIT) \in Severities
      BY <1>0, ResultTyped
    <3>2. Sized' /\ Others'
      BY <1>3, <2>1, <2>4, <3>1, FinishedTypes DEF GivenUp
    <3> QED BY <2>2, <2>3, <3>2 DEF TInv
  <2>5. CASE ~GivenUp
    <3>1. /\ UNCHANGED <<pc, result, fileType, size, stage1Done>>
          /\ position' = k \/ position' = position
          /\ error' = error \/ error' = ErrorOfInstance
      BY <1>4, <2>5 DEF ReadInstance, NotRead
    <3>2. ErrorOfInstance \in Severities
      <4>1. SeverityRead \in Severities
        BY ReadSeverityTyped DEF SeverityRead
      <4> QED BY <1>0, <4>1, SeverityTyped, Zenon DEF ErrorOfInstance
    <3>3. Sized'
      BY <1>0, <2>1, <3>1 DEF TInv, Sized, InRecord
    <3>4. Others'
      BY <1>0, <1>3, <2>1, <3>1, <3>2 DEF TInv, Others
    <3> QED BY <2>2, <2>3, <3>3, <3>4 DEF TInv
  <2> QED BY <2>4, <2>5
<1>5. CASE End2
  <2> DEFINE e == IF entsInvalid > 0 THEN GreaterSeverity(SEVERITY_WARNING) ELSE error
             d == IF totalInsts # validInsts THEN SEVERITY_WARNING ELSE SEVERITY_NULL
  <2>1. e \in Severities /\ d \in Severities
    BY <1>0, SeverityTyped, Zenon
  <2>2. error' = Lower(e, d) /\ Finished(ResultOf(validInsts, error'))
    BY <1>5 DEF End2
  <2> HIDE DEF e, d
  <2>3. error' \in Severities
    BY <1>0, <2>1, <2>2, SeverityTyped
  <2>4. ResultOf(validInsts, error') \in Severities
    BY <1>0, <2>3, ResultTyped
  <2>5. Sized' /\ Others'
    BY <1>0, <1>5, <2>2, <2>3, <2>4, FinishedTypes DEF End2
  <2>6. Counted' /\ Formed'
    BY <1>5 DEF TInv, Counted, Formed, End2
  <2> QED BY <2>5, <2>6 DEF TInv
<1> QED BY <1>1, <1>2, <1>4, <1>5

LEMMA ClientTypes ==
    ASSUME IInv, TInv,
           \/ \E i \in DOMAIN insts, s \in States \ {"noStateSE"} : ChangeState(i, s)
           \/ WriteWorkingFile
           \/ UNCHANGED vars
    PROVE  TInv'
<1> USE SomeSeverities DEF reading, session, counts, manager, progress
<1>1. ASSUME NEW n \in DOMAIN insts, NEW s \in States \ {"noStateSE"}, ChangeState(n, s)
      PROVE  TInv'
  <2>1. /\ Len(insts') = Len(insts) /\ Len(insts) \in Nat
        /\ \A p \in 1..Len(insts) : insts'[p].form = insts[p].form
    <3>1. n \in 1..Len(insts) /\ insts[n] \in InstanceType
      BY DEF IInv, TypeInv
    <3>2. /\ DOMAIN insts' = DOMAIN insts
          /\ \A p \in DOMAIN insts : insts'[p].form = insts[p].form
      BY <1>1 DEF ChangeState
    <3>3. insts' \in Seq(InstanceType) /\ insts \in Seq(InstanceType)
      BY <1>1, ChangePreserves DEF IInv, TypeInv
    <3>4. /\ DOMAIN insts = 1..Len(insts) /\ Len(insts) \in Nat
          /\ DOMAIN insts' = 1..Len(insts') /\ Len(insts') \in Nat
      BY <3>3
    <3> QED BY <3>2, <3>4
  <2> QED BY <1>1, <2>1 DEF TInv, Sized, Counted, Others, Formed, ChangeState
<1>2. CASE WriteWorkingFile
  <2>1. written'.headerSeverity = SEVERITY_NULL
    BY <1>2 DEF WriteWorkingFile
  <2> QED BY <1>2, <2>1 DEF TInv, Sized, Counted, Others, Formed, WriteWorkingFile
<1>3. CASE UNCHANGED vars
  BY <1>3 DEF TInv, Sized, Counted, Others, Formed, vars
<1> QED BY <1>1, <1>2, <1>3

LEMMA NextTInv == IInv /\ TInv /\ [Next]_vars => TInv'
BY OpenTypes, Pass1Types, Pass2Types, ClientTypes DEF Next

FlagTyped == headerIdSet \in BOOLEAN

(* Only opening a file changes what there is of a header.                     *)
LEMMA HeadersStay ==
    ASSUME [Next]_vars
    PROVE  \/ UNCHANGED headers
           \/ \E how \in Ways, f \in Files \cup {written} : BeginFails(f, how) \/ Begin(f, how)
BY DEF Next, vars, OpenFails, Start1, CreateInstance, NotCreated, End1, Reopen, ReopenFails,
       DataNotFound, ReadInstance, NotRead, End2, ChangeState, WriteWorkingFile

LEMMA NextFlagTyped == FlagTyped /\ [Next]_vars => FlagTyped'
<1> SUFFICES ASSUME FlagTyped, [Next]_vars PROVE FlagTyped'
  OBVIOUS
<1>1. CASE UNCHANGED headers
  BY <1>1 DEF headers, FlagTyped
<1>2. ASSUME NEW how \in Ways, NEW f \in Files \cup {written}, BeginFails(f, how) \/ Begin(f, how)
      PROVE  FlagTyped'
  BY <1>2 DEF BeginFails, Begin, Requested, FlagTyped
<1> QED BY <1>1, <1>2, HeadersStay

(* Every variable keeps its type, ids are positive and below the largest,     *)
(* references lead to instances, what AppendFile returns is a severity, and   *)
(* the progress that another thread asks for never passes the size of the     *)
(* file (GetReadingProgress).                                                 *)
THEOREM TypeCorrect == Spec => []TypeOK
<1>1. IInv /\ TInv /\ FlagTyped => TypeOK
  <2> SUFFICES ASSUME IInv, TInv, FlagTyped PROVE TypeOK
    OBVIOUS
  <2>1. DOMAIN insts = 1..Len(insts)
    BY DEF IInv, TypeInv
  <2>2. \A i \in 1..Len(insts) :
           /\ insts[i].state \in States /\ insts[i].id \in Nat \ {0}
    BY InstanceTyped DEF IInv, InstanceType
  <2>3. \A i \in 1..Len(insts) : insts[i].id \in 1..maxFileId
    BY <2>2 DEF IInv, TypeInv, Listed
  <2>4. \A i \in DOMAIN insts :
           /\ insts[i].state \in States /\ insts[i].form \in {"simple", "complex"}
           /\ References(insts[i]) \subseteq DOMAIN insts
           /\ insts[i].id \in 1..maxFileId
    BY <2>1, <2>2, <2>3 DEF IInv, Listed, TInv, Formed
  <2>5. position \in 0..size
    BY DEF TInv, Sized
  <2>6. {stage1Done, headerIdSet} \subseteq BOOLEAN
    BY Zenon DEF TInv, Others, FlagTyped
  <2> QED BY <2>4, <2>5, <2>6 DEF TInv, Others, TypeOK
<1>2. Init => FlagTyped
  BY DEF Init, FlagTyped
<1> QED BY <1>1, <1>2, InitIInv, NextIInv, InitTInv, NextTInv, NextFlagTyped, PTL DEF Spec

-----------------------------------------------------------------------------
(* What the two passes leave.  An instance of the file that is read comes     *)
(* from a record of its own, in an exchange file the first of its id one can  *)
(* be made of; the second pass finds it at that record.                       *)

Loaded(i) == insts[i].load = reads

DistinctIds == \A i, j \in DOMAIN insts : insts[i].id = insts[j].id => i = j

Sources ==
    pc # "idle" => \A i \in DOMAIN insts : Loaded(i) =>
        /\ insts[i].made \in 1..Len(file.records)
        /\ Creatable(file.records[insts[i].made])
        /\ pc \in {"start1", "pass1"} => insts[i].made < k

FirstOfId ==
    pc # "idle" /\ ~Working => \A i \in DOMAIN insts : Loaded(i) =>
        \A p \in 1..Len(file.records) :
            p < insts[i].made /\ file.records[p].id = file.records[insts[i].made].id =>
                ~Creatable(file.records[p])

(* The first pass: every record something can be made of has its instance,    *)
(* and no instance is filled yet.                                             *)
Entered ==
    pc = "pass1" /\ ~Working => \A p \in 1..Len(file.records) :
        p < k /\ Creatable(file.records[p]) =>
            \E i \in DOMAIN insts : insts[i].id = file.records[p].id + fileIdIncr

NewYet ==
    pc \in {"pass1", "reopen"} /\ ~Working =>
        \A i \in DOMAIN insts : Loaded(i) => insts[i].state = "newSE"

(* The second: those of the records before k are filled.                      *)
FilledToK ==
    pc = "pass2" /\ ~Working /\ NoRejectedTwin(file) =>
        \A i \in DOMAIN insts : Loaded(i) =>
            IF insts[i].made < k THEN insts[i].state # "newSE" /\ insts[i].filled = insts[i].made
                                 ELSE insts[i].state = "newSE"

(* As long as nothing is said to be wrong, every record has become an         *)
(* instance, and those before k are filled to the last value.                 *)
Made(p) == \E i \in DOMAIN insts : Loaded(i) /\ insts[i].made = p

AllMade ==
    /\ pc = "pass1" /\ entsNotCreated = 0 =>
           \A p \in 1..Len(file.records) : p < k => Made(p)
    /\ pc \in {"reopen", "pass2"} /\ error = SEVERITY_NULL =>
           \A p \in 1..Len(file.records) : Made(p)

AllFilled ==
    pc = "pass2" /\ error = SEVERITY_NULL /\ entsInvalid = 0 =>
        \A i \in DOMAIN insts : Loaded(i) /\ insts[i].made < k =>
            /\ insts[i].filled = insts[i].made
            /\ file.records[insts[i].made].head.missing = {} /\ insts[i].head.missing = {}

PInv == /\ DistinctIds /\ Sources /\ FirstOfId /\ Entered /\ NewYet /\ FilledToK
        /\ AllMade /\ AllFilled

Base == IInv /\ TInv /\ IdsKept

LEMMA InitPInv == Init => PInv
BY DEF Init, PInv, DistinctIds, Sources, FirstOfId, Entered, NewYet, FilledToK, AllMade,
       AllFilled

(* With a new read none of the instances is of its file.                      *)
LEMMA OpenPasses ==
    ASSUME Base, PInv,
           \/ \E how \in Ways : OpenFails(how)
           \/ \E how \in Ways, f \in Files \cup {written} : BeginFails(f, how) \/ Begin(f, how)
    PROVE  PInv'
<1>1. /\ reads' = reads + 1 /\ pc' \in {"idle", "start1"}
      /\ insts' = <<>> \/ insts' = insts
  BY DEF OpenFails, BeginFails, Begin, Requested, CanRead, Cleared, manager
<1>2. DistinctIds'
  BY <1>1 DEF PInv, DistinctIds
<1>3. \A i \in DOMAIN insts' : ~Loaded(i)'
  <2>1. reads \in Nat /\ DOMAIN insts = 1..Len(insts)
    BY DEF Base, IInv, TypeInv
  <2>2. \A i \in DOMAIN insts : insts[i].load \in Nat /\ insts[i].load <= reads
    BY <2>1, InstanceTyped DEF Base, IInv, Listed
  <2> QED BY <1>1, <2>1, <2>2 DEF Loaded
<1> QED
  BY <1>1, <1>2, <1>3 DEF PInv, Sources, FirstOfId, Entered, NewYet, FilledToK, AllMade,
                          AllFilled

(* Steps between the passes and after them.                                   *)
LEMMA BetweenPasses ==
    ASSUME Base, PInv,
           \/ Start1 \/ End1 \/ Reopen \/ ReopenFails \/ DataNotFound \/ End2
           \/ \E i \in DOMAIN insts, s \in States \ {"noStateSE"} : ChangeState(i, s)
           \/ WriteWorkingFile
           \/ UNCHANGED vars
    PROVE  PInv'
<1> USE DEF manager, reading, counts
<1>0. /\ k \in Nat \ {0} /\ Len(file.records) \in Nat /\ entsNotCreated \in Nat
      /\ error \in Severities
  BY DEF Base, IInv, TypeInv, TInv, Counted, Others
<1>1. CASE Start1
  <2>1. /\ pc = "start1" /\ pc' = "pass1" /\ k = 1
        /\ UNCHANGED <<insts, reads, file, k, fileType, fileIdIncr>>
    BY <1>1 DEF Start1, Base, TInv, Sized
  <2>2. \A i \in DOMAIN insts : ~Loaded(i)
    BY <1>0, <2>1 DEF PInv, Sources
  <2>3. DistinctIds'
    BY <2>1 DEF PInv, DistinctIds
  <2> QED
    BY <1>0, <2>1, <2>2, <2>3 DEF PInv, Loaded, Sources, FirstOfId, Entered, NewYet,
       FilledToK, AllMade, AllFilled
<1>2. CASE End1
  <2>1. /\ pc = "pass1" /\ pc' = "reopen" /\ k > Len(file.records)
        /\ error' = ErrorAfterPass1
        /\ UNCHANGED <<insts, reads, file, k, fileType, fileIdIncr, entsNotCreated>>
    BY <1>2 DEF End1
  <2>2. error' = SEVERITY_NULL => entsNotCreated = 0
    BY <1>0, <2>1 DEF ErrorAfterPass1, GreaterSeverity, SEVERITY_NULL, SEVERITY_WARNING,
                      Severities
  <2>3. AllMade'
    BY <1>0, <2>1, <2>2 DEF PInv, AllMade, Made, Loaded
  <2> QED
    BY <2>1, <2>3 DEF PInv, Loaded, Working, DistinctIds, Sources, FirstOfId, Entered,
       NewYet, FilledToK, AllFilled
<1>3. CASE Reopen
  <2>1. /\ pc = "reopen" /\ pc' = "pass2" /\ k' = 1
        /\ UNCHANGED <<insts, reads, file, fileType, fileIdIncr, error>>
    BY <1>3 DEF Reopen
  <2>2. \A i \in DOMAIN insts : Loaded(i) => ~(insts[i].made < 1)
    BY <1>0, <2>1 DEF PInv, Sources
  <2>3. Sources' /\ FirstOfId' /\ DistinctIds'
    BY <2>1 DEF PInv, Loaded, Working, Sources, FirstOfId, DistinctIds
  <2>4. FilledToK' /\ AllFilled'
    BY <2>1, <2>2 DEF PInv, Loaded, Working, NewYet, FilledToK, AllFilled
  <2> QED
    BY <2>1, <2>3, <2>4 DEF PInv, Entered, NewYet, AllMade, Made, Loaded
<1>4. CASE ReopenFails \/ DataNotFound \/ End2 \/ WriteWorkingFile
  <2>1. pc' = "idle" /\ insts' = insts
    BY <1>4 DEF ReopenFails, DataNotFound, End2, WriteWorkingFile, Finished
  <2> QED
    BY <2>1 DEF PInv, DistinctIds, Sources, FirstOfId, Entered, NewYet, FilledToK, AllMade,
       AllFilled
<1>5. ASSUME NEW n \in DOMAIN insts, NEW s \in States \ {"noStateSE"}, ChangeState(n, s)
      PROVE  PInv'
  <2>1. /\ pc' = "idle" /\ DOMAIN insts' = DOMAIN insts
        /\ \A i \in DOMAIN insts : insts'[i].id = insts[i].id
    BY <1>5 DEF ChangeState
  <2> QED
    BY <2>1 DEF PInv, DistinctIds, Sources, FirstOfId, Entered, NewYet, FilledToK, AllMade,
       AllFilled
<1>6. CASE UNCHANGED vars
  BY <1>6 DEF vars, PInv, DistinctIds, Sources, FirstOfId, Entered, NewYet, FilledToK,
     AllMade, AllFilled, Made, Loaded, Working
<1> QED BY <1>1, <1>2, <1>3, <1>4, <1>5, <1>6

LEMMA NotFound == ASSUME TypeInv, NEW id, FindFileId(id) = 0
                  PROVE  \A i \in DOMAIN insts : insts[i].id # id
<1>1. DOMAIN insts = 1..Len(insts)
  BY DEF TypeInv
<1>2. CASE \E i \in DOMAIN insts : insts[i].id = id
  <2>1. (CHOOSE i \in DOMAIN insts : insts[i].id = id) \in DOMAIN insts
    BY <1>2
  <2> QED BY <1>1, <1>2, <2>1 DEF FindFileId
<1> QED BY <1>2

LEMMA RecordIds ==
    ASSUME TypeInv
    PROVE  /\ Len(file.records) \in Nat
           /\ \A p \in 1..Len(file.records) : file.records[p].id \in Nat \ {0}
<1>1. ASSUME NEW p \in 1..Len(file.records) PROVE file.records[p].id \in Nat \ {0}
  <2>1. file.records[p] \in Records
    BY DEF TypeInv
  <2> QED BY <2>1 DEF Records
<1> QED BY <1>1 DEF TypeInv

LEMMA CreatePasses == Base /\ PInv /\ CreateInstance => PInv'
<1> SUFFICES ASSUME Base, PInv, CreateInstance PROVE PInv'
  OBVIOUS
<1> DEFINE i == Instance(IF Working THEN StateInPass1 ELSE "newSE")
           n == Len(insts) + 1
<1>1. /\ pc = "pass1" /\ pc' = "pass1" /\ k <= Len(file.records) /\ k' = k + 1
      /\ UNCHANGED <<reads, file, fileType, fileIdIncr, entsNotCreated>>
      /\ insts' = Append(insts, i)
  BY DEF CreateInstance, InRecord, Create, reading
<1>2. FindFileId(FileId) = 0 /\ Record.form \in {"simple", "complex"}
  BY DEF CreateInstance, CanCreate, IdTaken
<1>3. /\ i.id = FileId /\ i.load = reads /\ i.made = k
      /\ ~Working => i.state = "newSE"
  BY <1>2 DEF Instance
<1> HIDE DEF i
<1>4. /\ k \in Nat \ {0} /\ Len(file.records) \in Nat /\ insts \in Seq(InstanceType)
      /\ FileId = file.records[k].id + fileIdIncr
      /\ fileIdIncr \in Nat
      /\ \A p \in 1..Len(file.records) : file.records[p].id \in Nat \ {0}
  BY RecordIds DEF Base, IInv, TypeInv, FileId, Record
<1>5. /\ DOMAIN insts = 1..Len(insts) /\ DOMAIN insts' = DOMAIN insts \cup {n}
      /\ n \notin DOMAIN insts
      /\ \A p \in DOMAIN insts : insts'[p] = insts[p]
      /\ insts'[n] = i
  BY <1>1, <1>4
<1> HIDE DEF n
<1>6. DistinctIds'
  <2>1. \A p \in DOMAIN insts : insts[p].id # FileId
    BY <1>2, NotFound DEF Base, IInv
  <2> QED BY <1>3, <1>5, <2>1 DEF PInv, DistinctIds
<1>7. \A q \in DOMAIN insts' :
         Loaded(q)' <=> q = n \/ (q \in DOMAIN insts /\ Loaded(q))
  BY <1>1, <1>3, <1>5 DEF Loaded
<1>8. Sources'
  BY <1>1, <1>2, <1>3, <1>4, <1>5, <1>7 DEF PInv, Sources, Creatable, Record
<1>9. FirstOfId'
  <2> SUFFICES ASSUME ~Working,
                      NEW p \in 1..Len(file.records), p < k,
                      file.records[p].id = file.records[k].id, Creatable(file.records[p])
               PROVE  FALSE
    BY <1>1, <1>3, <1>5, <1>7 DEF PInv, FirstOfId, Working
  <2>1. \E j \in DOMAIN insts : insts[j].id = FileId
    BY <1>1, <1>4 DEF PInv, Entered
  <2> QED BY <1>2, <2>1, NotFound DEF Base, IInv
<1>10. Entered'
  <2> SUFFICES ASSUME ~Working, NEW p \in 1..Len(file.records), p < k + 1,
                      Creatable(file.records[p])
               PROVE  \E j \in DOMAIN insts' :
                        insts'[j].id = file.records[p].id + fileIdIncr
    BY <1>1 DEF Entered, Working
  <2>1. CASE p = k
    BY <1>3, <1>4, <1>5, <2>1
  <2>2. CASE p < k
    <3>1. PICK j \in DOMAIN insts : insts[j].id = file.records[p].id + fileIdIncr
      BY <1>1, <2>2 DEF PInv, Entered
    <3> QED BY <1>5, <3>1
  <2> QED BY <1>4, <2>1, <2>2
<1>11. NewYet' /\ FilledToK' /\ AllFilled'
  BY <1>1, <1>3, <1>5, <1>7 DEF PInv, NewYet, FilledToK, AllFilled, Working
<1>12. AllMade'
  <2> SUFFICES ASSUME entsNotCreated = 0, NEW p \in 1..Len(file.records), p < k + 1
               PROVE  Made(p)'
    BY <1>1 DEF AllMade
  <2>1. CASE p = k
    BY <1>3, <1>5, <1>7, <2>1 DEF Made
  <2>2. CASE p < k
    <3>1. PICK j \in DOMAIN insts : Loaded(j) /\ insts[j].made = p
      BY <1>1, <2>2 DEF PInv, AllMade, Made
    <3> QED BY <1>5, <1>7, <3>1 DEF Made
  <2> QED BY <1>4, <2>1, <2>2
<1> QED BY <1>6, <1>8, <1>9, <1>10, <1>11, <1>12 DEF PInv

LEMMA NotCreatedPasses == Base /\ PInv /\ NotCreated => PInv'
<1> SUFFICES ASSUME Base, PInv, NotCreated PROVE PInv'
  OBVIOUS
<1>1. /\ pc = "pass1" /\ k <= Len(file.records) /\ k' = k + 1
      /\ UNCHANGED <<insts, reads, file, fileType, fileIdIncr>>
      /\ entsNotCreated' = entsNotCreated + 1
      /\ pc' = "pass1" \/ (pc' = "reopen" /\ error' = SEVERITY_EXIT)
  BY DEF NotCreated, InRecord, manager, reading
<1>2. /\ k \in Nat \ {0} /\ Len(file.records) \in Nat /\ entsNotCreated \in Nat
      /\ FileId = file.records[k].id + fileIdIncr
  BY DEF Base, IInv, TypeInv, TInv, Counted, FileId, Record
<1>3. Sources' /\ FirstOfId' /\ DistinctIds' /\ NewYet'
  BY <1>1, <1>2 DEF PInv, Loaded, Working, Sources, FirstOfId, DistinctIds, NewYet
<1>4. AllMade'
  <2>1. entsNotCreated' # 0 /\ SEVERITY_EXIT # SEVERITY_NULL
    BY <1>1, <1>2 DEF SEVERITY_EXIT, SEVERITY_NULL
  <2> QED BY <1>1, <2>1 DEF AllMade
<1>5. Entered'
  <2> SUFFICES ASSUME ~Working, Creatable(file.records[k])
               PROVE  \E j \in DOMAIN insts : insts[j].id = file.records[k].id + fileIdIncr
    BY <1>1, <1>2 DEF PInv, Entered, Working
  <2>1. FindFileId(FileId) # 0
    BY DEF NotCreated, CanCreate, IdTaken, Creatable, Record
  <2> QED BY <1>2, <2>1 DEF FindFileId
<1> QED BY <1>1, <1>3, <1>4, <1>5 DEF PInv, FilledToK, AllFilled

(* The second pass at record k.                                               *)
LEMMA NodeOfRecord ==
    ASSUME Base, PInv, InRecord("pass2")
    PROVE  /\ \A i \in DOMAIN insts : Loaded(i) /\ insts[i].made = k => i = Node
           /\ Node # 0 => /\ Node \in DOMAIN insts /\ insts[Node].id = FileId
                          /\ Loaded(Node)
                          /\ file.records[insts[Node].made].id = file.records[k].id
<1>1. /\ FileId = file.records[k].id + fileIdIncr /\ pc = "pass2"
      /\ k <= Len(file.records)
  BY DEF FileId, Record, InRecord
<1>2. DOMAIN insts = 1..Len(insts) /\ Len(insts) \in Nat /\ fileIdIncr \in Nat
  BY DEF Base, IInv, TypeInv
<1>3. \A p \in 1..Len(file.records) : file.records[p].id \in Nat \ {0}
  BY RecordIds DEF Base, IInv
<1>4. k \in 1..Len(file.records)
  BY <1>1 DEF Base, IInv, TypeInv
<1>5. \A i \in DOMAIN insts : Loaded(i) =>
         /\ insts[i].id = file.records[insts[i].made].id + fileIdIncr
         /\ insts[i].made \in 1..Len(file.records)
  BY <1>1 DEF Base, IdsKept, Loaded, PInv, Sources
<1>6. ASSUME NEW i \in DOMAIN insts, Loaded(i), insts[i].made = k PROVE i = Node
  <2>1. insts[i].id = FileId
    BY <1>1, <1>5, <1>6
  <2>2. FindFileId(FileId) \in DOMAIN insts /\ insts[FindFileId(FileId)].id = FileId
    <3>1. FindFileId(FileId) # 0
      BY <2>1, NotFound DEF Base, IInv
    <3> QED BY <1>2, <3>1, FoundIsListed DEF Base, IInv
  <2> QED BY <2>1, <2>2 DEF PInv, DistinctIds, Node
<1>7. ASSUME Node # 0
      PROVE  /\ Node \in DOMAIN insts /\ insts[Node].id = FileId
             /\ Loaded(Node)
             /\ file.records[insts[Node].made].id = file.records[k].id
  <2>1. Node \in 1..Len(insts) /\ insts[Node].id = FileId
    BY <1>7, FoundIsListed DEF Node, Base, IInv
  <2>2. FileId > fileIdIncr
    BY <1>1, RecordTyped DEF Base, IInv
  <2>3. Loaded(Node)
    BY <1>1, <1>2, <2>1, <2>2, InstanceTyped DEF Loaded, Base, IInv, Divided
  <2>4. /\ insts[Node].id = file.records[insts[Node].made].id + fileIdIncr
        /\ insts[Node].made \in 1..Len(file.records)
    BY <1>2, <1>5, <2>1, <2>3
  <2>5. file.records[insts[Node].made].id = file.records[k].id
    <3> DEFINE a == file.records[insts[Node].made].id
               b == file.records[k].id
    <3>1. a \in Nat /\ b \in Nat
      BY <1>3, <1>4, <2>4
    <3>2. a + fileIdIncr = b + fileIdIncr
      BY <1>1, <2>1, <2>4
    <3> HIDE DEF a, b
    <3>3. a = b
      BY <1>2, <3>1, <3>2
    <3> QED BY <3>3 DEF a, b
  <2> QED BY <1>2, <2>1, <2>3, <2>5
<1> QED BY <1>6, <1>7

(* In an exchange file the record that is read is the one it was made of.     *)
LEMMA OwnRecord ==
    ASSUME Base, PInv, InRecord("pass2"), Readable, ~Working, NoRejectedTwin(file)
    PROVE  insts[Node].made = k
<1>1. /\ Node \in DOMAIN insts /\ Loaded(Node) /\ insts[Node].state = "newSE"
      /\ file.records[insts[Node].made].id = file.records[k].id
      /\ Record.form \in {"simple", "complex", "unknown"}
  BY NodeOfRecord DEF Readable
<1>2. /\ pc = "pass2" /\ k \in 1..Len(file.records) /\ Len(file.records) \in Nat
      /\ file.records \in Seq(Records)
  BY DEF InRecord, Base, IInv, TypeInv
<1>3. insts[Node].made \in 1..Len(file.records) /\ Creatable(file.records[insts[Node].made])
  BY <1>1, <1>2 DEF PInv, Sources
<1>4. ~(insts[Node].made < k)
  BY <1>1, <1>2 DEF PInv, FilledToK
<1>5. CASE k < insts[Node].made
  <2>1. ~Creatable(file.records[k])
    BY <1>1, <1>2, <1>5 DEF PInv, FirstOfId
  <2>2. file.records[k].form = "unknown"
    BY <1>1, <2>1 DEF Creatable, Record
  <2> QED BY <1>1, <1>2, <1>3, <1>5, <2>2 DEF NoRejectedTwin
<1> QED BY <1>2, <1>3, <1>4, <1>5

LEMMA ReadPasses == Base /\ PInv /\ ReadInstance => PInv'
<1> SUFFICES ASSUME Base, PInv, ReadInstance PROVE PInv'
  OBVIOUS
<1>1. /\ InRecord("pass2") /\ pc = "pass2" /\ k' = k + 1 /\ Readable
      /\ pc' \in {"idle", "pass2"}
      /\ UNCHANGED <<reads, file, fileIdIncr>>
      /\ insts' = Filled
  BY DEF ReadInstance, InRecord, reading, GivenUp, Finished
<1>2. /\ Node \in DOMAIN insts /\ Loaded(Node)
      /\ \A i \in DOMAIN insts : Loaded(i) /\ insts[i].made = k => i = Node
  BY <1>1, NodeOfRecord DEF Readable
<1>3. /\ DOMAIN insts' = DOMAIN insts
      /\ \A p \in DOMAIN insts : p # Node => insts'[p] = insts[p]
      /\ \A p \in DOMAIN insts : /\ insts'[p].id = insts[p].id
                                 /\ insts'[p].load = insts[p].load
                                 /\ insts'[p].made = insts[p].made
      /\ insts'[Node].state = StateAfter /\ insts'[Node].filled = k
      /\ insts'[Node].head = ValuesRead(Record.head, IsStrict)
  <2>1. Node \in 1..Len(insts)
    BY <1>2 DEF Base, IInv, TypeInv
  <2> QED BY <1>1, <2>1, FilledIs DEF Base, IInv
<1>4. \A p \in DOMAIN insts : Loaded(p)' <=> Loaded(p)
  BY <1>1, <1>3 DEF Loaded
<1>5. DistinctIds'
  BY <1>3 DEF PInv, DistinctIds
<1>6. CASE pc' = "idle"
  BY <1>5, <1>6 DEF PInv, Sources, FirstOfId, Entered, NewYet, FilledToK, AllMade, AllFilled
<1>7. CASE pc' = "pass2"
  <2>1. /\ error' = ErrorOfInstance /\ UNCHANGED fileType
        /\ entsInvalid' = entsInvalid + (IF CountedInvalid THEN 1 ELSE 0)
    BY <1>7 DEF ReadInstance, GivenUp, Finished
  <2>2. Sources' /\ FirstOfId'
    BY <1>1, <1>3, <1>4, <1>7, <2>1 DEF PInv, Sources, FirstOfId, Working
  <2>e. /\ error' = SEVERITY_NULL => error = SEVERITY_NULL
        /\ error' = SEVERITY_NULL /\ insts[Node].form = "simple" => SeverityRead = SEVERITY_NULL
    <3>1. SeverityRead \in Severities /\ error \in Severities
      BY ReadSeverityTyped DEF SeverityRead, Base, TInv, Others
    <3>2. CASE insts[Node].form = "complex"
      BY <2>1, <3>2 DEF ErrorOfInstance
    <3>3. CASE insts[Node].form # "complex"
      BY <2>1, <3>1, <3>3 DEF ErrorOfInstance, GreaterSeverity, SEVERITY_WARNING,
         SEVERITY_NULL, SEVERITY_EXIT, Severities
    <3> QED BY <3>2, <3>3
  <2>3. AllMade'
    <3>1. error' = SEVERITY_NULL => error = SEVERITY_NULL
      BY <2>e
    <3>2. ASSUME NEW p, Made(p) PROVE Made(p)'
      BY <1>3, <1>4, <3>2 DEF Made
    <3> QED BY <1>1, <1>7, <3>1, <3>2 DEF PInv, AllMade
  <2>k. k \in Nat \ {0} /\ \A i \in DOMAIN insts : Loaded(i) => insts[i].made \in Nat
    BY <1>1 DEF Base, IInv, TypeInv, PInv, Sources
  <2>4. FilledToK'
    <3> SUFFICES ASSUME ~Working, NoRejectedTwin(file), NEW i \in DOMAIN insts, Loaded(i)
                 PROVE  IF insts[i].made < k + 1
                        THEN insts'[i].state # "newSE" /\ insts'[i].filled = insts[i].made
                        ELSE insts'[i].state = "newSE"
      BY <1>1, <1>3, <1>4, <2>1 DEF FilledToK, Working
    <3>1. insts[Node].made = k
      BY <1>1, OwnRecord
    <3>2. StateAfter # "newSE"
      BY DEF StateAfter
    <3>3. CASE i = Node
      BY <1>3, <2>k, <3>1, <3>2, <3>3
    <3>4. CASE i # Node
      <4>1. insts[i].made # k /\ insts'[i] = insts[i]
        BY <1>2, <1>3, <3>4
      <4> QED BY <1>1, <2>k, <4>1 DEF PInv, FilledToK
    <3> QED BY <3>3, <3>4
  <2>5. AllFilled'
    <3> SUFFICES ASSUME error' = SEVERITY_NULL, entsInvalid' = 0,
                        NEW i \in DOMAIN insts, Loaded(i), insts[i].made < k + 1
                 PROVE  /\ insts'[i].filled = insts[i].made
                        /\ file.records[insts[i].made].head.missing = {}
                        /\ insts'[i].head.missing = {}
      BY <1>1, <1>3, <1>4 DEF AllFilled
    <3>1. error = SEVERITY_NULL /\ ~(insts[Node].form = "simple" /\ SeverityRead # SEVERITY_NULL)
      BY <2>e
    <3>2. entsInvalid = 0 /\ ~CountedInvalid
      BY <2>1 DEF Base, TInv, Counted
    <3>3. insts[Node].form \in {"simple", "complex"}
      BY <1>2 DEF Base, IInv, TypeInv, TInv, Formed
    <3>4. SeverityRead = SEVERITY_NULL
      BY <3>1, <3>2, <3>3 DEF CountedInvalid
    <3>5. Node \in DOMAIN insts /\ insts[Node].made = k
      <4>1. k \in 1..Len(file.records)
        BY <1>1 DEF InRecord, Base, IInv, TypeInv
      <4>2. Made(k)
        BY <1>1, <3>1, <4>1 DEF PInv, AllMade
      <4> QED BY <1>2, <4>2 DEF Made
    <3>6. CASE i = Node
      <4>1. Record.head.missing = {} /\ ValuesRead(Record.head, IsStrict).missing = {}
        BY <3>4, NullIsFull DEF SeverityRead
      <4> QED BY <1>3, <3>5, <3>6, <4>1 DEF Record
    <3>7. CASE i # Node
      <4>1. insts[i].made # k /\ insts'[i] = insts[i]
        BY <1>2, <1>3, <3>7
      <4>2. insts[i].made < k
        BY <2>k, <4>1
      <4> QED BY <1>1, <3>1, <3>2, <4>1, <4>2 DEF PInv, AllFilled
    <3> QED BY <3>6, <3>7
  <2> QED BY <1>5, <1>7, <2>2, <2>3, <2>4, <2>5 DEF PInv, Entered, NewYet
<1> QED BY <1>1, <1>6, <1>7

LEMMA NotReadPasses == Base /\ PInv /\ NotRead => PInv'
<1> SUFFICES ASSUME Base, PInv, NotRead PROVE PInv'
  OBVIOUS
<1>1. /\ InRecord("pass2") /\ pc = "pass2" /\ k' = k + 1
      /\ pc' \in {"idle", "pass2"} /\ (SkippedInPass2 \/ ~Readable)
      /\ entsInvalid' = entsInvalid + 1
      /\ UNCHANGED <<insts, reads, file, fileIdIncr>>
  BY DEF NotRead, InRecord, manager, reading, GivenUp, Finished
<1>2. DistinctIds'
  BY <1>1 DEF PInv, DistinctIds
<1>3. CASE pc' = "idle"
  BY <1>2, <1>3 DEF PInv, Sources, FirstOfId, Entered, NewYet, FilledToK, AllMade, AllFilled
<1>4. CASE pc' = "pass2"
  <2>1. UNCHANGED <<error, fileType>>
    BY <1>4 DEF NotRead, GivenUp, Finished
  <2>2. Sources' /\ FirstOfId' /\ AllMade'
    BY <1>1, <1>4, <2>1 DEF PInv, Sources, FirstOfId, AllMade, Made, Working, Loaded
  <2>3. AllFilled'
    BY <1>1 DEF Base, TInv, Counted, AllFilled
  <2>4. FilledToK'
    <3> SUFFICES ASSUME ~Working, NoRejectedTwin(file), NEW i \in DOMAIN insts, Loaded(i)
                 PROVE  insts[i].made # k
      <4>1. k \in Nat /\ \A i \in DOMAIN insts : Loaded(i) => insts[i].made \in Nat
        BY <1>1 DEF Base, IInv, TypeInv, PInv, Sources
      <4> QED BY <1>1, <2>1, <4>1 DEF PInv, FilledToK, Working, Loaded
    <3>1. SUFFICES ASSUME insts[i].made = k PROVE FALSE
      OBVIOUS
    <3>2. i = Node
      BY <1>1, <3>1, NodeOfRecord
    <3>3. insts[Node].state = "newSE" /\ Creatable(file.records[k])
      BY <1>1, <3>1, <3>2 DEF PInv, FilledToK, Sources, Base, IInv, TypeInv
    <3>4. Node # 0
      BY <3>2 DEF Base, IInv, TypeInv
    <3>5. Readable /\ ~SkippedInPass2
      BY <3>3, <3>4 DEF Readable, SkippedInPass2, Creatable, Record
    <3> QED BY <1>1, <3>5
  <2> QED BY <1>2, <1>4, <2>2, <2>3, <2>4 DEF PInv, Entered, NewYet
<1> QED BY <1>1, <1>3, <1>4

LEMMA NextPInv == Base /\ PInv /\ [Next]_vars => PInv'
BY OpenPasses, BetweenPasses, CreatePasses, NotCreatedPasses, ReadPasses, NotReadPasses
   DEF Next

LEMMA AlwaysBase == Spec => [](Base /\ PInv)
<1>1. Init => Base /\ PInv
  BY InitIInv, InitTInv, InitPInv DEF Base, Init, IdsKept
<1>2. Base /\ PInv /\ [Next]_vars => (Base /\ PInv)'
  BY NextIInv, NextTInv, NextKeeps, NextPInv DEF Base
<1> QED BY <1>1, <1>2, PTL DEF Spec

(* The two passes over an exchange file agree: when both have run to the end, *)
(* every instance of the file holds the values of the record it was made of,  *)
(* duplicates and refused records notwithstanding (ReadData1, ReadData2), for *)
(* every file in which no record that is refused precedes one with its id.    *)
THEOREM PassesMakeAndFill == Spec => PassesAgree
<1> DEFINE Agree ==
      Completed /\ ~Working /\ NoRejectedTwin(file) =>
         \A i \in DOMAIN insts :
             insts[i].load = reads =>
                 insts[i].state # "newSE" /\ insts[i].filled = insts[i].made
<1>1. ASSUME Base, PInv PROVE Agree
  <2> SUFFICES ASSUME Completed, ~Working, NoRejectedTwin(file),
                      NEW i \in DOMAIN insts, insts[i].load = reads
               PROVE  insts[i].state # "newSE" /\ insts[i].filled = insts[i].made
    OBVIOUS
  <2>1. pc = "pass2" /\ k > Len(file.records) /\ Len(file.records) \in Nat /\ k \in Nat
    BY <1>1 DEF Completed, Base, IInv, TypeInv
  <2>2. insts[i].made \in 1..Len(file.records)
    BY <1>1, <2>1 DEF PInv, Sources, Loaded
  <2>3. insts[i].made < k
    BY <2>1, <2>2
  <2> QED BY <1>1, <2>1, <2>3 DEF PInv, FilledToK, Loaded
<1> HIDE DEF Agree
<1>2. Spec => [][Agree]_vars
  BY <1>1, AlwaysBase, PTL DEF Spec
<1> QED BY <1>2 DEF PassesAgree, Agree

(* Where neither _error nor the severity returned has anything to say, every  *)
(* record of the file became an instance whose values (of a complex one those *)
(* of its head part) were all in the file and all were set, in exchange files *)
(* and working sessions alike, strictly read or not, whatever was read before *)
(* (CreateInstance, ReadData2, STEPread).                                     *)
THEOREM SilenceMeansComplete == Spec => ErrorTellsLoss
<1> DEFINE Tells ==
      pc # "idle" /\ pc' = "idle" /\ error' = SEVERITY_NULL /\ result' = SEVERITY_NULL =>
         \A r \in DOMAIN file.records : \E i \in DOMAIN insts' :
             /\ insts'[i].load = reads /\ insts'[i].made = r /\ insts'[i].filled = r
             /\ file.records[r].head.missing = {} /\ insts'[i].head.missing = {}
<1>1. ASSUME Base, PInv, Next PROVE Tells
  <2> SUFFICES ASSUME pc # "idle", pc' = "idle",
                      error' = SEVERITY_NULL, result' = SEVERITY_NULL
               PROVE  \A r \in DOMAIN file.records : \E i \in DOMAIN insts' :
                          /\ insts'[i].load = reads /\ insts'[i].made = r
                          /\ insts'[i].filled = r
                          /\ file.records[r].head.missing = {}
                          /\ insts'[i].head.missing = {}
    BY DEF Tells
  <2>1. SEVERITY_EXIT # SEVERITY_NULL /\ SEVERITY_INPUT_ERROR < SEVERITY_NULL
    BY DEF SEVERITY_EXIT, SEVERITY_NULL, SEVERITY_INPUT_ERROR
  <2>2. ~ReopenFails
    BY <1>1, <2>1 DEF ReopenFails, GreaterSeverity, Base, TInv, Others, Severities,
                      SEVERITY_INPUT_ERROR, SEVERITY_EXIT, SEVERITY_NULL
  <2>n. ~DataNotFound
    BY DEF DataNotFound, Finished, SEVERITY_INPUT_ERROR, SEVERITY_NULL
  <2>3. ~ReadInstance /\ ~NotRead
    BY <2>1 DEF ReadInstance, NotRead, GivenUp, InRecord
  <2>4. End2
    BY <1>1, <2>2, <2>n, <2>3 DEF Next, OpenFails, BeginFails, Begin, Requested, CanRead, Start1,
       CreateInstance, NotCreated, End1, Reopen, ChangeState, WriteWorkingFile, InRecord
  <2>5. pc = "pass2" /\ k > Len(file.records) /\ insts' = insts
    BY <2>4 DEF End2, manager
  <2>6. error = SEVERITY_NULL /\ entsInvalid = 0
    BY <1>1, <2>4 DEF End2, Lower, GreaterSeverity, SEVERITY_NULL, SEVERITY_WARNING, Base, TInv,
                Counted, Others, Severities, SEVERITY_EXIT
  <2>7. /\ Len(file.records) \in Nat /\ k \in Nat
        /\ DOMAIN file.records = 1..Len(file.records)
    BY <1>1 DEF Base, IInv, TypeInv
  <2> TAKE r \in DOMAIN file.records
  <2>8. PICK i \in DOMAIN insts : Loaded(i) /\ insts[i].made = r
    BY <1>1, <2>5, <2>6, <2>7 DEF PInv, AllMade, Made
  <2>9. /\ insts[i].filled = r /\ file.records[r].head.missing = {}
        /\ insts[i].head.missing = {}
    BY <1>1, <2>5, <2>6, <2>7, <2>8 DEF PInv, AllFilled
  <2> QED BY <2>5, <2>8, <2>9 DEF Loaded
<1>2. Spec => [][Tells]_vars
  <2>1. Base /\ PInv /\ [Next]_vars => [Tells]_vars
    BY <1>1
  <2> HIDE DEF Tells
  <2> QED BY <2>1, AlwaysBase, PTL DEF Spec
<1> QED BY <1>2 DEF ErrorTellsLoss, Tells

-----------------------------------------------------------------------------
(* Working sessions.  What was saved is what was written, and as long as the  *)
(* written file is read, the instances are those saved ones that survive.     *)

ValuesSaved(v) == [v EXCEPT !.refs = {saved[j].id : j \in v.refs}]

SavedRecord(s) ==
    [letter |-> SaveLetter(s.state), id |-> s.id, form |-> s.form,
     head |-> ValuesSaved(s.head), rest |-> ValuesSaved(s.rest)]

Saved ==
    /\ saved \in Seq(InstanceType)
    /\ \A i \in 1..Len(saved) : /\ References(saved[i]) \subseteq 1..Len(saved)
                                /\ saved[i].form \in {"simple", "complex"}
    /\ \A i, j \in 1..Len(saved) : saved[i].id = saved[j].id => i = j
    /\ written.keyword = IF saved = <<>> THEN "junk" ELSE "STEP_WORKING_SESSION"
    /\ Len(written.records) = Len(saved)
    /\ \A i \in 1..Len(saved) : written.records[i] = SavedRecord(saved[i])

Opened ==
    pc # "idle" => /\ file.keyword \in {"ISO-10303-21", "STEP_WORKING_SESSION"}
                   /\ fileType = TypeOfKeyword(file)

Deleted(n) == {i \in 1..n : saved[i].state = "deleteSE"}

Restoring ==
    /\ pc # "idle" /\ kind = "ReadWorkingFile" /\ file = written
    /\ Cardinality(Deleted(Len(saved))) <= MaxErrorCount

(* The instances are those of the first n that survive, in their order, and   *)
(* of the first n the references are right.                                   *)
SameAs(i, s) == insts[i].id = s.id /\ insts[i].state = s.state /\ insts[i].form = s.form

Picks(n) ==
    /\ \A i \in 1..Len(insts) : /\ insts[i].made \in 1..n
                                /\ Survives(saved[insts[i].made])
                                /\ SameAs(i, saved[insts[i].made])
    /\ \A i, j \in 1..Len(insts) : i < j => insts[i].made < insts[j].made
    /\ \A m \in 1..n : Survives(saved[m]) => \E i \in 1..Len(insts) : insts[i].made = m

Kept(s) == {saved[j].id : j \in {j \in References(s) : Survives(saved[j])}}

Refilled(n) ==
    \A i \in 1..Len(insts) : insts[i].made <= n =>
        {insts[j].id : j \in References(insts[i])} = Kept(saved[insts[i].made])

RInv ==
    Restoring =>
        /\ fileIdIncr = 0
        /\ pc = "start1" => insts = <<>>
        /\ pc = "pass1" => /\ k <= Len(saved) + 1 /\ Picks(k - 1)
                           /\ entsNotCreated = Cardinality(Deleted(k - 1))
        /\ pc \in {"reopen", "pass2"} => Picks(Len(saved))
        /\ pc = "pass2" => Refilled(k - 1)

SInv == Saved /\ Opened /\ RInv

(* A state comes back from its letter.                                        *)
LEMMA LetterOfState ==
    ASSUME NEW s \in States \ {"noStateSE"}
    PROVE  SaveLetter(s) # NoLetter /\ EntityWfState(SaveLetter(s)) = s
BY DEF States, SaveLetter, EntityWfState, NoLetter

(* The record that is read is that of the instance saved at its place.        *)
LEMMA SessionRecord ==
    ASSUME Base, Saved, Opened, Restoring, fileIdIncr = 0, k <= Len(file.records)
    PROVE  /\ Working /\ Len(file.records) = Len(saved) /\ k \in 1..Len(saved)
           /\ StateInPass1 = saved[k].state /\ StateInPass2 = saved[k].state
           /\ FileId = saved[k].id
           /\ Record.form = saved[k].form /\ Record.form \in {"simple", "complex"}
           /\ References(Record) = {saved[j].id : j \in References(saved[k])}
<1>1. k \in Nat \ {0} /\ Len(file.records) = Len(saved) /\ Len(saved) \in Nat
  BY DEF Base, IInv, TypeInv, Saved, Restoring
<1>2. k \in 1..Len(saved)
  BY <1>1
<1>3. Working
  <2>1. saved # <<>>
    BY <1>2
  <2>2. file.keyword = "STEP_WORKING_SESSION"
    BY <2>1 DEF Saved, Restoring
  <2> QED BY <2>2 DEF Opened, Restoring, TypeOfKeyword, Working
<1>4. Record = SavedRecord(saved[k])
  BY <1>2 DEF Record, Saved, Restoring
<1>5. saved[k] \in InstanceType
  BY <1>2 DEF Saved
<1>6. saved[k].state \in States \ {"noStateSE"} /\ saved[k].id \in Nat
  BY <1>5 DEF InstanceType
<1>r. References(Record) = {saved[j].id : j \in References(saved[k])}
  <2>1. saved[k].head \in Values /\ saved[k].rest \in Values
    BY <1>5 DEF InstanceType
  <2>2. /\ ValuesSaved(saved[k].head).refs = {saved[j].id : j \in saved[k].head.refs}
        /\ ValuesSaved(saved[k].rest).refs = {saved[j].id : j \in saved[k].rest.refs}
    BY <2>1 DEF ValuesSaved, Values
  <2>3. Record.head = ValuesSaved(saved[k].head) /\ Record.rest = ValuesSaved(saved[k].rest)
    BY <1>4 DEF SavedRecord
  <2> QED BY <2>2, <2>3 DEF References
<1>7. /\ Record.letter = SaveLetter(saved[k].state) /\ Record.id = saved[k].id
      /\ Record.form = saved[k].form
      /\ References(Record) = {saved[j].id : j \in References(saved[k])}
  BY <1>4, <1>r DEF SavedRecord
<1>8. StateInPass1 = saved[k].state /\ StateInPass2 = saved[k].state
  BY <1>3, <1>6, <1>7, LetterOfState DEF StateInPass1, StateInPass2
<1>9. FileId = saved[k].id
  BY <1>6, <1>7 DEF FileId
<1>10. Record.form \in {"simple", "complex"}
  BY <1>2, <1>7 DEF Saved
<1> QED BY <1>1, <1>2, <1>3, <1>7, <1>8, <1>9, <1>10

LEMMA InitSInv == Init => SInv
BY DEF Init, SInv, Saved, Opened, RInv, Restoring, NoFile

LEMMA OpenRestores ==
    ASSUME Base, SInv,
           \/ \E how \in Ways : OpenFails(how)
           \/ \E how \in Ways, f \in Files \cup {written} : BeginFails(f, how) \/ Begin(f, how)
    PROVE  SInv'
<1>1. UNCHANGED <<written, saved>>
  BY DEF OpenFails, BeginFails, Begin, Requested, session
<1>2. Saved'
  BY <1>1 DEF SInv, Saved, SavedRecord, ValuesSaved
<1>3. ASSUME \/ \E how \in Ways : OpenFails(how)
             \/ \E how \in Ways, f \in Files \cup {written} : BeginFails(f, how)
      PROVE  Opened' /\ RInv'
  <2>1. pc' = "idle"
    BY <1>3 DEF OpenFails, BeginFails, Requested, CanRead
  <2> QED BY <2>1 DEF Opened, RInv, Restoring
<1>4. ASSUME NEW how \in Ways, NEW f \in Files \cup {written}, Begin(f, how)
      PROVE  Opened' /\ RInv'
  <2>1. /\ pc' = "start1" /\ file' = f /\ fileType' = TypeOfKeyword(f) /\ kind' = how
        /\ f.keyword \in {"ISO-10303-21", "STEP_WORKING_SESSION"}
    BY <1>4 DEF Begin, Requested, NotReached
  <2>2. how = "ReadWorkingFile" => insts' = <<>> /\ fileIdIncr' = 0
    BY <1>4 DEF Begin, Requested, Cleared, Clears, IncrementFor, IncrementAbove
  <2>3. Opened'
    BY <2>1 DEF Opened, TypeOfKeyword
  <2> QED BY <2>1, <2>2, <2>3 DEF RInv, Restoring
<1> QED BY <1>2, <1>3, <1>4 DEF SInv

(* What is written is what there is.                                          *)
LEMMA WriteSaves == ASSUME Base, PInv, SInv, WriteWorkingFile PROVE SInv'
<1>1. /\ pc' = "idle" /\ saved' = insts /\ insts # <<>>
      /\ written'.keyword = "STEP_WORKING_SESSION"
      /\ written'.records = [j \in DOMAIN insts |-> RecordWritten(insts[j])]
  BY DEF WriteWorkingFile
<1>2. insts \in Seq(InstanceType) /\ DOMAIN insts = 1..Len(insts) /\ Len(insts) \in Nat
  BY DEF Base, IInv, TypeInv
<1>3. \A i \in 1..Len(insts) : /\ References(insts[i]) \subseteq 1..Len(insts)
                               /\ insts[i].form \in {"simple", "complex"}
  BY DEF Base, IInv, Listed, TInv, Formed
<1>4. \A i, j \in 1..Len(insts) : insts[i].id = insts[j].id => i = j
  BY <1>2 DEF PInv, DistinctIds
<1>5. Len(written'.records) = Len(insts)
  BY <1>1, <1>2
<1>6. \A i \in 1..Len(insts) : written'.records[i] = RecordWritten(insts[i])
  BY <1>1, <1>2
<1>7. \A i \in 1..Len(insts) : RecordWritten(insts[i]) = SavedRecord(saved[i])'
  BY <1>1 DEF RecordWritten, SavedRecord, ValuesWritten, ValuesSaved
<1>8. Saved'
  BY <1>1, <1>2, <1>3, <1>4, <1>5, <1>6, <1>7 DEF Saved
<1> QED BY <1>1, <1>8 DEF SInv, Opened, RInv, Restoring

(* The steps that neither open nor write.                                     *)
LEMMA SavedStays ==
    ASSUME SInv, UNCHANGED <<written, saved>>, UNCHANGED <<file, fileType>> \/ pc' = "idle",
           pc' # "idle" => pc # "idle"
    PROVE  Saved' /\ Opened'
BY DEF SInv, Saved, SavedRecord, ValuesSaved, Opened, TypeOfKeyword

(* One more of the deleted.                                                   *)
LEMMA DeletedCounted ==
    ASSUME Saved, NEW n \in Nat, n + 1 <= Len(saved)
    PROVE  /\ Cardinality(Deleted(0)) = 0
           /\ Cardinality(Deleted(n)) \in Nat /\ Cardinality(Deleted(n + 1)) \in Nat
           /\ Cardinality(Deleted(n + 1)) = Cardinality(Deleted(n)) +
                                            (IF saved[n + 1].state = "deleteSE" THEN 1 ELSE 0)
           /\ Cardinality(Deleted(Len(saved))) \in Nat
           /\ Cardinality(Deleted(n + 1)) <= Cardinality(Deleted(Len(saved)))
<1>1. ASSUME NEW m \in Nat PROVE IsFiniteSet(Deleted(m)) /\ Cardinality(Deleted(m)) \in Nat
  <2>1. IsFiniteSet(1..m)
    BY FS_Interval
  <2>2. Deleted(m) \in SUBSET (1..m)
    BY DEF Deleted
  <2>3. IsFiniteSet(Deleted(m))
    BY <2>1, <2>2, FS_Subset
  <2> QED BY <2>3, FS_CardinalityType
<1>2. Len(saved) \in Nat
  BY DEF Saved
<1>3. Cardinality(Deleted(0)) = 0
  <2>1. Deleted(0) = {}
    BY DEF Deleted
  <2> QED BY <2>1, FS_EmptySet
<1>4. ASSUME saved[n + 1].state = "deleteSE"
      PROVE  Cardinality(Deleted(n + 1)) = Cardinality(Deleted(n)) + 1
  <2>1. Deleted(n + 1) = Deleted(n) \cup {n + 1} /\ n + 1 \notin Deleted(n)
    BY <1>4 DEF Deleted
  <2>2. Cardinality(Deleted(n) \cup {n + 1}) = Cardinality(Deleted(n)) + 1
    BY <1>1, <2>1, FS_AddElement
  <2> QED BY <1>4, <2>1, <2>2
<1>5. ASSUME saved[n + 1].state # "deleteSE" PROVE Deleted(n + 1) = Deleted(n)
  BY <1>5 DEF Deleted
<1>6. Cardinality(Deleted(n + 1)) <= Cardinality(Deleted(Len(saved)))
  <2>1. Deleted(n + 1) \in SUBSET Deleted(Len(saved))
    BY <1>2 DEF Deleted
  <2> QED BY <1>1, <1>2, <2>1, FS_Subset
<1>7. n + 1 \in Nat
  OBVIOUS
<1>8. Cardinality(Deleted(n)) \in Nat /\ Cardinality(Deleted(n + 1)) \in Nat
  BY <1>1, <1>7
<1>9. Cardinality(Deleted(Len(saved))) \in Nat
  BY <1>1, <1>2
<1>10. Cardinality(Deleted(n + 1)) = Cardinality(Deleted(n)) +
                                   (IF saved[n + 1].state = "deleteSE" THEN 1 ELSE 0)
  <2>1. CASE saved[n + 1].state = "deleteSE"
    BY <1>4, <2>1
  <2>2. CASE saved[n + 1].state # "deleteSE"
    <3>1. Cardinality(Deleted(n + 1)) = Cardinality(Deleted(n))
      BY <1>5, <2>2
    <3> QED BY <1>8, <2>2, <3>1
  <2> QED BY <2>1, <2>2
<1> QED BY <1>3, <1>6, <1>8, <1>9, <1>10

(* What the last conjunct of Restoring bounds does not change during a read.  *)
LEMMA StillRestoring ==
    ASSUME Restoring', pc # "idle", UNCHANGED <<kind, file, written, saved>>
    PROVE  Restoring
BY DEF Restoring, Deleted

LEMMA BetweenRestores ==
    ASSUME Base, PInv, SInv, Start1 \/ End1 \/ Reopen
    PROVE  SInv'
<1>1. /\ pc # "idle" /\ pc' # "idle" /\ insts' = insts /\ fileIdIncr' = fileIdIncr
      /\ UNCHANGED <<kind, file, written, saved, fileType>>
  BY DEF Start1, End1, Reopen, manager, reading, session
<1>2. Saved' /\ Opened'
  BY <1>1, SavedStays
<1>3. k \in Nat \ {0} /\ Len(file.records) \in Nat /\ Len(saved) \in Nat
  BY DEF Base, IInv, TypeInv, SInv, Saved
<1>4. RInv'
  <2> SUFFICES ASSUME Restoring'
               PROVE  /\ fileIdIncr' = 0
                      /\ pc' = "start1" => insts' = <<>>
                      /\ pc' = "pass1" => /\ k' <= Len(saved') + 1 /\ Picks(k - 1)'
                                          /\ entsNotCreated' = Cardinality(Deleted(k - 1)')
                      /\ pc' \in {"reopen", "pass2"} => Picks(Len(saved))'
                      /\ pc' = "pass2" => Refilled(k - 1)'
    BY DEF RInv
  <2>1. Restoring /\ fileIdIncr' = 0 /\ Len(file.records) = Len(saved)
    BY <1>1, StillRestoring DEF SInv, RInv, Saved, Restoring
  <2>2. CASE Start1
    <3>1. pc' = "pass1" /\ k = 1 /\ k' = 1 /\ entsNotCreated' = 0 /\ insts = <<>>
      BY <2>1, <2>2 DEF Start1, Base, TInv, Sized, SInv, RInv
    <3>2. Picks(k - 1)'
      BY <1>1, <3>1 DEF Picks
    <3>3. Cardinality(Deleted(k - 1)') = 0
      <4>1. Deleted(k - 1)' = {}
        BY <3>1 DEF Deleted
      <4> QED BY <4>1, FS_EmptySet
    <3> QED BY <1>1, <1>3, <2>1, <3>1, <3>2, <3>3
  <2>3. CASE End1
    <3>1. /\ pc = "pass1" /\ pc' = "reopen" /\ k > Len(saved) /\ k <= Len(saved) + 1
          /\ Picks(k - 1)
      BY <2>1, <2>3 DEF End1, SInv, RInv
    <3>2. k - 1 = Len(saved)
      BY <1>3, <3>1
    <3>3. Picks(Len(saved))'
      BY <1>1, <3>1, <3>2 DEF Picks, SameAs
    <3> QED BY <2>1, <3>1, <3>3
  <2>4. CASE Reopen
    <3>1. pc = "reopen" /\ pc' = "pass2" /\ k' = 1 /\ Picks(Len(saved))
      BY <2>1, <2>4 DEF Reopen, SInv, RInv
    <3>2. Picks(Len(saved))'
      BY <1>1, <3>1 DEF Picks, SameAs
    <3>3. Refilled(k - 1)'
      BY <1>1, <1>3, <3>1 DEF Picks, Refilled
    <3> QED BY <2>1, <3>1, <3>2, <3>3
  <2> QED BY <2>2, <2>3, <2>4
<1> QED BY <1>2, <1>4 DEF SInv

(* A saved instance that survives gets an instance, a deleted one none.       *)
LEMMA SurvivorCreated ==
    ASSUME Base, SInv, Restoring, InRecord("pass1")
    PROVE  /\ Working /\ k \in 1..Len(saved) /\ StateInPass1 = saved[k].state
           /\ Record.form = saved[k].form /\ FileId = saved[k].id
           /\ CanCreate
<1>1. fileIdIncr = 0 /\ Picks(k - 1) /\ k <= Len(file.records) /\ k \in Nat
  BY DEF SInv, RInv, InRecord, Base, IInv, TypeInv
<1>2. /\ Working /\ k \in 1..Len(saved) /\ StateInPass1 = saved[k].state
      /\ FileId = saved[k].id /\ Record.form = saved[k].form
      /\ Record.form \in {"simple", "complex"}
  BY <1>1, SessionRecord DEF SInv
<1>3. FindFileId(FileId) = 0
  <2> SUFFICES ASSUME FindFileId(FileId) # 0 PROVE FALSE
    OBVIOUS
  <2>1. PICK i \in 1..Len(insts) : insts[i].id = FileId
    BY FoundIsListed DEF Base, IInv
  <2>2. insts[i].made \in 1..(k - 1) /\ saved[insts[i].made].id = saved[k].id
    BY <1>1, <1>2, <2>1 DEF Picks, SameAs
  <2>3. insts[i].made \in 1..Len(saved) /\ insts[i].made # k
    BY <1>1, <1>2, <2>2
  <2> QED BY <1>2, <2>2, <2>3 DEF SInv, Saved
<1> QED BY <1>2, <1>3 DEF CanCreate, IdTaken

LEMMA CreateRestores == ASSUME Base, PInv, SInv, CreateInstance PROVE SInv'
<1>1. /\ pc = "pass1" /\ pc' = "pass1" /\ InRecord("pass1") /\ k' = k + 1
      /\ UNCHANGED <<kind, file, written, saved, fileType, fileIdIncr, entsNotCreated>>
      /\ insts' = Append(insts, Instance(IF Working THEN StateInPass1 ELSE "newSE"))
      /\ ~(Working /\ StateInPass1 = "deleteSE")
  BY DEF CreateInstance, InRecord, reading, session, Create
<1>2. Saved' /\ Opened'
  BY <1>1, SavedStays
<1>3. ASSUME Restoring' PROVE k' <= Len(saved') + 1 /\ Picks(k - 1)'
                              /\ entsNotCreated' = Cardinality(Deleted(k - 1)')
                              /\ fileIdIncr' = 0
  <2>1. Restoring
    BY <1>1, <1>3, StillRestoring
  <2>2. /\ fileIdIncr = 0 /\ Picks(k - 1) /\ entsNotCreated = Cardinality(Deleted(k - 1))
    BY <1>1, <2>1 DEF SInv, RInv
  <2>3. /\ Working /\ k \in 1..Len(saved) /\ StateInPass1 = saved[k].state
        /\ Record.form = saved[k].form /\ FileId = saved[k].id /\ CanCreate
    BY <1>1, <2>1, SurvivorCreated
  <2>4. Len(saved) \in Nat /\ k \in Nat /\ k - 1 \in Nat /\ (k - 1) + 1 = k /\ k' - 1 = k
    BY <1>1, <2>3 DEF SInv, Saved
  <2>5. Survives(saved[k])
    BY <1>1, <2>3 DEF Survives
  <2> DEFINE x == Instance(StateInPass1)
  <2>6. x.id = saved[k].id /\ x.state = saved[k].state /\ x.form = saved[k].form /\ x.made = k
    BY <2>3 DEF Instance, CanCreate, IdTaken
  <2>7. insts' = Append(insts, x)
    BY <1>1, <2>3
  <2> HIDE DEF x
  <2>8. /\ Len(insts') = Len(insts) + 1 /\ Len(insts) \in Nat
        /\ \A p \in 1..Len(insts) : insts'[p] = insts[p]
        /\ insts'[Len(insts) + 1] = x
    BY <2>7 DEF Base, IInv, TypeInv
  <2>9. Picks(k - 1)'
    <3>1. ASSUME NEW i \in 1..Len(insts')
          PROVE  /\ insts'[i].made \in 1..k /\ Survives(saved[insts'[i].made])
                 /\ SameAs(i, saved[insts[i].made])'
                 /\ i # Len(insts) + 1 => insts'[i].made < k
      <4>1. CASE i = Len(insts) + 1
        BY <1>1, <2>3, <2>5, <2>6, <2>8, <4>1 DEF SameAs
      <4>2. CASE i \in 1..Len(insts)
        <5>1. insts[i].made \in 1..(k - 1) /\ Survives(saved[insts[i].made])
              /\ SameAs(i, saved[insts[i].made])
          BY <2>2, <4>2 DEF Picks
        <5> QED BY <1>1, <2>4, <2>8, <4>2, <5>1 DEF SameAs
      <4> QED BY <2>8, <4>1, <4>2
    <3>2. ASSUME NEW i \in 1..Len(insts'), NEW j \in 1..Len(insts'), i < j
          PROVE  insts'[i].made < insts'[j].made
      <4>1. CASE j = Len(insts) + 1
        BY <2>6, <2>8, <3>1, <3>2, <4>1
      <4>2. CASE j \in 1..Len(insts)
        BY <2>2, <2>8, <3>2, <4>2 DEF Picks
      <4> QED BY <2>8, <4>1, <4>2
    <3>3. ASSUME NEW m \in 1..k, Survives(saved[m])
          PROVE  \E i \in 1..Len(insts') : insts'[i].made = m
      <4>1. CASE m = k
        BY <2>6, <2>8, <4>1
      <4>2. CASE m \in 1..(k - 1)
        BY <2>2, <2>8, <3>3, <4>2 DEF Picks
      <4> QED BY <2>4, <4>1, <4>2
    <3> QED BY <1>1, <2>4, <3>1, <3>2, <3>3, Zenon DEF Picks, Survives
  <2>10. entsNotCreated' = Cardinality(Deleted(k - 1)')
    <3>1. saved[(k - 1) + 1].state # "deleteSE" /\ (k - 1) + 1 <= Len(saved)
      BY <1>1, <2>3, <2>4
    <3>2. /\ Cardinality(Deleted((k - 1) + 1)) = Cardinality(Deleted(k - 1)) + 0
          /\ Cardinality(Deleted(k - 1)) \in Nat
      BY <2>4, <3>1, DeletedCounted DEF SInv
    <3>3. Deleted(k - 1)' = Deleted((k - 1) + 1)
      BY <1>1, <2>4 DEF Deleted
    <3> QED BY <1>1, <2>2, <3>2, <3>3
  <2> QED BY <1>1, <2>2, <2>3, <2>4, <2>9, <2>10
<1>4. RInv'
  BY <1>1, <1>3 DEF RInv
<1> QED BY <1>2, <1>4 DEF SInv

LEMMA NotCreatedRestores == ASSUME Base, PInv, SInv, NotCreated PROVE SInv'
<1>1. /\ pc = "pass1" /\ InRecord("pass1") /\ k' = k + 1 /\ pc' # "idle"
      /\ UNCHANGED <<kind, file, written, saved, fileType, fileIdIncr, insts>>
      /\ (Working /\ StateInPass1 = "deleteSE") \/ ~CanCreate
      /\ entsNotCreated' = entsNotCreated + 1
      /\ Abort1 \/ pc' = "pass1"
  BY DEF NotCreated, InRecord, reading, session, manager
<1>2. Saved' /\ Opened'
  BY <1>1, SavedStays
<1>3. ASSUME Restoring' PROVE k' <= Len(saved') + 1 /\ Picks(k - 1)' /\ pc' = "pass1"
                              /\ entsNotCreated' = Cardinality(Deleted(k - 1)')
                              /\ fileIdIncr' = 0
  <2>1. Restoring
    BY <1>1, <1>3, StillRestoring
  <2>2. /\ fileIdIncr = 0 /\ Picks(k - 1) /\ entsNotCreated = Cardinality(Deleted(k - 1))
    BY <1>1, <2>1 DEF SInv, RInv
  <2>3. k \in 1..Len(saved) /\ saved[k].state = "deleteSE"
    BY <1>1, <2>1, SurvivorCreated
  <2>4. Len(saved) \in Nat /\ k \in Nat /\ k - 1 \in Nat /\ (k - 1) + 1 = k /\ k' - 1 = k
    BY <1>1, <2>3 DEF SInv, Saved
  <2>5. Picks(k - 1)'
    <3>1. ASSUME NEW i \in 1..Len(insts)
          PROVE  insts[i].made \in 1..k /\ Survives(saved[insts[i].made])
                 /\ SameAs(i, saved[insts[i].made])
      BY <2>2, <2>4 DEF Picks
    <3>2. \A i, j \in 1..Len(insts) : i < j => insts[i].made < insts[j].made
      BY <2>2 DEF Picks
    <3>3. ASSUME NEW m \in 1..k, Survives(saved[m])
          PROVE  \E i \in 1..Len(insts) : insts[i].made = m
      <4>1. m # k
        BY <2>3, <3>3 DEF Survives
      <4>2. m \in 1..(k - 1)
        BY <2>4, <4>1
      <4> QED BY <2>2, <3>3, <4>2 DEF Picks
    <3> QED BY <1>1, <2>4, <3>1, <3>2, <3>3, Zenon DEF Picks, SameAs
  <2>6. /\ Cardinality(Deleted((k - 1) + 1)) = Cardinality(Deleted(k - 1)) + 1
        /\ Cardinality(Deleted((k - 1) + 1)) <= Cardinality(Deleted(Len(saved)))
        /\ Cardinality(Deleted((k - 1) + 1)) \in Nat
        /\ Cardinality(Deleted(Len(saved))) \in Nat
    <3>1. saved[(k - 1) + 1].state = "deleteSE" /\ (k - 1) + 1 <= Len(saved)
      BY <2>3, <2>4
    <3> QED BY <2>4, <3>1, DeletedCounted DEF SInv
  <2>7. entsNotCreated' = Cardinality(Deleted(k - 1)')
    <3>1. Deleted(k - 1)' = Deleted((k - 1) + 1)
      BY <1>1, <2>4 DEF Deleted
    <3> QED BY <1>1, <2>2, <2>6, <3>1
  <2>8. ~Abort1
    <3>1. entsNotCreated' = Cardinality(Deleted((k - 1) + 1))
      BY <1>1, <2>2, <2>6
    <3>2. Cardinality(Deleted(Len(saved))) <= MaxErrorCount
      BY <2>1 DEF Restoring
    <3> QED BY <2>6, <3>1, <3>2, CountAssumption DEF Abort1
  <2> QED BY <1>1, <2>2, <2>3, <2>4, <2>5, <2>7, <2>8
<1>4. RInv'
  BY <1>1, <1>3 DEF RInv
<1> QED BY <1>2, <1>4 DEF SInv

(* The second pass finds the instance of a saved one by its id, and so does a *)
(* reference to it.                                                           *)
LEMMA FoundAgain ==
    ASSUME Base, Saved, Picks(Len(saved)), NEW q \in 1..Len(saved)
    PROVE  /\ FindFileId(saved[q].id) # 0 <=> Survives(saved[q])
           /\ FindFileId(saved[q].id) # 0 =>
                 /\ FindFileId(saved[q].id) \in 1..Len(insts)
                 /\ insts[FindFileId(saved[q].id)].id = saved[q].id
                 /\ insts[FindFileId(saved[q].id)].made = q
<1>1. ASSUME FindFileId(saved[q].id) # 0
      PROVE  /\ FindFileId(saved[q].id) \in 1..Len(insts)
             /\ insts[FindFileId(saved[q].id)].id = saved[q].id
             /\ insts[FindFileId(saved[q].id)].made = q
             /\ Survives(saved[q])
  <2> DEFINE i == FindFileId(saved[q].id)
  <2>1. i \in 1..Len(insts) /\ insts[i].id = saved[q].id
    BY <1>1, FoundIsListed DEF Base, IInv
  <2> HIDE DEF i
  <2>2. /\ insts[i].made \in 1..Len(saved) /\ Survives(saved[insts[i].made])
        /\ saved[insts[i].made].id = saved[q].id
    BY <2>1 DEF Picks, SameAs
  <2>3. insts[i].made = q
    BY <2>2 DEF Saved
  <2>4. Survives(saved[q])
    BY <2>2, <2>3
  <2> QED BY <2>1, <2>3, <2>4 DEF i
<1>2. ASSUME Survives(saved[q]) PROVE FindFileId(saved[q].id) # 0
  <2>1. PICK i \in 1..Len(insts) : insts[i].made = q
    BY <1>2 DEF Picks
  <2>2. insts[i].id = saved[q].id
    BY <2>1 DEF Picks, SameAs
  <2> QED BY <2>2, NotFound DEF Base, IInv
<1> QED BY <1>1, <1>2

(* What the references of record k lead to.                                   *)
LEMMA ReferencesKept ==
    ASSUME Base, Saved, Picks(Len(saved)), fileIdIncr = 0, k \in 1..Len(saved),
           References(Record) = {saved[j].id : j \in References(saved[k])}
    PROVE  {insts[j].id : j \in {Referenced(id) : id \in References(Record)} \ {0}} = Kept(saved[k])
<1>1. References(saved[k]) \subseteq 1..Len(saved)
  BY DEF Saved
<1>2. ASSUME NEW q \in References(saved[k]) PROVE Referenced(saved[q].id) = FindFileId(saved[q].id)
  <2>1. saved[q] \in InstanceType
    BY <1>1 DEF Saved
  <2>2. saved[q].id \in Nat
    BY <2>1 DEF InstanceType
  <2>3. saved[q].id + fileIdIncr = saved[q].id
    BY <2>2
  <2> QED BY <2>3 DEF Referenced
<1>3. ASSUME NEW j \in {Referenced(id) : id \in References(Record)} \ {0}
      PROVE  insts[j].id \in Kept(saved[k])
  <2>1. PICK q \in References(saved[k]) : j = Referenced(saved[q].id)
    BY <1>3
  <2>2. j = FindFileId(saved[q].id) /\ j # 0
    BY <1>2, <2>1
  <2>3. insts[j].id = saved[q].id /\ Survives(saved[q])
    BY <1>1, <2>2, FoundAgain
  <2> QED BY <2>3 DEF Kept
<1>4. ASSUME NEW v \in Kept(saved[k])
      PROVE  \E j \in {Referenced(id) : id \in References(Record)} \ {0} : v = insts[j].id
  <2>1. PICK q \in References(saved[k]) : Survives(saved[q]) /\ v = saved[q].id
    BY DEF Kept
  <2>2. /\ Referenced(saved[q].id) # 0
        /\ insts[Referenced(saved[q].id)].id = saved[q].id
    <3>1. FindFileId(saved[q].id) # 0
      BY <1>1, <2>1, FoundAgain
    <3>2. insts[FindFileId(saved[q].id)].id = saved[q].id
      BY <1>1, <3>1, FoundAgain
    <3> QED BY <1>2, <3>1, <3>2
  <2> QED BY <2>1, <2>2
<1> QED BY <1>3, <1>4

LEMMA ReadRestores == ASSUME Base, PInv, SInv, ReadInstance PROVE SInv'
<1>1. /\ pc = "pass2" /\ InRecord("pass2") /\ k' = k + 1 /\ ~SkippedInPass2 /\ Readable
      /\ pc' \in {"idle", "pass2"} /\ insts' = Filled
      /\ UNCHANGED <<kind, file, written, saved, fileIdIncr>>
      /\ pc' = "idle" \/ UNCHANGED fileType
  BY DEF ReadInstance, InRecord, reading, session, GivenUp, Finished
<1>2. Saved' /\ Opened'
  BY <1>1, SavedStays
<1>3. ASSUME Restoring'
      PROVE  fileIdIncr' = 0 /\ Picks(Len(saved))' /\ Refilled(k - 1)'
  <2>1. Restoring
    BY <1>1, <1>3, StillRestoring
  <2>2. fileIdIncr = 0 /\ Picks(Len(saved)) /\ Refilled(k - 1)
    BY <1>1, <2>1 DEF SInv, RInv
  <2>3. /\ Working /\ k \in 1..Len(saved) /\ Len(saved) \in Nat
        /\ StateInPass2 = saved[k].state /\ FileId = saved[k].id
        /\ References(Record) = {saved[j].id : j \in References(saved[k])}
    BY <1>1, <2>1, <2>2, SessionRecord DEF SInv, InRecord, Saved
  <2>4. Node \in 1..Len(insts) /\ insts[Node].made = k
    <3>1. FindFileId(saved[k].id) # 0
      BY <1>1, <2>3 DEF Readable, Node
    <3> QED BY <2>2, <2>3, <3>1, FoundAgain DEF SInv, Node
  <2>5. /\ DOMAIN insts = 1..Len(insts) /\ Len(insts) \in Nat
        /\ \A i \in 1..Len(insts) : References(insts[i]) \subseteq 1..Len(insts)
    BY DEF Base, IInv, TypeInv, Listed
  <2>6. Len(insts') = Len(insts)
    <3>1. DOMAIN insts' = 1..Len(insts)
      BY <1>1, <2>4, <2>5, FilledIs DEF Base, IInv
    <3>2. insts' \in Seq(InstanceType)
      BY ReadPreserves DEF Base, IInv, TypeInv
    <3> QED BY <2>5, <3>1, <3>2
  <2>7. /\ \A p \in 1..Len(insts) : p # Node => insts'[p] = insts[p]
        /\ insts'[Node].id = insts[Node].id /\ insts'[Node].form = insts[Node].form
        /\ insts'[Node].made = insts[Node].made /\ insts'[Node].state = StateAfter
    BY <1>1, <2>4, <2>5, FilledIs DEF Base, IInv
  <2>8. References(insts'[Node]) = {Referenced(id) : id \in References(Record)} \ {0}
    <3>1. insts[Node] \in InstanceType
      BY <2>4, InstanceTyped DEF Base, IInv
    <3>2. {"id", "state", "form", "load", "made", "filled", "head", "rest"} = DOMAIN insts[Node]
      BY <3>1 DEF InstanceType
    <3>3. Node \in DOMAIN insts
      BY <2>4, <2>5
    <3>4. /\ insts'[Node].head = ValuesRead(Record.head, IsStrict)
          /\ insts'[Node].rest = ValuesRead(Record.rest, IsStrict)
      BY <1>1, <3>2, <3>3, Zenon DEF Filled
    <3> QED BY <3>4, ReferencesRead
  <2>9. \A p \in 1..Len(insts) : insts'[p].id = insts[p].id /\ insts'[p].made = insts[p].made
    BY <2>7
  <2>10. \A p \in 1..Len(insts) : insts'[p].state = insts[p].state /\ insts'[p].form = insts[p].form
    BY <2>3, <2>7 DEF StateAfter
  <2>11. Picks(Len(saved))'
    <3>1. ASSUME NEW i \in 1..Len(insts)
          PROVE  /\ insts'[i].made \in 1..Len(saved) /\ Survives(saved'[insts'[i].made])
                 /\ SameAs(i, saved[insts[i].made])'
      BY <1>1, <2>2, <2>9, <2>10 DEF Picks, SameAs
    <3>2. \A i, j \in 1..Len(insts) : i < j => insts'[i].made < insts'[j].made
      BY <2>2, <2>9 DEF Picks
    <3>3. \A m \in 1..Len(saved) :
             Survives(saved'[m]) => \E i \in 1..Len(insts) : insts'[i].made = m
      BY <1>1, <2>2, <2>9 DEF Picks
    <3> QED BY <1>1, <2>6, <3>1, <3>2, <3>3, Zenon DEF Picks
  <2>12. \A i, j \in 1..Len(insts) : insts[i].made = insts[j].made => i = j
    <3>1. \A i \in 1..Len(insts) : insts[i].made \in 1..Len(saved)
      BY <2>2 DEF Picks
    <3>2. \A i, j \in 1..Len(insts) : i < j => insts[i].made < insts[j].made
      BY <2>2 DEF Picks
    <3> QED BY <2>3, <2>5, <3>1, <3>2
  <2>13. ASSUME NEW i \in 1..Len(insts), insts[i].made <= k
         PROVE  {insts'[j].id : j \in References(insts'[i])} = Kept(saved[insts[i].made])
    <3>1. CASE i = Node
      <4>1. {insts[j].id : j \in References(insts'[i])} = Kept(saved[k])
        BY <2>2, <2>3, <2>8, <3>1, ReferencesKept DEF SInv
      <4>2. References(insts'[i]) \subseteq 1..Len(insts)
        <5>1. ASSUME NEW id \in References(Record), Referenced(id) # 0
              PROVE  Referenced(id) \in 1..Len(insts)
          BY <5>1, FoundIsListed DEF Referenced, Base, IInv
        <5> QED BY <2>8, <3>1, <5>1
      <4>3. {insts'[j].id : j \in References(insts'[i])} =
               {insts[j].id : j \in References(insts'[i])}
        BY <2>9, <4>2
      <4> QED BY <2>4, <3>1, <4>1, <4>3
    <3>2. CASE i # Node
      <4>1. insts[i].made \in 1..Len(saved) /\ insts[i].made # k
        BY <2>2, <2>4, <2>12, <3>2 DEF Picks
      <4>2. insts[i].made <= k - 1
        BY <2>3, <2>13, <4>1
      <4>3. {insts[j].id : j \in References(insts[i])} = Kept(saved[insts[i].made])
        BY <2>2, <4>2 DEF Refilled
      <4>4. References(insts'[i]) = References(insts[i]) /\ References(insts[i]) \subseteq 1..Len(insts)
        BY <2>5, <2>7, <3>2
      <4>5. {insts'[j].id : j \in References(insts'[i])} =
               {insts[j].id : j \in References(insts[i])}
        BY <2>9, <4>4
      <4> QED BY <4>3, <4>5
    <3> QED BY <3>1, <3>2
  <2>14. Refilled(k - 1)'
    <3>1. k' - 1 = k
      BY <1>1, <2>3
    <3> SUFFICES ASSUME NEW i \in 1..Len(insts'), insts'[i].made <= k
                 PROVE  {insts'[j].id : j \in References(insts'[i])} = Kept(saved[insts[i].made])'
      BY <3>1, Zenon DEF Refilled
    <3>2. i \in 1..Len(insts) /\ insts'[i].made = insts[i].made
      BY <2>6, <2>9
    <3>3. {insts'[j].id : j \in References(insts'[i])} = Kept(saved[insts[i].made])
      BY <2>13, <3>2
    <3>4. Kept(saved[insts[i].made])' = Kept(saved[insts[i].made])
      <4>1. saved'[insts'[i].made] = saved[insts[i].made]
        BY <1>1, <3>2
      <4> QED BY <1>1, <4>1 DEF Kept, Survives
    <3> QED BY <3>3, <3>4
  <2> QED BY <1>1, <2>2, <2>11, <2>14
<1>4. RInv'
  BY <1>1, <1>3 DEF RInv
<1> QED BY <1>2, <1>4 DEF SInv

(* A record that is not read is that of a deleted one.                        *)
LEMMA NotReadRestores == ASSUME Base, PInv, SInv, NotRead PROVE SInv'
<1>1. /\ pc = "pass2" /\ InRecord("pass2") /\ k' = k + 1 /\ (SkippedInPass2 \/ ~Readable)
      /\ pc' \in {"idle", "pass2"}
      /\ UNCHANGED <<kind, file, written, saved, fileIdIncr, insts>>
      /\ pc' = "idle" \/ UNCHANGED fileType
  BY DEF NotRead, InRecord, reading, session, manager, GivenUp, Finished
<1>2. Saved' /\ Opened'
  BY <1>1, SavedStays
<1>3. ASSUME Restoring'
      PROVE  fileIdIncr' = 0 /\ Picks(Len(saved))' /\ Refilled(k - 1)'
  <2>1. Restoring
    BY <1>1, <1>3, StillRestoring
  <2>2. fileIdIncr = 0 /\ Picks(Len(saved)) /\ Refilled(k - 1)
    BY <1>1, <2>1 DEF SInv, RInv
  <2>3. /\ Working /\ k \in 1..Len(saved) /\ Len(saved) \in Nat
        /\ StateInPass2 = saved[k].state /\ FileId = saved[k].id
        /\ Record.form \in {"simple", "complex"}
    BY <1>1, <2>1, <2>2, SessionRecord DEF SInv, InRecord, Saved
  <2>4. ~Survives(saved[k])
    <3>1. CASE SkippedInPass2
      BY <2>3, <3>1 DEF SkippedInPass2, Survives
    <3>2. CASE ~Readable
      <4>1. FindFileId(saved[k].id) = 0
        BY <2>3, <3>2 DEF Readable, Node
      <4> QED BY <2>2, <2>3, <4>1, FoundAgain DEF SInv
    <3> QED BY <1>1, <3>1, <3>2
  <2>5. Picks(Len(saved))'
    BY <1>1, <2>2 DEF Picks, SameAs, Survives
  <2>6. ASSUME NEW i \in 1..Len(insts), insts[i].made <= k PROVE insts[i].made <= k - 1
    <3>1. insts[i].made \in 1..Len(saved) /\ insts[i].made # k
      BY <2>2, <2>4 DEF Picks
    <3> QED BY <2>3, <2>6, <3>1
  <2>7. Refilled(k - 1)'
    <3>1. k' - 1 = k
      BY <1>1, <2>3
    <3> SUFFICES ASSUME NEW i \in 1..Len(insts'), insts'[i].made <= k
                 PROVE  {insts'[j].id : j \in References(insts'[i])} = Kept(saved[insts[i].made])'
      BY <3>1, Zenon DEF Refilled
    <3>2. {insts[j].id : j \in References(insts[i])} = Kept(saved[insts[i].made])
      BY <1>1, <2>2, <2>6 DEF Refilled
    <3>3. Kept(saved[insts[i].made])' = Kept(saved[insts[i].made])
      BY <1>1 DEF Kept, Survives
    <3> QED BY <1>1, <3>2, <3>3
  <2> QED BY <1>1, <2>2, <2>5, <2>7
<1>4. RInv'
  BY <1>1, <1>3 DEF RInv
<1> QED BY <1>2, <1>4 DEF SInv

(* With nothing open there is nothing to say.                                 *)
LEMMA IdleRestores ==
    ASSUME SInv, \/ ReopenFails \/ DataNotFound \/ End2 \/ UNCHANGED vars
                 \/ \E i \in DOMAIN insts, s \in States \ {"noStateSE"} : ChangeState(i, s)
    PROVE  SInv'
<1>1. CASE UNCHANGED vars
  <2>1. UNCHANGED <<insts, pc, k, file, fileType, kind, fileIdIncr, entsNotCreated, written, saved>>
    BY <1>1 DEF vars, manager, reading, session, counts
  <2>2. Saved' /\ Opened'
    BY <2>1, SavedStays
  <2>3. \A n : Picks(n)' <=> Picks(n)
    BY <2>1 DEF Picks, SameAs, Survives
  <2>4. \A n : Refilled(n)' <=> Refilled(n)
    BY <2>1 DEF Refilled, Kept, Survives
  <2>5. \A n : Deleted(n)' = Deleted(n)
    BY <2>1 DEF Deleted
  <2>6. Restoring' => Restoring
    BY <2>1, <2>5 DEF Restoring
  <2>7. Picks(k - 1)' = Picks(k - 1) /\ Picks(Len(saved))' = Picks(Len(saved))
        /\ Refilled(k - 1)' = Refilled(k - 1) /\ Deleted(k - 1)' = Deleted(k - 1)
    BY <2>1 DEF Picks, SameAs, Survives, Refilled, Kept, Deleted
  <2> QED BY <2>1, <2>2, <2>6, <2>7 DEF SInv, RInv
<1>2. CASE ~(UNCHANGED vars)
  <2>1. pc' = "idle" /\ UNCHANGED <<written, saved>>
    BY <1>2 DEF ReopenFails, DataNotFound, End2, ChangeState, Finished, session
  <2>2. Saved' /\ Opened'
    BY <2>1, SavedStays
  <2> QED BY <2>1, <2>2 DEF SInv, RInv, Restoring
<1> QED BY <1>1, <1>2

LEMMA NextSInv == Base /\ PInv /\ SInv /\ [Next]_vars => SInv'
<1> SUFFICES ASSUME Base, PInv, SInv, [Next]_vars PROVE SInv'
  OBVIOUS
<1>1. CASE \/ \E how \in Ways : OpenFails(how)
           \/ \E how \in Ways, f \in Files \cup {written} : BeginFails(f, how) \/ Begin(f, how)
  BY <1>1, OpenRestores
<1>2. CASE Start1 \/ End1 \/ Reopen
  BY <1>2, BetweenRestores
<1>3. CASE CreateInstance
  BY <1>3, CreateRestores
<1>4. CASE NotCreated
  BY <1>4, NotCreatedRestores
<1>5. CASE ReadInstance
  BY <1>5, ReadRestores
<1>6. CASE NotRead
  BY <1>6, NotReadRestores
<1>7. CASE WriteWorkingFile
  BY <1>7, WriteSaves
<1>8. CASE \/ ReopenFails \/ DataNotFound \/ End2 \/ UNCHANGED vars
           \/ \E i \in DOMAIN insts, s \in States \ {"noStateSE"} : ChangeState(i, s)
  BY <1>8, IdleRestores
<1> QED BY <1>1, <1>2, <1>3, <1>4, <1>5, <1>6, <1>7, <1>8 DEF Next

(* Those that survive, in their order, are what Filter takes of the saved.    *)
LEMMA SurvivorsFiltered ==
    ASSUME Base, Saved, Picks(Len(saved))
    PROVE  Filter(saved, {s \in ToSet(saved) : Survives(s)}) =
               [i \in 1..Len(insts) |-> saved[insts[i].made]]
<1> DEFINE S == {s \in ToSet(saved) : Survives(s)}
           t == [i \in 1..Len(insts) |-> saved[insts[i].made]]
           f == [i \in 1..Len(insts) |-> insts[i].made]
<1>1. /\ Len(insts) \in Nat /\ saved \in Seq(InstanceType)
      /\ \A i \in 1..Len(insts) : insts[i].made \in 1..Len(saved) /\ Survives(saved[insts[i].made])
  BY DEF Base, IInv, TypeInv, Saved, Picks
<1>2. t \in Seq(InstanceType) /\ Len(t) = Len(insts)
  BY <1>1
<1>3. \A m \in 1..Len(saved) : saved[m] \in S <=> Survives(saved[m])
  BY <1>1 DEF ToSet
<1>4. f \in [1..Len(t) -> 1..Len(saved)]
  BY <1>1, <1>2
<1>5. Increasing(f, Len(t))
  BY <1>2 DEF Increasing, Picks
<1>6. \A i \in 1..Len(t) : t[i] = saved[f[i]] /\ saved[f[i]] \in S
  BY <1>1, <1>2, <1>3
<1>7. \A m \in 1..Len(saved) : saved[m] \in S => \E i \in 1..Len(t) : f[i] = m
  BY <1>2, <1>3 DEF Picks
<1> HIDE DEF S, t, f
<1>8. Enumerates(f, t, saved, S, Len(saved))
  BY <1>4, <1>5, <1>6, <1>7 DEF Enumerates
<1>9. Filter(saved, S) = t
  BY <1>1, <1>2, <1>8, FilterIs
<1> QED BY <1>9 DEF S, t

(* A working session that is written and read comes back: the instances that  *)
(* were not marked for deletion, in their order, with their ids, states,      *)
(* kinds and references (WriteWorkingData, ReadData1, ReadData2), whatever    *)
(* was read before and however many instances there are.                      *)
THEOREM SessionComesBack == Spec => SessionRestored
<1> DEFINE Deletions == {i \in DOMAIN saved : saved[i].state = "deleteSE"}
           Survivors == Filter(saved, {i \in ToSet(saved) : Survives(i)})
           Back ==
             /\ Completed /\ kind = "ReadWorkingFile" /\ file = written
             /\ Cardinality({i \in DOMAIN saved : saved[i].state = "deleteSE"}) <= MaxErrorCount
             => LET kept == Filter(saved, {i \in ToSet(saved) : Survives(i)})
                IN  /\ Len(insts') = Len(kept)
                    /\ \A i \in DOMAIN kept : Restored(insts'[i], kept[i], insts')
<1>1. ASSUME Base, PInv, SInv, Next PROVE Back
  <2> SUFFICES ASSUME Completed, kind = "ReadWorkingFile", file = written,
                      Cardinality(Deletions) <= MaxErrorCount
               PROVE  /\ Len(insts') = Len(Survivors)
                      /\ \A i \in DOMAIN Survivors : Restored(insts'[i], Survivors[i], insts')
    OBVIOUS
  <2>1. pc = "pass2" /\ k > Len(file.records) /\ pc' = "idle"
    BY DEF Completed
  <2>2. /\ Len(file.records) \in Nat /\ k \in Nat /\ Len(saved) \in Nat /\ Len(insts) \in Nat
        /\ Len(file.records) = Len(saved) /\ DOMAIN saved = 1..Len(saved)
    BY <1>1 DEF Base, IInv, TypeInv, SInv, Saved
  <2>3. insts' = insts
    BY <1>1, <2>1, <2>2 DEF Next, OpenFails, BeginFails, Begin, Requested, CanRead, Start1,
       CreateInstance, NotCreated, End1, Reopen, ReopenFails, DataNotFound,
           ReadInstance, NotRead, End2,
       ChangeState, WriteWorkingFile, InRecord, manager
  <2>4. Restoring
    <3>1. Deletions = Deleted(Len(saved))
      BY <2>2 DEF Deleted
    <3> QED BY <2>1, <3>1 DEF Restoring
  <2>5. Picks(Len(saved)) /\ Refilled(k - 1)
    BY <1>1, <2>1, <2>4 DEF SInv, RInv
  <2>6. Survivors = [i \in 1..Len(insts) |-> saved[insts[i].made]]
    BY <1>1, <2>5, SurvivorsFiltered DEF SInv
  <2> HIDE DEF Survivors, Deletions
  <2>7. Len(Survivors) = Len(insts)
    BY <2>2, <2>6
  <2>8. ASSUME NEW i \in DOMAIN Survivors PROVE Restored(insts[i], Survivors[i], insts)
    <3>1. i \in 1..Len(insts) /\ Survivors[i] = saved[insts[i].made]
      BY <2>6
    <3>2. SameAs(i, saved[insts[i].made]) /\ insts[i].made \in 1..Len(saved)
      BY <2>5, <3>1 DEF Picks
    <3>3. insts[i].made <= k - 1
      BY <2>1, <2>2, <3>2
    <3>4. {insts[j].id : j \in References(insts[i])} = Kept(saved[insts[i].made])
      BY <2>5, <3>1, <3>3 DEF Refilled
    <3> QED BY <3>1, <3>2, <3>4 DEF Restored, SameAs, Kept
  <2> QED BY <2>3, <2>7, <2>8
<1>2. Spec => [](Base /\ PInv /\ SInv)
  <2>1. Base /\ PInv /\ SInv /\ [Next]_vars => SInv'
    BY NextSInv
  <2> QED BY <2>1, AlwaysBase, InitSInv, PTL DEF Spec
<1>3. Spec => [][Back]_vars
  <2>1. Base /\ PInv /\ SInv /\ [Next]_vars => [Back]_vars
    BY <1>1
  <2> HIDE DEF Back
  <2> QED BY <1>2, <2>1, PTL DEF Spec
<1>4. [][Back]_vars <=> SessionRestored
  BY DEF SessionRestored
<1> HIDE DEF Back
<1> QED BY <1>3, <1>4, PTL

-----------------------------------------------------------------------------
(* The header.  Ids are numbers, and 1, 2, 3 stand for the required entities. *)

(* The provers do not know that a string is in STRING.                        *)
Names == STRING \cup {Required[n] : n \in 1..3}
Entry == [entity : Names, id : Int]

Rightly(h) ==
    \A p \in 1..Len(h) : /\ h[p].id >= 1
                         /\ \A n \in 1..3 : h[p].id = n => h[p].entity = Required[n]

Good(h) == Rightly(h) /\ \A n \in 1..3 : HasId(h, n)

LEMMA RequiredAre ==
    /\ \A n \in 1..3 : IsRequired(Required[n]) /\ HeaderId(Required[n], 0) = n
    /\ \A n \in 1..3 : Required[n] \in Names /\ Required[n] # "UNKNOWN"
    /\ \A m, n \in 1..3 : Required[m] = Required[n] => m = n
    /\ \A e, next : IF IsRequired(e) THEN \E n \in 1..3 : e = Required[n] /\ HeaderId(e, next) = n
                                     ELSE HeaderId(e, next) = next
<1>1. \A m \in 1..3 : m = 1 \/ m = 2 \/ m = 3
  OBVIOUS
<1>2. \A m, n \in 1..3 : Required[m] = Required[n] => m = n
  BY <1>1 DEF Required
<1>3. \A n \in 1..3 : Required[n] \in Names /\ Required[n] # "UNKNOWN"
  <2>1. \A n \in 1..3 : Required[n] \in Names
    BY DEF Names
  <2>2. \A n \in 1..3 : Required[n] # "UNKNOWN"
    BY <1>1 DEF Required
  <2> QED BY <2>1, <2>2
<1>4. \A n \in 1..3 : IsRequired(Required[n]) /\ HeaderId(Required[n], 0) = n
  BY <1>2 DEF IsRequired, HeaderId
<1>5. ASSUME NEW e, NEW next, IsRequired(e)
      PROVE  \E n \in 1..3 : e = Required[n] /\ HeaderId(e, next) = n
  <2>1. PICK n \in 1..3 : e = Required[n]
    BY <1>5 DEF IsRequired
  <2>2. HeaderId(e, next) = n
    BY <1>2, <1>5, <2>1 DEF HeaderId
  <2> QED BY <2>1, <2>2
<1>6. ASSUME NEW e, NEW next, ~IsRequired(e) PROVE HeaderId(e, next) = next
  BY <1>6 DEF HeaderId
<1> QED BY <1>2, <1>3, <1>4, <1>5, <1>6

(* The largest id is a number, and no id is above it.                         *)
LargestId(h) == MaxId(h) \in Int /\ \A p \in 1..Len(h) : h[p].id <= MaxId(h)

LEMMA LargestIs == ASSUME NEW h \in Seq(Entry) PROVE LargestId(h)
<1>1. CASE h = <<>>
  BY <1>1 DEF LargestId, MaxId
<1>2. CASE h # <<>>
  <2> DEFINE N == {n \in Nat : n + 1 \in 1..Len(h) =>
                      \E p \in 1..(n + 1) : \A q \in 1..(n + 1) : h[q].id <= h[p].id}
             S == {h[i].id : i \in DOMAIN h}
  <2>1. \A p \in 1..Len(h) : h[p].id \in Int
    <3>1. \A p \in 1..Len(h) : h[p] \in Entry
      OBVIOUS
    <3> QED BY <3>1 DEF Entry
  <2>2. Len(h) \in Nat /\ Len(h) # 0 /\ DOMAIN h = 1..Len(h)
    BY <1>2
  <2>3. 0 \in N
    <3>1. \A q \in 1..(0 + 1) : q = 1
      OBVIOUS
    <3> QED BY <2>1, <3>1
  <2>4. ASSUME NEW n \in Nat, n \in N PROVE n + 1 \in N
    <3> SUFFICES ASSUME (n + 1) + 1 \in 1..Len(h)
                 PROVE  \E p \in 1..((n + 1) + 1) : \A q \in 1..((n + 1) + 1) : h[q].id <= h[p].id
      OBVIOUS
    <3>1. n + 1 \in 1..Len(h)
      OBVIOUS
    <3>2. PICK p \in 1..(n + 1) : \A q \in 1..(n + 1) : h[q].id <= h[p].id
      BY <2>4, <3>1
    <3> HIDE DEF N
    <3> DEFINE m == (n + 1) + 1
    <3>3. m \in 1..m /\ p \in 1..m /\ p \in 1..Len(h) /\ m \in 1..Len(h)
      BY <3>1
    <3>4. \A q \in 1..m : q \in 1..(n + 1) \/ q = m
      OBVIOUS
    <3> HIDE DEF m
    <3>5. CASE h[m].id <= h[p].id
      BY <3>2, <3>3, <3>4, <3>5 DEF m
    <3>6. CASE ~(h[m].id <= h[p].id)
      <4>1. \A q \in 1..(n + 1) : q \in 1..Len(h)
        BY <3>1
      <4>2. ASSUME NEW q \in 1..m PROVE h[q].id <= h[m].id
        <5>1. h[p].id \in Int /\ h[m].id \in Int
          BY <2>1, <3>3
        <5>2. CASE q = m
          BY <5>1, <5>2
        <5>3. CASE q \in 1..(n + 1)
          <6>1. h[q].id \in Int /\ h[q].id <= h[p].id
            BY <2>1, <3>2, <4>1, <5>3
          <6> QED BY <3>6, <5>1, <6>1
        <5> QED BY <3>4, <5>2, <5>3
      <4> QED BY <3>3, <4>2 DEF m
    <3> QED BY <3>5, <3>6
  <2>5. Len(h) - 1 \in N
    <3> HIDE DEF N
    <3>1. Nat \subseteq N
      BY <2>3, <2>4, Induction
    <3> QED BY <2>2, <3>1
  <2>6. PICK p \in 1..Len(h) : \A q \in 1..Len(h) : h[q].id <= h[p].id
    BY <2>2, <2>5
  <2> HIDE DEF N
  <2>7. h[p].id \in S /\ \A y \in S : h[p].id >= y
    BY <2>1, <2>2, <2>6
  <2>8. Max(S) \in S /\ \A y \in S : Max(S) >= y
    BY <2>7 DEF Max
  <2>9. MaxId(h) = Max(S)
    BY <1>2 DEF MaxId
  <2>10. MaxId(h) \in Int
    BY <2>1, <2>2, <2>8, <2>9
  <2>11. \A q \in 1..Len(h) : h[q].id <= MaxId(h)
    BY <2>1, <2>2, <2>8, <2>9, <2>10
  <2> QED BY <2>10, <2>11 DEF LargestId
<1> QED BY <1>1, <1>2

(* What an entity brings about when it is appended.                           *)
Appended(h, e, id) ==
    LET g == HeaderAppended(h, e, id)
    IN  /\ g \in Seq(Entry) /\ Len(g) = Len(h) + 1
        /\ \A p \in 1..Len(h) : g[p] = h[p]
        /\ g[Len(h) + 1].entity = e
        /\ IF HasId(h, id) THEN \A p \in 1..Len(h) : h[p].id < g[Len(h) + 1].id
                           ELSE g[Len(h) + 1].id = id

LEMMA AppendedIs ==
    ASSUME NEW h \in Seq(Entry), NEW e \in Names, NEW id \in Int
    PROVE  Appended(h, e, id)
<1> DEFINE new == IF HasId(h, id) THEN MaxId(h) + 1 ELSE id
           x   == [entity |-> e, id |-> new]
<1>1. MaxId(h) \in Int /\ \A p \in 1..Len(h) : h[p].id <= MaxId(h)
  BY LargestIs DEF LargestId
<1>2. HeaderAppended(h, e, id) = Append(h, x)
  BY DEF HeaderAppended
<1>3. x \in Entry /\ x.entity = e /\ x.id = new /\ new \in Int
  BY <1>1 DEF Entry
<1>4. HasId(h, id) => \A p \in 1..Len(h) : h[p].id < new
  <2>1. \A p \in 1..Len(h) : h[p] \in Entry
    OBVIOUS
  <2> QED BY <1>1, <2>1 DEF Entry
<1>5. ~HasId(h, id) => new = id
  OBVIOUS
<1> HIDE DEF x, new
<1>6. /\ Append(h, x) \in Seq(Entry) /\ Len(Append(h, x)) = Len(h) + 1
      /\ \A p \in 1..Len(h) : Append(h, x)[p] = h[p]
      /\ Append(h, x)[Len(h) + 1] = x
  BY <1>3
<1> QED BY <1>2, <1>3, <1>4, <1>5, <1>6, Zenon DEF Appended

(* Only entities up to the length of the header are read.                     *)
LEMMA ReadWithin == ASSUME NEW s \in Seq(Names) PROVE EntitiesRead(s) \in 0..Len(s)
<1> DEFINE user == {i \in DOMAIN s : s[i] = "!USER"}
<1>1. Len(s) \in Nat /\ DOMAIN s = 1..Len(s)
  OBVIOUS
<1>2. CASE user = {}
  BY <1>1, <1>2 DEF EntitiesRead
<1>3. CASE user # {}
  <2>1. user \in SUBSET Nat
    BY <1>1
  <2> HIDE DEF user
  <2>2. \E m \in user : \A n \in user : m <= n
    BY <1>3, <2>1, LeastNumber
  <2>3. Min(user) \in user
    BY <2>2 DEF Min
  <2>4. Min(user) \in 1..Len(s)
    BY <1>1, <2>3 DEF user
  <2>5. EntitiesRead(s) = Min(user) - 1
    BY <1>3 DEF EntitiesRead, user
  <2> QED BY <1>1, <2>4, <2>5
<1> QED BY <1>2, <1>3

Reading == Seq(Entry) \X Int

LEMMA EntityReadTyped ==
    ASSUME NEW acc \in Reading, NEW e \in Names
    PROVE  EntityRead(acc, e) \in Reading
<1>1. acc[1] \in Seq(Entry) /\ acc[2] \in Int
  BY DEF Reading
<1>2. HeaderId(e, acc[2] + 1) \in Int
  BY <1>1, RequiredAre
<1>3. HeaderAppended(acc[1], e, HeaderId(e, acc[2] + 1)) \in Seq(Entry)
  BY <1>1, <1>2, AppendedIs DEF Appended
<1>4. EntityRead(acc, e) =
        IF e = "UNKNOWN" THEN acc
        ELSE <<HeaderAppended(acc[1], e, HeaderId(e, acc[2] + 1)),
               IF IsRequired(e) THEN acc[2] ELSE acc[2] + 1>>
  BY DEF EntityRead
<1> QED BY <1>1, <1>3, <1>4 DEF Reading

(* Reading a header takes one entity after another.                           *)
ReadsOn(r, s, next) ==
    LET upTo == EntitiesRead(s)
    IN  /\ r[0] = <<<<>>, next>>
        /\ \A i \in Nat : i + 1 \in 1..upTo => r[i + 1] = EntityRead(r[i], s[i + 1])
        /\ HeaderRead(s, next) = r[upTo]

LEMMA HeaderReadsOn ==
    ASSUME NEW s \in Seq(Names), NEW next \in Int
    PROVE  \E r : ReadsOn(r, s, next)
<1> DEFINE upTo == EntitiesRead(s)
           v == <<<<>>, next>>
           here(i) == i + 1 \in 1..upTo
           step == [p \in Nat \X Reading |->
                       IF here(p[1]) THEN EntityRead(p[2], s[p[1] + 1]) ELSE p[2]]
           rule(h) == [i \in 0..upTo |->
                          IF i = 0 THEN v ELSE EntityRead(h[i - 1], s[i])]
           read == CHOOSE h : h = rule(h)
<1>0. upTo \in Nat /\ upTo <= Len(s) /\ Len(s) \in Nat
  <2>1. upTo \in 0..Len(s)
    BY ReadWithin
  <2> HIDE DEF upTo
  <2> QED BY <2>1
<1> HIDE DEF upTo
<1>1. step \in StepFunctions(Reading)
  <2>1. ASSUME NEW p \in Nat \X Reading
        PROVE  (IF here(p[1]) THEN EntityRead(p[2], s[p[1] + 1]) ELSE p[2]) \in Reading
    <3>1. p[1] \in Nat /\ p[2] \in Reading
      OBVIOUS
    <3>2. here(p[1]) => s[p[1] + 1] \in Names
      BY <1>0, <3>1
    <3> HIDE DEF here
    <3>3. here(p[1]) => EntityRead(p[2], s[p[1] + 1]) \in Reading
      BY <3>1, <3>2, EntityReadTyped
    <3> QED BY <3>1, <3>3
  <2> QED BY <2>1 DEF StepFunctions
<1>2. PICK g \in [Nat -> Reading] : g[0] = v /\ \A i \in Nat : g[i + 1] = step[<<i, g[i]>>]
  <2>0. <<>> \in Seq(Entry)
    OBVIOUS
  <2>1. v \in Reading
    BY <2>0, Zenon DEF Reading
  <2> HIDE DEF step, v
  <2>2. GoesOn(Reading, v, step)
    BY <1>1, <2>1, Recursion, Zenon
  <2> QED BY <2>2 DEF GoesOn
<1>3. \A i \in Nat : here(i) => g[i + 1] = EntityRead(g[i], s[i + 1])
  BY <1>2
<1> HIDE DEF step
<1>4. \E h : h = rule(h)
  <2> DEFINE r == [i \in 0..upTo |-> g[i]]
  <2>1. ASSUME NEW i \in 0..upTo
        PROVE  r[i] = IF i = 0 THEN v ELSE EntityRead(r[i - 1], s[i])
    <3>1. CASE i = 0
      BY <1>2, <3>1
    <3>2. CASE i # 0
      <4>1. i - 1 \in Nat /\ i = (i - 1) + 1 /\ here(i - 1) /\ i - 1 \in 0..upTo
        BY <1>0, <3>2
      <4>2. r[i] = g[i] /\ r[i - 1] = g[i - 1]
        BY <4>1
      <4> HIDE DEF r
      <4> QED BY <1>3, <3>2, <4>1, <4>2
    <3> QED BY <3>1, <3>2
  <2>2. r = rule(r)
    <3>1. r = [i \in 0..upTo |-> r[i]]
      OBVIOUS
    <3> HIDE DEF r
    <3> QED BY <2>1, <3>1
  <2> QED BY <2>2
<1>5. read = rule(read)
  BY <1>4
<1> HIDE DEF read
<1>6. ASSUME NEW i \in 0..upTo PROVE read[i] = IF i = 0 THEN v ELSE EntityRead(read[i - 1], s[i])
  BY <1>5
<1>7. read[0] = v
  BY <1>0, <1>6
<1>8. ASSUME NEW i \in Nat, i + 1 \in 1..upTo PROVE read[i + 1] = EntityRead(read[i], s[i + 1])
  <2>1. i + 1 \in 0..upTo /\ i + 1 # 0 /\ (i + 1) - 1 = i
    BY <1>8
  <2> QED BY <1>6, <2>1
<1>9. HeaderRead(s, next) = read[upTo]
  BY DEF HeaderRead, read, rule, upTo
<1> QED BY <1>7, <1>8, <1>9 DEF ReadsOn, upTo

(* What has been read of the first i entities.                                *)
HeaderTo(acc, s, i) ==
    /\ acc[2] >= 5
    /\ Rightly(acc[1])
    /\ \A n \in 1..3 : HasId(acc[1], n) <=> \E m \in 1..i : s[m] = Required[n]

LEMMA EntityReads ==
    ASSUME NEW s \in Seq(Names), RepeatedLate(s), NEW i \in Nat, i + 1 \in 1..Len(s),
           NEW acc \in Reading, HeaderTo(acc, s, i)
    PROVE  HeaderTo(EntityRead(acc, s[i + 1]), s, i + 1)
<1> DEFINE e == s[i + 1]
           h == acc[1]
           id == HeaderId(e, acc[2] + 1)
           g == HeaderAppended(h, e, id)
           met(n, j) == \E m \in 1..j : s[m] = Required[n]
<1>1. /\ h \in Seq(Entry) /\ acc[2] \in Int /\ acc[2] >= 5 /\ Len(h) \in Nat
      /\ e \in Names /\ DOMAIN s = 1..Len(s) /\ Len(s) \in Nat /\ DOMAIN h = 1..Len(h)
  BY DEF Reading, HeaderTo
<1>2. /\ \A p \in 1..Len(h) : h[p].id \in Int /\ h[p].id >= 1
      /\ \A p \in 1..Len(h) : \A n \in 1..3 : h[p].id = n => h[p].entity = Required[n]
  <2>1. \A p \in 1..Len(h) : h[p] \in Entry
    BY <1>1
  <2> QED BY <2>1 DEF HeaderTo, Rightly, Entry
<1>3. \A n \in 1..3 : HasId(h, n) <=> met(n, i)
  BY DEF HeaderTo
<1>4. \A n \in 1..3 : met(n, i + 1) <=> met(n, i) \/ e = Required[n]
  <2>1. \A m \in 1..(i + 1) : m \in 1..i \/ m = i + 1
    OBVIOUS
  <2>2. i + 1 \in 1..(i + 1) /\ \A m \in 1..i : m \in 1..(i + 1)
    OBVIOUS
  <2> QED BY <2>1, <2>2
<1>5. CASE e = "UNKNOWN"
  <2>1. EntityRead(acc, e) = acc
    BY <1>5 DEF EntityRead
  <2>2. \A n \in 1..3 : e # Required[n]
    BY <1>5, RequiredAre
  <2>3. \A n \in 1..3 : HasId(h, n) <=> met(n, i + 1)
    BY <1>3, <1>4, <2>2
  <2> QED BY <2>1, <2>3 DEF HeaderTo
<1>6. CASE e # "UNKNOWN"
  <2>1. EntityRead(acc, e) = <<g, IF IsRequired(e) THEN acc[2] ELSE acc[2] + 1>>
    BY <1>6 DEF EntityRead
  <2>2. id \in Int
    BY <1>1, RequiredAre
  <2>3. /\ g \in Seq(Entry) /\ Len(g) = Len(h) + 1
        /\ \A p \in 1..Len(h) : g[p] = h[p]
        /\ g[Len(h) + 1].entity = e
        /\ HasId(h, id) => \A p \in 1..Len(h) : h[p].id < g[Len(h) + 1].id
        /\ ~HasId(h, id) => g[Len(h) + 1].id = id
    <3>1. Appended(h, e, id)
      <4> HIDE DEF h, e, id
      <4> QED BY <1>1, <2>2, AppendedIs
    <3> QED BY <3>1 DEF Appended
  <2> DEFINE x == g[Len(h) + 1]
  <2>4. x.id \in Int
    <3>1. x \in Entry
      BY <1>1, <2>3
    <3> QED BY <3>1 DEF Entry
  <2>5. \A n \in Int : HasId(g, n) <=> HasId(h, n) \/ x.id = n
    <3>1. DOMAIN g = 1..(Len(h) + 1)
      BY <1>1, <2>3
    <3>2. \A p \in 1..(Len(h) + 1) : p \in 1..Len(h) \/ p = Len(h) + 1
      BY <1>1
    <3>3. Len(h) + 1 \in 1..(Len(h) + 1) /\ \A p \in 1..Len(h) : p \in 1..(Len(h) + 1)
      BY <1>1
    <3> HIDE DEF h, g
    <3> QED BY <1>1, <2>3, <3>1, <3>2, <3>3 DEF HasId
  <2> HIDE DEF h, g, e, id
  (* It is the first of its entity and gets its id, or its id is above 3.     *)
  <2>6. \/ x.id > 3 /\ (IsRequired(e) => \A n \in 1..3 : met(n, i))
           /\ (~IsRequired(e) => \A n \in 1..3 : e # Required[n])
        \/ \E n \in 1..3 : e = Required[n] /\ x.id = n
    <3>1. CASE IsRequired(e)
      <4>1. PICK n \in 1..3 : e = Required[n] /\ id = n
        BY <3>1, RequiredAre DEF id
      <4>2. CASE HasId(h, id)
        <5>1. PICK m \in 1..i : s[m] = Required[n]
          BY <1>3, <4>1, <4>2
        <5>2. m \in DOMAIN s /\ i + 1 \in DOMAIN s /\ m < i + 1 /\ s[m] = s[i + 1]
              /\ IsRequired(s[m])
          BY <1>1, <3>1, <4>1, <5>1 DEF e
        <5>3. \A q \in 1..3 : \E l \in DOMAIN s : l < i + 1 /\ s[l] = Required[q]
          BY <5>2 DEF RepeatedLate
        <5>4. \A q \in 1..3 : met(q, i)
          BY <1>1, <5>3
        <5>5. HasId(h, 3)
          BY <1>3, <5>4
        <5>6. PICK p \in 1..Len(h) : h[p].id = 3
          BY <1>1, <5>5 DEF HasId
        <5>7. 3 < x.id
          BY <2>3, <4>2, <5>6
        <5> QED BY <2>4, <3>1, <5>4, <5>7
      <4>3. CASE ~HasId(h, id)
        BY <2>3, <4>1, <4>3
      <4> QED BY <4>2, <4>3
    <3>2. CASE ~IsRequired(e)
      <4>1. id = acc[2] + 1
        BY <3>2, RequiredAre DEF id
      <4>2. x.id > 3
        <5>1. CASE HasId(h, id)
          <6>1. PICK p \in 1..Len(h) : h[p].id = id
            BY <1>1, <5>1 DEF HasId
          <6>2. id < x.id
            BY <2>3, <5>1, <6>1
          <6> QED BY <1>1, <2>4, <4>1, <6>2
        <5>2. CASE ~HasId(h, id)
          BY <1>1, <2>3, <4>1, <5>2
        <5> QED BY <5>1, <5>2
      <4>3. \A n \in 1..3 : e # Required[n]
        BY <3>2 DEF IsRequired
      <4> QED BY <3>2, <4>2, <4>3
    <3> QED BY <3>1, <3>2
  <2>7. x.id >= 1 /\ \A n \in 1..3 : x.id = n => e = Required[n]
    BY <2>4, <2>6
  <2>8. \A n \in 1..3 : HasId(g, n) <=> met(n, i + 1)
    <3> TAKE n \in 1..3
    <3>1. HasId(g, n) <=> met(n, i) \/ x.id = n
      BY <1>3, <2>5
    <3>2. met(n, i + 1) <=> met(n, i) \/ e = Required[n]
      BY <1>4
    <3>3. x.id = n => e = Required[n]
      BY <2>7
    <3>4. e = Required[n] => met(n, i) \/ x.id = n
      BY <2>6, RequiredAre
    <3> HIDE DEF met
    <3> QED BY <3>1, <3>2, <3>3, <3>4
  <2>9. Rightly(g)
    <3>1. \A p \in 1..Len(g) : p \in 1..Len(h) \/ p = Len(h) + 1
      BY <1>1, <2>3
    <3> QED BY <1>2, <2>3, <2>7, <3>1 DEF Rightly
  <2>10. EntityRead(acc, e)[1] = g /\ EntityRead(acc, e)[2] >= 5
    BY <1>1, <2>1
  <2> QED BY <2>8, <2>9, <2>10 DEF HeaderTo, e
<1> QED BY <1>5, <1>6

LEMMA HeaderReads ==
    ASSUME NEW s \in Seq(Names), NEW next \in Int
    PROVE  /\ HeaderRead(s, next) \in Reading
           /\ RepeatedLate(s) /\ next >= 5 =>
                 Rightly(HeaderRead(s, next)[1]) /\ HeaderRead(s, next)[2] >= 5
<1> DEFINE upTo == EntitiesRead(s)
<1>1. PICK r : ReadsOn(r, s, next)
  BY HeaderReadsOn
<1>2. upTo \in Nat /\ upTo <= Len(s) /\ Len(s) \in Nat
  BY ReadWithin
<1>3. /\ r[0] = <<<<>>, next>>
      /\ \A i \in Nat : i + 1 \in 1..upTo => r[i + 1] = EntityRead(r[i], s[i + 1])
      /\ HeaderRead(s, next) = r[upTo]
  BY <1>1 DEF ReadsOn
<1> HIDE DEF upTo
<1> DEFINE Fine == RepeatedLate(s) /\ next >= 5
           N == {n \in Nat : n <= upTo => r[n] \in Reading /\ (Fine => HeaderTo(r[n], s, n))}
<1>4. 0 \in N
  <2>1. <<>> \in Seq(Entry)
    OBVIOUS
  <2>2. r[0] \in Reading
    <3>1. <<<<>>, next>> \in Reading
      BY <2>1, Zenon DEF Reading
    <3> QED BY <1>3, <3>1
  <2>3. r[0][1] = <<>> /\ r[0][2] = next
    BY <1>3
  <2>4. Rightly(<<>>) /\ \A n : ~HasId(<<>>, n)
    BY DEF Rightly, HasId
  <2>5. Fine => HeaderTo(r[0], s, 0)
    BY <2>3, <2>4 DEF HeaderTo
  <2> QED BY <2>2, <2>5
<1>5. ASSUME NEW n \in Nat, n \in N PROVE n + 1 \in N
  <2> SUFFICES ASSUME n + 1 <= upTo
               PROVE  r[n + 1] \in Reading /\ (Fine => HeaderTo(r[n + 1], s, n + 1))
    OBVIOUS
  <2>1. n + 1 \in 1..upTo /\ n + 1 \in 1..Len(s) /\ n <= upTo
    BY <1>2
  <2>2. r[n] \in Reading /\ (Fine => HeaderTo(r[n], s, n))
    BY <1>5, <2>1
  <2>3. r[n + 1] = EntityRead(r[n], s[n + 1]) /\ s[n + 1] \in Names
    BY <1>3, <2>1
  <2>4. r[n + 1] \in Reading
    BY <2>2, <2>3, EntityReadTyped
  <2>5. ASSUME Fine PROVE HeaderTo(r[n + 1], s, n + 1)
    BY <2>1, <2>2, <2>3, <2>5, EntityReads
  <2> QED BY <2>4, <2>5
<1>6. upTo \in N
  <2> HIDE DEF N
  <2>1. Nat \subseteq N
    BY <1>4, <1>5, Induction
  <2> QED BY <1>2, <2>1
<1>7. r[upTo] \in Reading /\ (Fine => HeaderTo(r[upTo], s, upTo))
  BY <1>2, <1>6
<1> QED BY <1>3, <1>7 DEF HeaderTo

(* A required entity that is ensured is there, and the others stay.           *)
LEMMA EnsuredIs ==
    ASSUME NEW h \in Seq(Entry), NEW n \in 1..3
    PROVE  /\ Ensured(h, n, Required[n]) \in Seq(Entry)
           /\ Rightly(h) => Rightly(Ensured(h, n, Required[n]))
           /\ HasId(Ensured(h, n, Required[n]), n)
           /\ \A m \in 1..3 : HasId(h, m) => HasId(Ensured(h, n, Required[n]), m)
<1>1. CASE HasId(h, n)
  BY <1>1 DEF Ensured
<1>2. CASE ~HasId(h, n)
  <2> DEFINE g == HeaderAppended(h, Required[n], n)
  <2>1. Ensured(h, n, Required[n]) = g
    BY <1>2 DEF Ensured
  <2>2. Appended(h, Required[n], n)
    BY RequiredAre, AppendedIs
  <2>3. /\ g \in Seq(Entry) /\ Len(g) = Len(h) + 1 /\ Len(h) \in Nat
        /\ \A p \in 1..Len(h) : g[p] = h[p]
        /\ g[Len(h) + 1].entity = Required[n] /\ g[Len(h) + 1].id = n
    BY <1>2, <2>2 DEF Appended
  <2> HIDE DEF g
  <2>4. /\ DOMAIN g = 1..(Len(h) + 1) /\ DOMAIN h = 1..Len(h)
        /\ \A p \in 1..(Len(h) + 1) : p \in 1..Len(h) \/ p = Len(h) + 1
        /\ Len(h) + 1 \in 1..(Len(h) + 1) /\ \A p \in 1..Len(h) : p \in 1..(Len(h) + 1)
    BY <2>3
  <2>5. HasId(g, n) /\ \A m \in 1..3 : HasId(h, m) => HasId(g, m)
    BY <2>3, <2>4 DEF HasId
  <2>6. ASSUME Rightly(h) PROVE Rightly(g)
    BY <2>3, <2>4, <2>6, RequiredAre DEF Rightly
  <2> QED BY <2>1, <2>3, <2>5, <2>6
<1> QED BY <1>1, <1>2

(* After HeaderVerifyInstances all three are there.                           *)
LEMMA VerifiedIs ==
    ASSUME NEW im \in Seq(Entry)
    PROVE  /\ Verified(im) \in Seq(Entry) /\ \A n \in 1..3 : HasId(Verified(im), n)
           /\ Rightly(im) => Good(Verified(im))
<1> DEFINE a == Ensured(im, 2, Required[2])
           b == Ensured(a, 1, Required[1])
           c == Ensured(b, 3, Required[3])
<1>0. 1 \in 1..3 /\ 2 \in 1..3 /\ 3 \in 1..3 /\ \A n \in 1..3 : n = 1 \/ n = 2 \/ n = 3
  OBVIOUS
<1>1. a \in Seq(Entry) /\ (Rightly(im) => Rightly(a)) /\ HasId(a, 2)
  BY <1>0, EnsuredIs
<1> HIDE DEF a
<1>2. b \in Seq(Entry) /\ (Rightly(a) => Rightly(b)) /\ HasId(b, 1) /\ HasId(b, 2)
  BY <1>0, <1>1, EnsuredIs
<1> HIDE DEF b
<1>3. /\ c \in Seq(Entry) /\ (Rightly(b) => Rightly(c))
      /\ HasId(c, 1) /\ HasId(c, 2) /\ HasId(c, 3)
  BY <1>0, <1>2, EnsuredIs
<1>4. Verified(im) = c
  BY DEF Verified, a, b
<1> HIDE DEF c
<1> QED BY <1>0, <1>1, <1>2, <1>3, <1>4 DEF Good

LEMMA EnsuredTyped ==
    ASSUME NEW h \in Seq(Entry), NEW n \in Int, NEW e \in Names
    PROVE  Ensured(h, n, e) \in Seq(Entry)
<1>1. HeaderAppended(h, e, n) \in Seq(Entry)
  BY AppendedIs DEF Appended
<1> QED BY <1>1 DEF Ensured

LEMMA MergedTyped ==
    ASSUME header \in Seq(Entry), NEW im \in Seq(Entry), \A n \in 1..3 : HasId(im, n)
    PROVE  Merged(im) \in Seq(Entry)
<1> DEFINE entity(n) == im[CHOOSE i \in DOMAIN im : im[i].id = n].entity
           a == Ensured(header, 2, entity(2))
           b == Ensured(a, 1, entity(1))
           c == Ensured(b, 3, entity(3))
<1>0. 1 \in 1..3 /\ 2 \in 1..3 /\ 3 \in 1..3
  OBVIOUS
<1>1. ASSUME NEW n \in 1..3 PROVE entity(n) \in Names
  <2>1. \E i \in DOMAIN im : im[i].id = n
    BY DEF HasId
  <2>2. \A i \in DOMAIN im : im[i] \in Entry
    OBVIOUS
  <2>3. \A i \in DOMAIN im : im[i].entity \in Names
    BY <2>2 DEF Entry
  <2> QED BY <2>1, <2>3
<1>2. entity(1) \in Names /\ entity(2) \in Names /\ entity(3) \in Names
  BY <1>0, <1>1
<1>3. Merged(im) = IF Len(header) < 4 THEN im ELSE c
  BY Zenon DEF Merged
<1> HIDE DEF entity, a, b, c
<1>4. a \in Seq(Entry)
  BY <1>2, EnsuredTyped DEF a
<1>5. b \in Seq(Entry)
  BY <1>2, <1>4, EnsuredTyped DEF b
<1>6. c \in Seq(Entry)
  BY <1>2, <1>5, EnsuredTyped DEF c
<1> QED BY <1>3, <1>6

(* What is merged into a header that has all three changes nothing.           *)
LEMMA MergedIs ==
    ASSUME header \in Seq(Entry), NEW im \in Seq(Entry), Good(im)
    PROVE  header = <<>> \/ Good(header) => Good(Merged(im))
<1> DEFINE entity(n) == im[CHOOSE i \in DOMAIN im : im[i].id = n].entity
<1>0. 1 \in 1..3 /\ 2 \in 1..3 /\ 3 \in 1..3
  OBVIOUS
<1>1. ASSUME NEW n \in 1..3 PROVE entity(n) = Required[n]
  <2>1. \E i \in DOMAIN im : im[i].id = n
    BY DEF Good, HasId
  <2>2. DOMAIN im = 1..Len(im)
    OBVIOUS
  <2> QED BY <2>1, <2>2 DEF Good, Rightly
<1>2. entity(1) = Required[1] /\ entity(2) = Required[2] /\ entity(3) = Required[3]
  BY <1>0, <1>1
<1>3. CASE Len(header) < 4
  BY <1>3 DEF Merged
<1>4. CASE ~(Len(header) < 4)
  <2> DEFINE a == Ensured(header, 2, Required[2])
             b == Ensured(a, 1, Required[1])
             c == Ensured(b, 3, Required[3])
  <2>1. Merged(im) = c
    BY <1>2, <1>4, Zenon DEF Merged
  <2>2. Verified(header) = c
    BY DEF Verified
  <2>3. header # <<>>
    BY <1>4
  <2> HIDE DEF c
  <2> QED BY <2>1, <2>2, <2>3, VerifiedIs DEF Good
<1> QED BY <1>3, <1>4

FilesLate == \A f \in Files : RepeatedLate(f.header)

HInv ==
    /\ FlagTyped /\ header \in Seq(Entry) /\ headerId \in Int
    /\ written.header \in Seq(Names) /\ RepeatedLate(written.header)
    /\ headerIdSet => headerId >= 5 /\ (header = <<>> \/ Good(header))
    /\ headerIdSet /\ pc # "idle" => Good(header)

LEMMA InitHInv == Init => HInv
<1> SUFFICES ASSUME Init PROVE HInv
  OBVIOUS
<1>1. /\ header = <<>> /\ headerId = 0 /\ headerIdSet = FALSE /\ written.header = <<>>
  BY DEF Init, NoFile
<1>2. <<>> \in Seq(Entry) /\ <<>> \in Seq(Names) /\ RepeatedLate(<<>>)
  BY DEF RepeatedLate
<1>3. /\ FlagTyped /\ header \in Seq(Entry) /\ headerId \in Int
      /\ written.header \in Seq(Names) /\ headerIdSet = FALSE
  <2>1. FlagTyped
    BY <1>1, Zenon DEF FlagTyped
  <2>2. header \in Seq(Entry) /\ written.header \in Seq(Names)
    BY <1>1, <1>2, Zenon
  <2>3. headerId \in Int
    BY <1>1
  <2> QED BY <1>1, <2>1, <2>2, <2>3
<1>4. RepeatedLate(written.header)
  BY <1>1, <1>2, Zenon
<1> QED BY <1>3, <1>4 DEF HInv

(* A header that is read is complete once _headerId is set.                   *)
LEMMA ReadHeaderIs ==
    ASSUME HInv, FilesLate, NEW f \in Files \cup {written}, NEW how \in Ways, ReadHeader(f, how),
           headerIdSet' = (headerIdSet \/ how = "ReadExchangeFile")
    PROVE  /\ header' \in Seq(Entry) /\ headerId' \in Int
           /\ headerIdSet' => headerId' >= 5 /\ Good(header')
<1> DEFINE next == IF how = "ReadExchangeFile" THEN 5 ELSE headerId
           read == HeaderRead(f.header, next)
           im   == Verified(read[1])
<1>1. f.header \in Seq(Names) /\ RepeatedLate(f.header)
  <2>1. CASE f \in Files
    <3>1. f.header \in Seq(STRING)
      BY <2>1, FilesAssumption
    <3> QED BY <2>1, <3>1 DEF Names, FilesLate
  <2>2. CASE f = written
    BY <2>2 DEF HInv
  <2> QED BY <2>1, <2>2
<1>2. next \in Int /\ (headerIdSet' => next >= 5)
  <2>1. headerId \in Int /\ headerIdSet \in BOOLEAN /\ (headerIdSet => headerId >= 5)
    BY DEF HInv, FlagTyped
  <2>2. CASE how = "ReadExchangeFile"
    BY <2>2
  <2>3. CASE how # "ReadExchangeFile"
    BY <2>1, <2>3
  <2> QED BY <2>2, <2>3
<1>3. /\ header' = IF Clears(how) THEN im ELSE Merged(im)
      /\ headerId' = read[2]
  BY Zenon DEF ReadHeader
<1> HIDE DEF next
<1>4. read \in Reading /\ (next >= 5 => Rightly(read[1]) /\ read[2] >= 5)
  BY <1>1, <1>2, HeaderReads
<1>5. read[1] \in Seq(Entry) /\ read[2] \in Int
  BY <1>4 DEF Reading
<1> HIDE DEF read
<1>6. im \in Seq(Entry) /\ (\A n \in 1..3 : HasId(im, n)) /\ (next >= 5 => Good(im))
  BY <1>4, <1>5, VerifiedIs
<1> HIDE DEF im
<1>7. header \in Seq(Entry) /\ (headerIdSet => header = <<>> \/ Good(header))
  BY DEF HInv
<1>8. Merged(im) \in Seq(Entry)
  BY <1>6, <1>7, MergedTyped
<1>9. ASSUME headerIdSet' PROVE Good(header')
  <2>1. Good(im)
    BY <1>2, <1>6, <1>9
  <2>2. CASE Clears(how)
    BY <1>3, <2>1, <2>2
  <2>3. CASE ~Clears(how)
    <3>1. headerIdSet
      BY <1>9, <2>3 DEF Clears
    <3>2. Good(Merged(im))
      BY <1>6, <1>7, <2>1, <3>1, MergedIs
    <3> QED BY <1>3, <2>3, <3>2
  <2> QED BY <2>2, <2>3
<1> QED BY <1>2, <1>3, <1>4, <1>5, <1>6, <1>8, <1>9

(* The header written has the required entities first.                        *)
LEMMA WrittenLate ==
    ASSUME HInv, WriteWorkingFile
    PROVE  written'.header \in Seq(Names) /\ RepeatedLate(written'.header)
<1> DEFINE others == Filter(header, {h \in ToSet(header) : h.id \notin 1..3})
           rest == [j \in DOMAIN others |-> others[j].entity]
           g == Required \o rest
<1>1. written'.header = g
  BY Zenon DEF WriteWorkingFile
<1>2. others \in Seq(Entry)
  BY FilterEnumerates DEF HInv
<1> HIDE DEF others
<1>3. rest \in Seq(Names)
  <2>1. \A j \in DOMAIN others : others[j] \in Entry
    BY <1>2
  <2>2. \A j \in DOMAIN others : others[j].entity \in Names
    BY <2>1 DEF Entry
  <2>3. DOMAIN others = 1..Len(others) /\ Len(others) \in Nat
    BY <1>2
  <2> QED BY <2>2, <2>3
<1> HIDE DEF rest
<1>4. Required \in Seq(Names) /\ Len(Required) = 3
  <2>1. Required = <<Required[1], Required[2], Required[3]>>
    BY DEF Required
  <2>2. Required[1] \in Names /\ Required[2] \in Names /\ Required[3] \in Names
    BY RequiredAre
  <2>3. <<Required[1], Required[2], Required[3]>> \in Seq(Names)
    BY <2>2
  <2> QED BY <2>1, <2>3
<1>5. g \in Seq(Names) /\ Len(g) = 3 + Len(rest) /\ \A n \in 1..3 : g[n] = Required[n]
  <2> DEFINE first == Required
  <2>1. first \in Seq(Names) /\ Len(first) = 3
    BY <1>4
  <2> HIDE DEF first
  <2>2. /\ first \o rest \in Seq(Names) /\ Len(first \o rest) = Len(first) + Len(rest)
        /\ \A i \in 1..(Len(first) + Len(rest)) :
               (first \o rest)[i] = IF i <= Len(first) THEN first[i] ELSE rest[i - Len(first)]
    BY <1>3, <2>1, ConcatProperties
  <2>3. Len(rest) \in Nat
    BY <1>3
  <2>4. \A n \in 1..3 : n \in 1..(Len(first) + Len(rest)) /\ n <= Len(first)
    BY <2>1, <2>3
  <2> QED BY <2>1, <2>2, <2>4 DEF first
<1> HIDE DEF g
<1>6. Len(rest) \in Nat /\ DOMAIN g = 1..(3 + Len(rest))
  BY <1>3, <1>5
<1>7. RepeatedLate(g)
  <2> SUFFICES ASSUME NEW i \in DOMAIN g, NEW j \in DOMAIN g, i < j, g[i] = g[j],
                      NEW n \in 1..3
               PROVE  \E m \in DOMAIN g : m < j /\ g[m] = Required[n]
    BY DEF RepeatedLate
  <2>1. j > 3
    <3> SUFFICES ASSUME j <= 3 PROVE FALSE
      BY <1>6
    <3>1. i \in 1..3 /\ j \in 1..3 /\ i # j
      BY <1>6
    <3> QED BY <1>5, <3>1, RequiredAre
  <2>2. n \in DOMAIN g /\ n < j
    BY <1>6, <2>1
  <2> QED BY <1>5, <2>2
<1> QED BY <1>1, <1>5, <1>7

LEMMA NextHInv == FilesLate /\ HInv /\ [Next]_vars => HInv'
<1> SUFFICES ASSUME FilesLate, HInv, [Next]_vars PROVE HInv'
  OBVIOUS
<1>1. ASSUME NEW how \in Ways, NEW f \in Files \cup {written}, BeginFails(f, how) \/ Begin(f, how)
      PROVE  HInv'
  <2>1. written' = written /\ headerIdSet' = (headerIdSet \/ how = "ReadExchangeFile")
    BY <1>1 DEF BeginFails, Begin, Requested, session
  <2>b. FlagTyped'
    BY <2>1 DEF HInv, FlagTyped
  <2>2. CASE ReadHeader(f, how)
    <3>1. /\ header' \in Seq(Entry) /\ headerId' \in Int
          /\ headerIdSet' => headerId' >= 5 /\ Good(header')
      BY <2>1, <2>2, ReadHeaderIs
    <3> QED BY <2>1, <3>1, <2>b DEF HInv, Good, Rightly, HasId
  <2>3. CASE ~ReadHeader(f, how)
    <3>1. /\ header' = IF Clears(how) THEN <<>> ELSE header
          /\ headerId' = IF how = "ReadExchangeFile" THEN 5 ELSE headerId
          /\ pc' = "idle"
      BY <1>1, <2>3 DEF BeginFails, Begin, Requested, CanRead
    <3>2. <<>> \in Seq(Entry)
      OBVIOUS
    <3>3. headerIdSet' => headerId' >= 5 /\ (header' = <<>> \/ Good(header'))
      <4>1. CASE Clears(how)
        <5>1. headerIdSet' => headerId' >= 5
          BY <2>1, <3>1 DEF HInv, FlagTyped
        <5> QED BY <3>1, <4>1, <5>1
      <4>2. CASE ~Clears(how)
        <5>1. header' = header /\ headerIdSet' = headerIdSet /\ headerId' = headerId
          BY <2>1, <3>1, <4>2 DEF Clears, HInv, FlagTyped
        <5> QED BY <5>1 DEF HInv, Good, Rightly, HasId
      <4> QED BY <4>1, <4>2
    <3> QED BY <2>1, <3>1, <3>2, <3>3, <2>b DEF HInv
  <2> QED BY <2>2, <2>3
<1>2. CASE UNCHANGED headers
  <2>1. header' = header /\ headerId' = headerId /\ headerIdSet' = headerIdSet
    BY <1>2 DEF headers
  <2>2. pc' # "idle" => pc # "idle" \/ \E how \in Ways, f \in Files \cup {written} : Begin(f, how)
    BY DEF Next, vars, OpenFails, BeginFails, Requested, CanRead, Start1, CreateInstance,
           NotCreated, End1, Reopen, ReopenFails, DataNotFound,
           ReadInstance, NotRead, End2, ChangeState,
           WriteWorkingFile, InRecord
  <2>3. CASE \E how \in Ways, f \in Files \cup {written} : Begin(f, how)
    BY <1>1, <2>3
  <2>4. CASE WriteWorkingFile
    <3>1. written'.header \in Seq(Names) /\ RepeatedLate(written'.header)
      BY <2>4, WrittenLate
    <3>2. pc' = pc
      BY <2>4 DEF WriteWorkingFile
    <3> QED BY <2>1, <3>1, <3>2 DEF HInv, FlagTyped
  <2>5. CASE ~WriteWorkingFile /\ ~\E how \in Ways, f \in Files \cup {written} : Begin(f, how)
    <3>1. written' = written
      BY <2>5 DEF Next, vars, OpenFails, BeginFails, Requested, Start1, CreateInstance,
           NotCreated, End1, Reopen, ReopenFails, DataNotFound,
           ReadInstance, NotRead, End2, ChangeState,
           session
    <3> QED BY <2>1, <2>2, <2>5, <3>1 DEF HInv, FlagTyped, Good, Rightly, HasId
  <2> QED BY <2>3, <2>4, <2>5
<1> QED BY <1>1, <1>2, HeadersStay

(* The header is complete while the data is read, in whatever order files are *)
(* read and appended: its required entities are there and under their ids, if *)
(* no file states one of them again before it has stated all three            *)
(* (ReadHeader, HeaderVerifyInstances, HeaderMergeInstances).                 *)
THEOREM HeaderStaysComplete == FilesLate => (Spec => []HeaderComplete)
<1> SUFFICES ASSUME FilesLate PROVE Spec => []HeaderComplete
  OBVIOUS
<1>1. HInv => HeaderComplete
  <2> SUFFICES ASSUME HInv, pc # "idle", headerIdSet, NEW n \in 1..3
               PROVE  \E i \in DOMAIN header : header[i].id = n /\ header[i].entity = Required[n]
    BY DEF HeaderComplete
  <2>1. Good(header) /\ DOMAIN header = 1..Len(header)
    BY DEF HInv
  <2>2. PICK i \in DOMAIN header : header[i].id = n
    BY <2>1 DEF Good, HasId
  <2> QED BY <2>1, <2>2 DEF Good, Rightly
<1>2. HInv /\ [Next]_vars => HInv'
  BY NextHInv
<1> QED BY <1>1, <1>2, InitHInv, PTL DEF Spec
================================================================================
