-------------------------------- MODULE StepFile --------------------------------
(* Reading and writing Part 21 files (STEPfile.cc, STEPfile.inline.cc): the   *)
(* header, the two passes over the DATA section, the working session files    *)
(* with their state letters, and the progress another thread asks for.        *)
(*                                                                            *)
(* A file is its keyword, the entities of its header and the records of its   *)
(* DATA section; a record is what the control of the two passes tells apart:  *)
(* its letter and id, whether an instance can be made of it, and its values:  *)
(* the ids it refers to and what kinds of required values are missing.  Those *)
(* of a complex record are kept in two, of its head part and of the rest.     *)
EXTENDS Filters, Integers, SequencesExt, FiniteSetsExt

CONSTANTS
    Files,          \* the files the client has
    MaxErrorCount,  \* _maxErrorCount
    Strict,         \* _strict
    MaxReads,       \* bound: files read
    MaxEdits        \* bound: states changed by the client


SEVERITY_EXIT == -3
SEVERITY_BUG == -2
SEVERITY_INPUT_ERROR == -1
SEVERITY_WARNING == 0
SEVERITY_INCOMPLETE == 1
SEVERITY_USERMSG == 2
SEVERITY_NULL == 3

Severities == SEVERITY_EXIT..SEVERITY_NULL

States  == {"noStateSE", "completeSE", "incompleteSE", "deleteSE", "newSE"}
Letters == {"C", "I", "D", "N"}
NoLetter == ""

Values == [refs : SUBSET Nat, missing : SUBSET {"text", "number", "other"}]

Records == [letter : Letters \cup {NoLetter}, id : Nat \ {0}, form : STRING,
            head : Values, rest : Values]

(* The ids in a file are positive, no reference is negative, and what is      *)
(* wrong with its header has a severity.                                      *)
ASSUME FilesAssumption ==
    \A f \in Files : /\ f.records \in Seq(Records) /\ f.header \in Seq(STRING)
                    /\ f.headerSeverity \in Severities

ASSUME CountAssumption == MaxErrorCount \in Int

ASSUME StrictAssumption == Strict \in BOOLEAN

VARIABLES
    insts,           \* the instance manager: instances in order, with their nodes
    maxFileId,       \* its largest id
    header,          \* _headerInstances: entity and id of each
    headerId,        \* _headerId
    headerIdSet,     \* history: ReadExchangeFile has set it
    pc, file, k,     \* what is read: the part, the file, the record it is at
    reads, kind,     \* history: number of reads, and how the last one was asked
    fileType, fileIdIncr, instState,
    entsNotCreated, entsInvalid, totalInsts, validInsts,
    error, result,   \* _error and what AppendFile returned
    size, position, stage1Done,   \* _iFileSize, _iFileCurrentPosition, _iFileStage1Done
    written, saved,  \* the working session file written, and the instances it is of
    edits

manager  == <<insts, maxFileId>>
headers  == <<header, headerId, headerIdSet>>
reading  == <<file, reads, kind, fileIdIncr>>
counts   == <<entsNotCreated, entsInvalid, totalInsts, validInsts>>
progress == <<size, position, stage1Done>>
session  == <<written, saved, edits>>
vars == <<manager, headers, reading, pc, k, fileType, instState, counts, error,
          result, progress, session>>

-----------------------------------------------------------------------------
(* Helpers *)

GreaterSeverity(s) == IF s < error THEN s ELSE error
Lower(s, t) == IF s < t THEN s ELSE t

(* FindFileId: the place of the instance with an id, 0 if there is none.      *)
FindFileId(id) ==
    IF \E i \in DOMAIN insts : insts[i].id = id
    THEN CHOOSE i \in DOMAIN insts : insts[i].id = id ELSE 0

Record == file.records[k]

(* Fault: the next thousand above the largest id, without the room of one. *)
IncrementAbove_Less(max) == IF max < 0 THEN 0 ELSE ((max + 99) \div 1000) * 1000

(* SetFileIdIncrement: ceil( ( max + 99 ) / 1000 ) + 1 thousands.             *)
IncrementAbove(max) ==
    IF max < 0 THEN 0 ELSE (((max + 99 + 999) \div 1000) + 1) * 1000

(* EntityWfState *)
EntityWfState(letter) ==
    CASE letter = "C" -> "completeSE"
      [] letter = "I" -> "incompleteSE"
      [] letter = "D" -> "deleteSE"
      [] letter = "N" -> "newSE"

(* WriteWorkingData: the letter of a state.  An instance in noStateSE would    *)
(* not be written; none comes to it here, nor is put there by a client.       *)
SaveLetter(state) ==
    CASE state = "completeSE"   -> "C"
      [] state = "incompleteSE" -> "I"
      [] state = "deleteSE"     -> "D"
      [] state = "newSE"        -> "N"

-----------------------------------------------------------------------------
(* The header.  The three required entities have the ids 1, 2 and 3, others   *)
(* the next of _headerId.                                                     *)

Required == <<"FILE_DESCRIPTION", "FILE_NAME", "FILE_SCHEMA">>
IsRequired(e) == \E i \in 1..3 : Required[i] = e

HeaderId(e, next) == IF IsRequired(e) THEN CHOOSE i \in 1..3 : Required[i] = e ELSE next

HasId(h, id) == \E i \in DOMAIN h : h[i].id = id
MaxId(h) == IF h = <<>> THEN -1 ELSE Max({h[i].id : i \in DOMAIN h})

(* InstMgr::Append on a header manager: an id that is taken is replaced.      *)
HeaderAppended(h, e, id) ==
    Append(h, [entity |-> e, id |-> IF HasId(h, id) THEN MaxId(h) + 1 ELSE id])

(* The entities up to the first user-defined one, which ends the loop.       *)
EntitiesRead(entities) ==
    LET user == {i \in DOMAIN entities : entities[i] = "!USER"}
    IN  IF user = {} THEN Len(entities) ELSE Min(user) - 1

(* One more of them: one no entity can be made of is skipped.                 *)
EntityRead(acc, e) ==
    IF e = "UNKNOWN" THEN acc
    ELSE <<HeaderAppended(acc[1], e, HeaderId(e, acc[2] + 1)),
           IF IsRequired(e) THEN acc[2] ELSE acc[2] + 1>>

(* ReadHeader: the new manager <<header, _headerId>> and ...                  *)
HeaderRead(entities, next) ==
    LET upTo == EntitiesRead(entities)
        read[i \in 0..upTo] ==
            IF i = 0 THEN <<<<>>, next>> ELSE EntityRead(read[i - 1], entities[i])
    IN  read[upTo]

Ensured(h, n, e) == IF HasId(h, n) THEN h ELSE HeaderAppended(h, e, n)

(* Fault: the description is not looked for. *)
Verified_NoDescription(im) == Ensured(Ensured(im, 2, Required[2]), 3, Required[3])

(* ... HeaderVerifyInstances: with the required ones that were missing.       *)
Verified(im) == Ensured(Ensured(Ensured(im, 2, Required[2]), 1, Required[1]), 3, Required[3])

(* HeaderMergeInstances: fewer than four are replaced by the new ones; else   *)
(* those of the required that are missing are taken over.                     *)
Merged(im) ==
    LET entity(n) == im[CHOOSE i \in DOMAIN im : im[i].id = n].entity
    IN  IF Len(header) < 4 THEN im
        ELSE Ensured(Ensured(Ensured(header, 2, entity(2)), 1, entity(1)), 3, entity(3))

(* What ReadHeader returns is the severity of _error.                         *)
HeaderSeverity(f) ==
    LET im == HeaderRead(f.header, 5)[1]
    IN  IF \/ \E i \in DOMAIN f.header : f.header[i] \in {"!USER", "UNKNOWN"}
           \/ \E i \in 1..3 : ~HasId(im, i)
        THEN Lower(f.headerSeverity, SEVERITY_WARNING) ELSE f.headerSeverity

-----------------------------------------------------------------------------
(* Opening a file, and AppendFile up to the first pass *)

(* Closing resets size and position, not the flag of the first pass.          *)
Closed == size' = 0 /\ position' = 0 /\ UNCHANGED stage1Done

StartPosition == 0

(* ReadExchangeFile and ReadWorkingFile clear the managers; the working file  *)
(* calls set the file type before and reset it after.                         *)
Clears(how)    == how \in {"ReadExchangeFile", "ReadWorkingFile"}
IsWorking(how) == how \in {"ReadWorkingFile", "AppendWorkingFile"}
TypeAfter(how, type) == IF IsWorking(how) THEN "VERSION_CURRENT" ELSE type

CanRead == pc = "idle" /\ reads < MaxReads

(* The file cannot be opened: nothing else changes.                           *)
OpenFails(how) ==
    /\ CanRead
    /\ reads' = reads + 1 /\ kind' = how
    /\ error' = SEVERITY_INPUT_ERROR /\ result' = SEVERITY_INPUT_ERROR
    /\ Closed
    /\ UNCHANGED <<manager, headers, file, fileIdIncr, pc, k, fileType, instState,
                   counts, session>>

TypeOfKeyword(f) == IF f.keyword = "ISO-10303-21" THEN "VERSION_CURRENT" ELSE "WORKING_SESSION"

(* The header of f, merged into what the manager holds; _headerId starts anew  *)
(* in ReadExchangeFile only.                                                  *)
ReadHeader(f, how) ==
    LET read == HeaderRead(f.header, IF how = "ReadExchangeFile" THEN 5 ELSE headerId)
        im   == Verified(read[1])
    IN  /\ header' = IF Clears(how) THEN im ELSE Merged(im)
        /\ headerId' = read[2]

ErrorAfterHeader(f, how) ==
    Lower(HeaderSeverity(f),
          IF f.keyword = "STEP_WORKING_SESSION" /\ ~IsWorking(how) /\ fileType # "WORKING_SESSION"
          THEN SEVERITY_WARNING ELSE SEVERITY_NULL)

(* The managers are cleared, but the first pass is not reached: the keyword   *)
(* is neither of the two, the header is beyond recovery, or no DATA follows.  *)
NotReached(f, how) ==
    \/ f.keyword \notin {"ISO-10303-21", "STEP_WORKING_SESSION"}
    \/ ErrorAfterHeader(f, how) < SEVERITY_WARNING
    \/ ~f.hasData

Cleared(how) ==
    IF Clears(how) THEN insts' = <<>> /\ maxFileId' = -1 ELSE UNCHANGED manager

(* AppendFile computes the increment first, from the manager as it is then;   *)
(* the fault: before the manager is cleared.                                  *)
IncrementFor_Before(how) == IncrementAbove(maxFileId)
IncrementFor(how) == IncrementAbove(IF Clears(how) THEN -1 ELSE maxFileId)

Requested(f, how) ==
    /\ CanRead
    /\ reads' = reads + 1 /\ kind' = how /\ file' = f
    /\ Cleared(how)
    /\ fileIdIncr' = IncrementFor(how)
    /\ headerIdSet' = (headerIdSet \/ how = "ReadExchangeFile")
    /\ UNCHANGED <<instState, counts, session>>

BeginFails(f, how) ==
    /\ Requested(f, how)
    /\ NotReached(f, how)
    /\ IF f.keyword = "junk"
       THEN /\ header' = IF Clears(how) THEN <<>> ELSE header
            /\ headerId' = IF how = "ReadExchangeFile" THEN 5 ELSE headerId
            /\ fileType' = IF IsWorking(how) THEN "VERSION_CURRENT" ELSE fileType
            /\ error' = SEVERITY_INPUT_ERROR /\ result' = SEVERITY_INPUT_ERROR
       ELSE /\ ReadHeader(f, how)
            /\ fileType' = TypeAfter(how, TypeOfKeyword(f))
            /\ error' = ErrorAfterHeader(f, how)
            /\ result' = Lower(error', SEVERITY_INPUT_ERROR)
    /\ Closed
    /\ UNCHANGED <<pc, k>>

Begin(f, how) ==
    /\ Requested(f, how)
    /\ ~NotReached(f, how)
    /\ ReadHeader(f, how)
    /\ fileType' = TypeOfKeyword(f)
    /\ error' = ErrorAfterHeader(f, how)
    /\ size' = Len(f.records) + 1 /\ position' = StartPosition /\ UNCHANGED stage1Done
    /\ pc' = "start1" /\ k' = 1
    /\ UNCHANGED result

-----------------------------------------------------------------------------
(* Pass 1, ReadData1: an instance is made of each record.                     *)

Working == fileType = "WORKING_SESSION"

Start1 ==
    /\ pc = "start1"
    /\ pc' = "pass1" /\ instState' = "noStateSE" /\ entsNotCreated' = 0
    /\ totalInsts' = 0
    /\ UNCHANGED <<manager, headers, reading, k, fileType, entsInvalid, validInsts,
                   error, result, progress, session>>

(* The state a record is read with: its letter's; without one, pass 1 assigns *)
(* incompleteSE, and pass 2 leaves the one of the record before.              *)
StateInPass1 == IF ~Working THEN instState
                ELSE IF Record.letter = NoLetter THEN "incompleteSE"
                ELSE EntityWfState(Record.letter)
StateInPass2 == IF ~Working \/ Record.letter = NoLetter THEN instState
                ELSE EntityWfState(Record.letter)

FileId == Record.id + fileIdIncr      \* IncrementFileId

(* Fault: the two ways of reading do not keep the ids apart. *)
IdTaken_Never == FALSE
IdTaken == FindFileId(FileId) # 0

CanCreate == /\ ~IdTaken
             /\ Record.form \in {"simple", "complex"}

Unread == [refs |-> {}, missing |-> {"other"}]

(* InstMgr::Append, with the check made before by CreateInstance left out.    *)
Instance(state) ==
    [id |-> IF FindFileId(FileId) # 0 THEN maxFileId + 1 ELSE FileId,
     state |-> state, form |-> Record.form,
     load |-> reads, made |-> k, filled |-> 0, head |-> Unread, rest |-> Unread]

(* Fault: the largest id is not kept. *)
Create_NotRaised(i) == insts' = Append(insts, i) /\ UNCHANGED maxFileId
Create(i) ==
    /\ insts' = Append(insts, i)
    /\ maxFileId' = IF i.id > maxFileId THEN i.id ELSE maxFileId

InRecord(pass) == pc = pass /\ k <= Len(file.records)

CreateInstance ==
    /\ InRecord("pass1")
    /\ ~(Working /\ StateInPass1 = "deleteSE")
    /\ CanCreate
    /\ instState' = StateInPass1
    /\ Create(Instance(IF Working THEN StateInPass1 ELSE "newSE"))
    /\ totalInsts' = totalInsts + 1
    /\ position' = k /\ k' = k + 1
    /\ UNCHANGED <<headers, reading, pc, fileType, entsNotCreated, entsInvalid,
                   validInsts, error, result, size, stage1Done, session>>

(* Too many: the pass is given up, and AppendFile goes on to the second one.  *)
Abort1 == entsNotCreated' > MaxErrorCount

(* No instance: the record is to be deleted, or nothing can be made of it.    *)
NotCreated ==
    /\ InRecord("pass1")
    /\ \/ Working /\ StateInPass1 = "deleteSE" /\ UNCHANGED position
       \/ ~(Working /\ StateInPass1 = "deleteSE") /\ ~CanCreate /\ position' = k
    /\ instState' = StateInPass1
    /\ entsNotCreated' = entsNotCreated + 1
    /\ k' = k + 1
    /\ IF Abort1 THEN pc' = "reopen" /\ error' = SEVERITY_EXIT
                 ELSE UNCHANGED <<pc, error>>
    /\ UNCHANGED <<manager, headers, reading, fileType, entsInvalid, totalInsts,
                   validInsts, result, size, stage1Done, session>>

ErrorAfterPass1 == IF entsNotCreated > 0 THEN GreaterSeverity(SEVERITY_WARNING) ELSE error

End1 ==
    /\ pc = "pass1" /\ k > Len(file.records)
    /\ pc' = "reopen" /\ stage1Done' = TRUE
    /\ error' = ErrorAfterPass1
    /\ UNCHANGED <<manager, headers, reading, k, fileType, instState, counts, result,
                   size, position, session>>

-----------------------------------------------------------------------------
(* The file is opened again for the second pass.                              *)

Finished(r) == /\ pc' = "idle" /\ result' = r /\ Closed
               /\ fileType' = TypeAfter(kind, fileType)

Reopen ==
    /\ pc = "reopen"
    /\ pc' = "pass2" /\ k' = 1
    /\ size' = Len(file.records) + 1 /\ position' = StartPosition /\ UNCHANGED stage1Done
    /\ instState' = "noStateSE" /\ entsInvalid' = 0 /\ validInsts' = 0
    /\ UNCHANGED <<manager, headers, reading, fileType, entsNotCreated, totalInsts,
                   error, result, session>>

(* It is gone by then.                                                        *)
ReopenFails ==
    /\ pc = "reopen"
    /\ error' = GreaterSeverity(SEVERITY_INPUT_ERROR)
    /\ Finished(SEVERITY_INPUT_ERROR)
    /\ UNCHANGED <<manager, headers, reading, k, instState, counts, session>>

(* It is there, without its DATA section: only the caller is told.            *)
DataNotFound ==
    /\ pc = "reopen"
    /\ Finished(SEVERITY_INPUT_ERROR)
    /\ UNCHANGED <<manager, headers, reading, k, instState, counts, error, session>>

-----------------------------------------------------------------------------
(* Pass 2, ReadData2: the values of each record are read into the instance    *)
(* that has its id.                                                           *)

Node == FindFileId(FileId)
SkippedInPass2 == Working /\ StateInPass2 = "deleteSE"

(* Fault: an instance that was read is read again. *)
Readable_Again == Node # 0 /\ Record.form \in {"simple", "complex", "unknown"}

(* In an exchange file the first record of an id is the one that counts.  The *)
(* kind of the entity in the record is not looked at again.                   *)
Readable == /\ Node # 0
            /\ Working \/ insts[Node].state = "newSE"
            /\ Record.form \in {"simple", "complex", "unknown"}

(* ReadEntityRef: the instance a reference leads to, by incremented id; the   *)
(* fault: by the id in the file.                                              *)
Referenced_Plain(id) == FindFileId(id)
Referenced(id) == FindFileId(id + fileIdIncr)

Dangles(v) == \E id \in v.refs : Referenced(id) = 0

(* STEPattribute::STEPread: unless reading is strict, a text that is missing  *)
(* is replaced.                                                               *)
Lacking(v, strict) == IF strict THEN v.missing ELSE v.missing \ {"text"}

ValuesRead(v, strict) ==
    [refs    |-> {Referenced(id) : id \in v.refs} \ {0},
     missing |-> Lacking(v, strict) \cup (IF Dangles(v) THEN {"other"} ELSE {})]

(* The worst that happened to a value: the quoted filler for a number does    *)
(* not parse, a reference leads to nothing, a value is left out or replaced.  *)
SeverityOf(v, strict) ==
    IF ~strict /\ "number" \in v.missing THEN SEVERITY_BUG
    ELSE IF Dangles(v) THEN SEVERITY_WARNING
    ELSE IF Lacking(v, strict) # {} THEN SEVERITY_INCOMPLETE
    ELSE IF v.missing # {} THEN SEVERITY_USERMSG ELSE SEVERITY_NULL

(* STEPcomplex::STEPread does not pass on whether reading is strict, and of   *)
(* its parts reports what happened to the head only.                          *)
IsStrict == Strict \/ insts[Node].form = "complex"
SeverityRead == SeverityOf(Record.head, IsStrict)

StateAfter == IF Working THEN insts[Node].state
              ELSE IF SeverityRead >= SEVERITY_USERMSG THEN "completeSE" ELSE "incompleteSE"

Filled ==
    [insts EXCEPT ![Node].state = StateAfter, ![Node].filled = k,
                  ![Node].head = ValuesRead(Record.head, IsStrict),
                  ![Node].rest = ValuesRead(Record.rest, IsStrict)]

(* Of a simple record the error goes to _error and is cleared in the instance, *)
(* so that ReadData2 counts it as valid; of a complex one it is counted.       *)
CountedInvalid == insts[Node].form = "complex" /\ SeverityRead # SEVERITY_NULL

(* Fault: the error of an instance is dropped with its message. *)
ErrorOfInstance_Dropped == error
ErrorOfInstance ==
    IF insts[Node].form = "complex" THEN error
    ELSE GreaterSeverity(IF SeverityRead < SEVERITY_WARNING THEN SEVERITY_WARNING
                         ELSE SeverityRead)

Abort2 == entsInvalid' > MaxErrorCount

(* What follows AppendFile's second pass: a number that does not agree is an  *)
(* error, and only then does what _error holds reach the caller.              *)
ResultOf(valid, err) ==
    IF totalInsts # valid THEN Lower(err, SEVERITY_WARNING) ELSE SEVERITY_NULL

GivenUp == /\ Finished(ResultOf(validInsts', SEVERITY_EXIT))
           /\ error' = SEVERITY_EXIT

ReadInstance ==
    /\ InRecord("pass2") /\ ~SkippedInPass2 /\ Readable
    /\ instState' = StateInPass2
    /\ insts' = Filled
    /\ entsInvalid' = entsInvalid + (IF CountedInvalid THEN 1 ELSE 0)
    /\ validInsts' = validInsts + (IF CountedInvalid THEN 0 ELSE 1)
    /\ k' = k + 1
    /\ IF Abort2 THEN GivenUp
       ELSE /\ position' = k /\ error' = ErrorOfInstance
            /\ UNCHANGED <<pc, result, fileType, size, stage1Done>>
    /\ UNCHANGED <<maxFileId, headers, reading, entsNotCreated, totalInsts, session>>

NotRead ==
    /\ InRecord("pass2") /\ (SkippedInPass2 \/ ~Readable)
    /\ instState' = StateInPass2
    /\ entsInvalid' = entsInvalid + 1
    /\ k' = k + 1
    /\ UNCHANGED <<manager, headers, reading, entsNotCreated, totalInsts, validInsts,
                   session>>
    /\ IF Abort2 THEN GivenUp
       ELSE /\ position' = IF SkippedInPass2 THEN position ELSE k
            /\ UNCHANGED <<pc, result, fileType, error, size, stage1Done>>

End2 ==
    /\ pc = "pass2" /\ k > Len(file.records)
    /\ error' = Lower(IF entsInvalid > 0 THEN GreaterSeverity(SEVERITY_WARNING) ELSE error,
                      IF totalInsts # validInsts THEN SEVERITY_WARNING ELSE SEVERITY_NULL)
    /\ Finished(ResultOf(validInsts, error'))
    /\ UNCHANGED <<manager, headers, reading, k, instState, counts, session>>

-----------------------------------------------------------------------------
(* The client changes the state of an instance (MgrNode::ChangeState), and    *)
(* writes the working session file.                                           *)

ChangeState(i, state) ==
    /\ pc = "idle" /\ edits < MaxEdits /\ insts[i].state # state
    /\ insts' = [insts EXCEPT ![i].state = state]
    /\ edits' = edits + 1
    /\ UNCHANGED <<maxFileId, headers, reading, pc, k, fileType, instState, counts,
                   error, result, progress, written, saved>>

ValuesWritten(v) == [v EXCEPT !.refs = {insts[j].id : j \in v.refs}]

RecordWritten(i) ==
    [letter |-> SaveLetter(i.state), id |-> i.id, form |-> i.form,
     head |-> ValuesWritten(i.head), rest |-> ValuesWritten(i.rest)]

(* ValidLevel, which STEPcomplex does not implement.                          *)
Invalid(i) == i.form = "simple" /\ i.head.missing # {}

(* WriteWorkingFile: the header with the required entities first, then the    *)
(* instances in order.                                                        *)
WriteWorkingFile ==
    /\ pc = "idle" /\ insts # <<>> /\ saved # insts
    /\ LET others == Filter(header, {h \in ToSet(header) : h.id \notin 1..3})
       IN  written' = [keyword |-> "STEP_WORKING_SESSION",
                       header |-> Required \o [j \in DOMAIN others |-> others[j].entity],
                       headerSeverity |-> SEVERITY_NULL, hasData |-> TRUE,
                       records |-> [j \in DOMAIN insts |-> RecordWritten(insts[j])]]
    /\ saved' = insts
    /\ fileType' = "VERSION_CURRENT"
    /\ error' = IF \E i \in DOMAIN insts : insts[i].state # "completeSE" /\ Invalid(insts[i])
                THEN SEVERITY_INCOMPLETE ELSE SEVERITY_NULL
    /\ UNCHANGED <<manager, headers, reading, pc, k, instState, counts, result,
                   progress, edits>>

-----------------------------------------------------------------------------
NoFile == [keyword |-> "junk", header |-> <<>>, headerSeverity |-> SEVERITY_NULL,
           hasData |-> FALSE, records |-> <<>>]

Init ==
    /\ insts = <<>> /\ maxFileId = -1
    /\ header = <<>> /\ headerId = 0 /\ headerIdSet = FALSE
    /\ pc = "idle" /\ file = NoFile /\ k = 1 /\ reads = 0 /\ kind = "none"
    /\ fileType = "VERSION_CURRENT" /\ fileIdIncr = 0 /\ instState = "noStateSE"
    /\ entsNotCreated = 0 /\ entsInvalid = 0 /\ totalInsts = 0 /\ validInsts = 0
    /\ error = SEVERITY_NULL /\ result = SEVERITY_NULL
    /\ size = 0 /\ position = 0 /\ stage1Done = FALSE
    /\ written = NoFile /\ saved = <<>> /\ edits = 0

Ways == {"ReadExchangeFile", "AppendExchangeFile", "ReadWorkingFile", "AppendWorkingFile"}

Next ==
    \/ \E how \in Ways : OpenFails(how)
    \/ \E how \in Ways, f \in Files \cup {written} : BeginFails(f, how) \/ Begin(f, how)
    \/ Start1 \/ CreateInstance \/ NotCreated \/ End1
    \/ Reopen \/ ReopenFails \/ DataNotFound
    \/ ReadInstance \/ NotRead \/ End2
    \/ \E i \in DOMAIN insts, s \in States \ {"noStateSE"} : ChangeState(i, s)
    \/ WriteWorkingFile

Spec == Init /\ [][Next]_vars

-----------------------------------------------------------------------------
(* Properties *)

References(i) == i.head.refs \cup i.rest.refs

(* Types, and the counters are numbers of records.                            *)
TypeOK ==
    /\ \A i \in DOMAIN insts :
           /\ insts[i].state \in States /\ insts[i].form \in {"simple", "complex"}
           /\ References(insts[i]) \subseteq DOMAIN insts
           /\ insts[i].id \in 1..maxFileId
    /\ pc \in {"idle", "start1", "pass1", "reopen", "pass2"}
    /\ kind \in Ways \cup {"none"}
    /\ fileType \in {"VERSION_CURRENT", "WORKING_SESSION"}
    /\ instState \in States
    /\ {error, result} \subseteq Severities
    /\ position \in 0..size /\ {stage1Done, headerIdSet} \subseteq BOOLEAN

(* Every instance has the id its record has in the file, moved by the file's  *)
(* increment: no instance is renumbered when it enters the manager, in        *)
(* however many files come before (CreateInstance, IncrementFileId).          *)
IdsKept ==
    \A i \in DOMAIN insts :
        insts[i].load = reads /\ pc # "idle" =>
            insts[i].id = file.records[insts[i].made].id + fileIdIncr

(* Files that are appended do not mix: a reference leads to an instance of    *)
(* the file it stands in (SetFileIdIncrement, ReadEntityRef).                 *)
ReferencesStayInFile ==
    \A i \in DOMAIN insts : \A j \in References(insts[i]) : insts[j].load = insts[i].load

(* The header has its three required entities under their ids once the data   *)
(* is read, whatever the file had and whichever files came before             *)
(* (HeaderVerifyInstances, HeaderMergeInstances); provided that _headerId     *)
(* was set by ReadExchangeFile, for other entities take 1, 2, 3 until then.   *)
HeaderComplete ==
    pc # "idle" /\ headerIdSet =>
        \A n \in 1..3 : \E i \in DOMAIN header :
            header[i].id = n /\ header[i].entity = Required[n]

(* A header states a required entity twice, if at all, only after all three:  *)
(* before, the second one would take the id of one that is still to come.     *)
RepeatedLate(h) ==
    \A i, j \in DOMAIN h : i < j /\ h[i] = h[j] /\ IsRequired(h[i]) =>
        \A n \in 1..3 : \E m \in DOMAIN h : m < j /\ h[m] = Required[n]

Completed == pc = "pass2" /\ k > Len(file.records) /\ pc' = "idle"

Creatable(r) == r.form \in {"simple", "complex"}

(* No id stands first in a record no instance can be made of and then in one  *)
(* that makes one: pass 2 would read the first into the instance of the other. *)
NoRejectedTwin(f) ==
    \A p, q \in DOMAIN f.records :
        p < q /\ f.records[p].id = f.records[q].id /\ f.records[p].form = "unknown" =>
            ~Creatable(f.records[q])

(* An exchange file whose two passes ran to the end leaves no instance new,   *)
(* and every instance holds the values of the record it was made of, its      *)
(* duplicates notwithstanding (ReadData1, ReadData2).                         *)
PassesAgree ==
    [][Completed /\ ~Working /\ NoRejectedTwin(file) =>
         \A i \in DOMAIN insts :
             insts[i].load = reads =>
                 insts[i].state # "newSE" /\ insts[i].filled = insts[i].made]_vars

(* When a read ends and neither _error nor the severity returned has anything *)
(* to say, every record of the file became an instance whose values are all   *)
(* there: what is refused, ignored, skipped, given up, replaced or incomplete *)
(* is told, through both passes and whichever of their exits is taken.  Of a  *)
(* complex instance this holds of the head part only: what the others lose    *)
(* nobody is told (STEPcomplex::STEPread).                                    *)
ErrorTellsLoss ==
    [][pc # "idle" /\ pc' = "idle" /\ error' = SEVERITY_NULL /\ result' = SEVERITY_NULL =>
         \A r \in DOMAIN file.records : \E i \in DOMAIN insts' :
             /\ insts'[i].load = reads /\ insts'[i].made = r /\ insts'[i].filled = r
             /\ file.records[r].head.missing = {} /\ insts'[i].head.missing = {}]_vars

Survives(i) == i.state # "deleteSE"

Restored(i, s, table) ==
    /\ i.id = s.id /\ i.state = s.state /\ i.form = s.form
    /\ {table[j].id : j \in References(i)} =
           {saved[j].id : j \in {j \in References(s) : Survives(saved[j])}}

(* A working session that is written and read restores the instances: their   *)
(* order, ids, states and references, but for those marked for deletion and   *)
(* references to these (WriteWorkingData, ReadData1, ReadData2).  More        *)
(* deleted ones than _maxErrorCount end the read.                             *)
SessionRestored ==
    [][/\ Completed /\ kind = "ReadWorkingFile" /\ file = written
       /\ Cardinality({i \in DOMAIN saved : saved[i].state = "deleteSE"}) <= MaxErrorCount
       => LET kept == Filter(saved, {i \in ToSet(saved) : Survives(i)})
          IN  /\ Len(insts') = Len(kept)
              /\ \A i \in DOMAIN kept : Restored(insts'[i], kept[i], insts')]_vars
==============================================================================
