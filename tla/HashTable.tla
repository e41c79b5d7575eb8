------------------------------- MODULE HashTable -------------------------------
(***************************************************************************)
(* The dynamic hash table of the run time (sc_hash.cc) and of the compiler *)
(* (hash.c): a directory of segments of buckets that grows by splitting    *)
(* one bucket at a time, and a cursor that walks it between other calls.   *)
(*                                                                         *)
(* The chain of a bucket is the set of elements at its address, ordered by *)
(* "ahead".  An element carries data, a symbol and a type; its type stands *)
(* for the three.                                                          *)
(***************************************************************************)
EXTENDS Integers, FiniteSets

CONSTANTS Keys,           \* the keys inserted
          Types,          \* what an element carries
          Hash,           \* key -> the number its characters give, modulo PRIME2
          SegmentSize,    \* SEGMENT_SIZE: buckets in a segment
          DirectorySize,  \* DIRECTORY_SIZE: segments in the directory
          MaxLoadFactor,  \* MAX_LOAD_FACTOR
          Counts,         \* the sizes asked of HASHcreate
          None            \* no element

Addresses == 0..(DirectorySize * SegmentSize - 1)

(* HASHcreate doubles SEGMENT_SIZE until it reaches the count asked for. *)
Segments(count) ==
    CHOOSE n \in {2 ^ i : i \in 0..count} :
        /\ SegmentSize * n >= count
        /\ n = 1 \/ SegmentSize * (n \div 2) < count

ASSUME HashAssumption == Hash \in [Keys -> Nat]
ASSUME SizeAssumption == /\ SegmentSize \in Nat \ {0}
                         /\ DirectorySize \in Nat \ {0}
                         /\ MaxLoadFactor \in Nat
ASSUME CountsAssumption == \A c \in Counts : Segments(c) \in 1..DirectorySize
ASSUME NoneAssumption == None \notin Keys /\ None \notin Types

Any   == "*"        \* the type of a cursor that lists every element
Freed == "freed"    \* a pointer to an element that was deleted

VARIABLES
    at,             \* key -> address of the bucket its element is in, or -1
    ahead,          \* the pairs of elements of one chain, in the order of the chain
    entry,          \* key -> what its element carries, or None
    directory,      \* the segments allocated
    maxp, p,        \* size of the address space before this round of splits, next bucket to split
    keyCount,       \* KeyCount
    segmentCount,   \* SegmentCount
    result,         \* the answer of the last search
    cursor,         \* HashEntry: address reached (i, j), next element (p), type
    listing         \* of the walk under way: what it returned and what it should

table == <<at, ahead, entry, directory, maxp, p, keyCount, segmentCount>>
vars  == <<table, result, cursor, listing>>

Absent == -1

(* The bucket of a key in a table that has split q buckets of mp. *)
HashIn(k, mp, q) ==
    LET address == Hash[k] % mp
    IN  IF address < q THEN Hash[k] % (2 * mp) ELSE address

Address(k) == HashIn(k, maxp, p)

(* The search finds an element only in the bucket its key selects now. *)
Found(k)  == at[k] = Address(k)
Answer(k) == IF Found(k) THEN entry[k] ELSE None

-------------------------------------------------------------------------------
(* An idle listing is kept in one form. *)
NoListing == [on |-> FALSE, returned |-> {}, twice |-> FALSE, due |-> {}]
NoCursor  == [at |-> 0, next |-> None, type |-> Any]

Init ==
    /\ at = [k \in Keys |-> Absent]
    /\ ahead = {}
    /\ entry = [k \in Keys |-> None]
    /\ segmentCount \in {Segments(c) : c \in Counts}
    /\ maxp = segmentCount * SegmentSize
    /\ p = 0
    /\ directory = 0..(segmentCount - 1)
    /\ keyCount = 0
    /\ result = None
    /\ cursor = NoCursor
    /\ listing = NoListing

-------------------------------------------------------------------------------
Find(k) ==
    /\ result' = Answer(k)
    /\ UNCHANGED <<table, cursor, listing>>

(* Unlinked and freed; a cursor that was to return it next is left with it. *)
Unlinked(k) == {x \in ahead : x[1] # k /\ x[2] # k}

Delete(k) ==
    /\ result' = Answer(k)
    /\ IF Found(k)
       THEN /\ at' = [at EXCEPT ![k] = Absent]
            /\ ahead' = Unlinked(k)
            /\ entry' = [entry EXCEPT ![k] = None]
            /\ keyCount' = keyCount - 1
            /\ cursor' = IF cursor.next = k THEN [cursor EXCEPT !.next = Freed] ELSE cursor
            /\ listing' = IF cursor.next = k THEN NoListing
                                             ELSE [listing EXCEPT !.due = @ \ {k},
                                                                  !.returned = @ \ {k}]
            /\ UNCHANGED <<directory, maxp, p, segmentCount>>
       ELSE UNCHANGED <<table, cursor, listing>>

(* The load counts segments by SegmentCount. *)
OverFull(keys) == keys \div (segmentCount * SegmentSize) > MaxLoadFactor

NewAddress == maxp + p
MayExpand  == NewAddress < DirectorySize * SegmentSize
(* fault: p is compared before it is incremented *)
LastOfRoundBefore == p = maxp
LastOfRound == p + 1 = maxp
NextMaxp   == IF LastOfRound THEN 2 * maxp ELSE maxp
NextP      == IF LastOfRound THEN 0 ELSE p + 1

(* fault: the keys are hashed before the state variables are adjusted *)
MovesInOldTable(places) ==
    {k \in Keys : places[k] = p /\ HashIn(k, maxp, p) = NewAddress}
(* The elements of the split bucket that the grown table looks up in the   *)
(* new bucket move there and keep their order.                             *)
Moves(places) ==
    {k \in Keys : places[k] = p /\ HashIn(k, NextMaxp, NextP) = NewAddress}

expand_table(places, order) ==
    /\ at' = [k \in Keys |-> IF k \in Moves(places) THEN NewAddress ELSE places[k]]
    /\ ahead' = {x \in order : x[1] \in Moves(places) <=> x[2] \in Moves(places)}
    /\ directory' = IF NewAddress % SegmentSize = 0
                    THEN directory \cup {NewAddress \div SegmentSize}
                    ELSE directory
    /\ maxp' = NextMaxp
    /\ p' = NextP
    /\ segmentCount' = segmentCount + 1
    /\ listing' = NoListing

(* A new element goes to the end of its chain; the table is expanded when  *)
(* that makes it too full.                                                 *)
InsertNew(k, t) ==
    LET places == [at EXCEPT ![k] = Address(k)]
        order  == ahead \cup {<<l, k>> : l \in {m \in Keys : at[m] = Address(k)}}
    IN  /\ ~Found(k)
        /\ result' = None
        /\ entry' = [entry EXCEPT ![k] = t]
        /\ keyCount' = keyCount + 1
        /\ UNCHANGED cursor
        /\ IF OverFull(keyCount + 1) /\ MayExpand
           THEN expand_table(places, order)
           ELSE /\ at' = places
                /\ ahead' = order
                /\ UNCHANGED <<directory, maxp, p, segmentCount, listing>>

(* fault: the key is counted before the duplicate is seen *)
CountedTwice(k, t) ==
    /\ Found(k)
    /\ result' = entry[k]
    /\ keyCount' = keyCount + 1
    /\ UNCHANGED <<at, ahead, entry, directory, maxp, p, segmentCount, cursor, listing>>

(* fault: a second insertion replaces what the element carries *)
Replaced(k, t) ==
    /\ Found(k)
    /\ result' = entry[k]
    /\ entry' = [entry EXCEPT ![k] = t]
    /\ UNCHANGED <<at, ahead, directory, maxp, p, keyCount, segmentCount, cursor, listing>>

(* The element already there is returned and stays as it is. *)
InsertTwice(k, t) ==
    /\ Found(k)
    /\ result' = entry[k]
    /\ UNCHANGED <<table, cursor, listing>>

Insert(k, t) == InsertNew(k, t) \/ InsertTwice(k, t)

-------------------------------------------------------------------------------
(* HASHlistinit: the cursor starts again, for one type or for all. *)
listinit(type) ==
    /\ cursor' = [at |-> 0, next |-> None, type |-> type]
    /\ listing' = [on |-> TRUE, returned |-> {}, twice |-> FALSE,
                   due |-> {k \in Keys : at[k] # Absent /\ type \in {Any, entry[k]}}]
    /\ UNCHANGED <<table, result>>

(* What the walk still visits, as pairs of the address it sees an element  *)
(* at and the element: the rest of the chain the cursor holds, wherever    *)
(* that chain is now, then the buckets from the address reached.           *)
Ahead(k)  == {l \in Keys : <<k, l>> \in ahead}
Chain(a)  == {<<a, k>> : k \in {l \in Keys : at[l] = a}}
Visible   == {a \in Addresses : a < segmentCount * SegmentSize /\ a \div SegmentSize \in directory}
Rest      == IF cursor.next = None THEN {}
             ELSE {<<cursor.at, k>> : k \in {cursor.next} \cup Ahead(cursor.next)}
Todo      == Rest \cup UNION {Chain(a) : a \in {b \in Visible :
                                 b > cursor.at \/ (b = cursor.at /\ cursor.next = None)}}

Before(x, y)  == x[1] < y[1] \/ (x[1] = y[1] /\ <<x[2], y[2]>> \in ahead)
First(visits) == CHOOSE x \in visits : \A y \in visits \ {x} : Before(x, y)

Wanted == {x \in Todo : cursor.type \in {Any, entry[x[2]]}}

(* After an element the cursor holds the one that follows it in its chain, *)
(* of whatever type, else the next one of its type in a later bucket, else *)
(* it has passed the last segment.                                         *)
EndOfTable == (segmentCount + 1) * SegmentSize
(* fault: at the end of a chain the cursor stays at its bucket *)
AfterInChain(x) ==
    LET following == {y \in Todo : y[1] = x[1] /\ <<x[2], y[2]>> \in ahead}
    IN  IF following # {} THEN First(following) ELSE <<x[1], None>>
After(x) ==
    LET following == {y \in Todo : y[1] = x[1] /\ <<x[2], y[2]>> \in ahead}
        later     == Wanted \ {x}
    IN  IF following # {} THEN First(following)
        ELSE IF later # {} THEN First(later) ELSE <<EndOfTable, None>>

Moved(x) == [cursor EXCEPT !.at = x[1], !.next = x[2]]

ListOne ==
    LET e == First(Wanted)
    IN  /\ Wanted # {}
        /\ cursor' = Moved(After(e))
        /\ listing' = IF listing.on
                      THEN [listing EXCEPT !.returned = @ \cup {e[2]},
                                           !.twice = @ \/ e[2] \in listing.returned]
                      ELSE listing

ListNone ==
    /\ Wanted = {}
    /\ cursor' = Moved(<<EndOfTable, None>>)
    /\ UNCHANGED listing

(* SegmentCount is one up at every split and the walks run to it.  Past    *)
(* DIRECTORY_SIZE they leave the directory, and a walk whose next element  *)
(* was freed reads freed memory: what happens then is not modelled.        *)
InDirectory == segmentCount <= DirectorySize

List ==
    /\ InDirectory
    /\ cursor.next # Freed
    /\ ListOne \/ ListNone
    /\ UNCHANGED <<table, result>>

-------------------------------------------------------------------------------
(* HASHcopy: the segments below SegmentCount and their chains, in order.   *)
(* The client goes on with the copy, and with no walk under way.           *)
(* fault: the buckets split in this round are not copied *)
ReachedUnsplit == {k \in Keys : at[k] \in Visible /\ at[k] < maxp}
Reached == {k \in Keys : at[k] \in Visible}

Copy ==
    /\ InDirectory
    /\ at' = [k \in Keys |-> IF k \in Reached THEN at[k] ELSE Absent]
    /\ ahead' = {x \in ahead : x[1] \in Reached}
    /\ entry' = [k \in Keys |-> IF k \in Reached THEN entry[k] ELSE None]
    /\ directory' = 0..(segmentCount - 1)
    /\ cursor' = NoCursor
    /\ listing' = NoListing
    /\ UNCHANGED <<maxp, p, keyCount, segmentCount, result>>

(* HASHdestroy frees the elements it reaches and a new table is created.   *)
(* An element it does not reach is leaked: it stays in "entry".            *)
Recreate ==
    /\ InDirectory
    /\ at' = [k \in Keys |-> Absent]
    /\ ahead' = {}
    /\ entry' = [k \in Keys |-> IF k \in Reached THEN None ELSE entry[k]]
    /\ segmentCount' \in {Segments(c) : c \in Counts}
    /\ maxp' = segmentCount' * SegmentSize
    /\ p' = 0
    /\ directory' = 0..(segmentCount' - 1)
    /\ keyCount' = 0
    /\ result' = None
    /\ cursor' = NoCursor
    /\ listing' = NoListing

-------------------------------------------------------------------------------
Next ==
    \/ \E k \in Keys : Find(k) \/ Delete(k) \/ \E t \in Types : Insert(k, t)
    \/ \E type \in Types \cup {Any} : listinit(type)
    \/ List
    \/ Copy
    \/ Recreate

Spec == Init /\ [][Next]_vars

-------------------------------------------------------------------------------
(* Every variable has its type. *)
TableOK ==
    /\ at \in [Keys -> Addresses \cup {Absent}]
    /\ ahead \in SUBSET (Keys \X Keys)
    /\ entry \in [Keys -> Types \cup {None}]
    /\ directory \in SUBSET (0..(DirectorySize - 1))
    /\ maxp \in Nat \ {0} /\ p \in 0..(maxp - 1)
    /\ maxp + p <= DirectorySize * SegmentSize
    /\ keyCount \in Nat /\ segmentCount \in Nat \ {0}

TypeOK ==
    /\ TableOK
    /\ result \in Types \cup {None}
    /\ cursor \in [at : Nat, next : Keys \cup {None, Freed}, type : Types \cup {Any}]
    /\ listing \in [on : BOOLEAN, returned : SUBSET Keys, twice : BOOLEAN, due : SUBSET Keys]

(* Through every split, each element is in the bucket its key selects in   *)
(* the table as it is now, and every bucket a key can select lies in an    *)
(* allocated segment (SC_HASHsearch: "valid segment ensured by HASHhash")  *)
(* that walks, copies and the destruction of the table reach.              *)
WellPlaced ==
    /\ \A k \in Keys : at[k] # Absent => at[k] = Address(k)
    /\ \A a \in Addresses : a < maxp + p => a \div SegmentSize \in directory
    /\ maxp + p <= segmentCount * SegmentSize

(* Splits, deletions and copies leave every chain one line of elements,    *)
(* and no link leads from one chain to another.                            *)
ChainsOrdered ==
    /\ \A x \in ahead : at[x[1]] = at[x[2]] /\ at[x[1]] # Absent
    /\ \A k, l \in Keys : at[k] = at[l] /\ at[k] # Absent /\ k # l
                           => (<<k, l>> \in ahead <=> <<l, k>> \notin ahead)
    /\ \A k, l, n \in Keys : <<k, l>> \in ahead /\ <<l, n>> \in ahead => <<k, n>> \in ahead

(* KeyCount, which decides when to grow, is the number of elements, and an *)
(* element is in a chain exactly when the client has it in the table.      *)
Elements == {k \in Keys : at[k] # Absent}
KeyCountExact ==
    /\ keyCount = Cardinality(Elements)
    /\ \A k \in Keys : at[k] # Absent <=> entry[k] # None

(* A walk during which no bucket is split returns every element that was   *)
(* there when it began and is still there, of the type asked for, and none *)
(* twice, whatever is inserted and deleted between two calls.              *)
ListsOnce ==
    listing.on => /\ ~listing.twice
                  /\ cursor.at = EndOfTable => listing.due \subseteq listing.returned

(* The table is a map: a lookup finds what was inserted and not deleted,   *)
(* however the table grew in between.                                      *)
Dict == INSTANCE Dictionary WITH map <- entry
ImplementsDictionary == Dict!Spec

===============================================================================
