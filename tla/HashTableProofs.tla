---------------------------- MODULE HashTableProofs ----------------------------
(***************************************************************************)
(* The hash table keeps every element where a search looks for it, for any *)
(* keys, hash numbers, segment and directory sizes and load factor, it     *)
(* implements Dictionary, and a walk returns what stays in it, once.       *)
(***************************************************************************)
EXTENDS HashTable, FiniteSetTheorems, InductionLemmas, TLAPS

(* The properties hold together; a deletion may lower the count because it *)
(* is exact, and an element moves to a bucket that exists.                 *)
Inv == /\ TableOK
       /\ WellPlaced
       /\ ChainsOrdered
       /\ KeyCountExact
       /\ IsFiniteSet(Elements)

-------------------------------------------------------------------------------
(* Division by a positive number. *)
LEMMA Division ==
    ASSUME NEW h \in Nat, NEW m \in Nat \ {0}
    PROVE  h % m \in 0..(m - 1) /\ h \div m \in Nat /\ h = m * (h \div m) + (h % m)
  BY SMTT(60)

LEMMA Remainder ==
    ASSUME NEW h \in Nat, NEW m \in Nat \ {0}, NEW q \in Int, NEW r \in 0..(m - 1), h = m * q + r
    PROVE  h % m = r
  BY SMTT(60)

LEMMA Quotient ==
    ASSUME NEW h \in Nat, NEW m \in Nat \ {0}, NEW q \in Int, NEW r \in 0..(m - 1), h = m * q + r
    PROVE  h \div m = q
  BY SMTT(60)

(* What a number leaves modulo twice m is what it leaves modulo m, or m    *)
(* more.                                                                   *)
LEMMA Doubling ==
    ASSUME NEW h \in Nat, NEW m \in Nat \ {0}
    PROVE  h % (2 * m) = h % m \/ h % (2 * m) = (h % m) + m
<1> DEFINE q == h \div (2 * m)
           r == h % (2 * m)
<1>1. 2 * m \in Nat \ {0}
  OBVIOUS
<1>2. r \in 0..(2 * m - 1) /\ q \in Nat /\ h = (2 * m) * q + r
  BY <1>1, Division
<1>3. CASE r < m
  <2>1. h = m * (2 * q) + r
    BY <1>2, SMTT(60)
  <2>2. 2 * q \in Int /\ r \in 0..(m - 1)
    BY <1>2, <1>3
  <2> QED
    BY <2>1, <2>2, Remainder
<1>4. CASE r >= m
  <2>1. h = m * (2 * q + 1) + (r - m)
    BY <1>2, SMTT(60)
  <2>2. 2 * q + 1 \in Int /\ r - m \in 0..(m - 1)
    BY <1>2, <1>4
  <2>3. h % m = r - m
    BY <2>1, <2>2, Remainder
  <2> QED
    BY <2>3, <1>2
<1> QED
  BY <1>2, <1>3, <1>4

(* Neighbours that no multiple of s separates are in the same segment. *)
LEMMA SameSegment ==
    ASSUME NEW a \in Nat \ {0}, NEW s \in Nat \ {0}, a % s # 0
    PROVE  (a - 1) \div s = a \div s
<1>1. a % s \in 0..(s - 1) /\ a \div s \in Nat /\ a = s * (a \div s) + (a % s)
  BY Division
<1>2. PICK q \in Nat, r \in 0..(s - 1) : q = a \div s /\ r = (a % s) - 1
  BY <1>1
<1>3. a - 1 = s * q + r /\ a - 1 \in Nat
  BY <1>1, <1>2
<1>4. (a - 1) \div s = q
  BY <1>3, Quotient
<1> QED
  BY <1>2, <1>4

(* The segment of an address below n segments is one of them. *)
LEMMA SegmentBelow ==
    ASSUME NEW a \in Nat, NEW s \in Nat \ {0}, NEW n \in Nat, a < n * s
    PROVE  a \div s \in 0..(n - 1)
<1> DEFINE q == a \div s
<1>1. a % s \in 0..(s - 1) /\ q \in Nat /\ a = s * q + (a % s)
  BY Division
<1>2. s * q <= a
  BY <1>1
<1>3. s * q < n * s
  BY <1>1, <1>2
<1> HIDE DEF q
<1>4. q < n
  <2>1. SUFFICES ASSUME q - n \in Nat PROVE FALSE
    BY <1>1
  <2>2. PICK e \in Nat : e = q - n
    BY <2>1
  <2>3. q = n + e
    BY <2>2, <1>1
  <2>4. s * q = n * s + s * e
    BY <2>3, SMTT(60)
  <2>5. s * e \in Nat
    BY SMTT(60)
  <2> QED
    BY <2>4, <2>5, <1>3, SMTT(60)
<1> QED
  BY <1>1, <1>4 DEF q

-------------------------------------------------------------------------------
(* The address of a key, before and after one split. *)
LEMMA HashRange ==
    ASSUME NEW k \in Keys, NEW m \in Nat \ {0}, NEW q \in 0..(m - 1)
    PROVE  HashIn(k, m, q) \in 0..(m + q - 1)
<1>1. Hash[k] \in Nat
  BY HashAssumption
<1>2. Hash[k] % m \in 0..(m - 1)
  BY <1>1, Division
<1>3. Hash[k] % (2 * m) = Hash[k] % m \/ Hash[k] % (2 * m) = (Hash[k] % m) + m
  BY <1>1, Doubling
<1> QED
  BY <1>2, <1>3 DEF HashIn

LEMMA HashSplit ==
    ASSUME NEW k \in Keys, NEW m \in Nat \ {0}, NEW q \in 0..(m - 1)
    PROVE  /\ q + 1 = m => HashIn(k, 2 * m, 0) \in {HashIn(k, m, q), m + q}
           /\ q + 1 # m => HashIn(k, m, q + 1) \in {HashIn(k, m, q), m + q}
           /\ q + 1 = m /\ HashIn(k, m, q) # q => HashIn(k, 2 * m, 0) = HashIn(k, m, q)
           /\ q + 1 # m /\ HashIn(k, m, q) # q => HashIn(k, m, q + 1) = HashIn(k, m, q)
<1>1. Hash[k] \in Nat
  BY HashAssumption
<1>2. Hash[k] % m \in 0..(m - 1)
  BY <1>1, Division
<1>3. Hash[k] % (2 * m) = Hash[k] % m \/ Hash[k] % (2 * m) = (Hash[k] % m) + m
  BY <1>1, Doubling
<1>4. ASSUME q + 1 = m
      PROVE  /\ HashIn(k, 2 * m, 0) \in {HashIn(k, m, q), m + q}
             /\ HashIn(k, m, q) # q => HashIn(k, 2 * m, 0) = HashIn(k, m, q)
  <2>1. HashIn(k, 2 * m, 0) = Hash[k] % (2 * m)
    BY <1>2, <1>3, <1>4 DEF HashIn
  <2> QED
    BY <2>1, <1>2, <1>3, <1>4 DEF HashIn
<1>5. ASSUME q + 1 # m
      PROVE  /\ HashIn(k, m, q + 1) \in {HashIn(k, m, q), m + q}
             /\ HashIn(k, m, q) # q => HashIn(k, m, q + 1) = HashIn(k, m, q)
  BY <1>2, <1>3, <1>5 DEF HashIn
<1> QED
  BY <1>4, <1>5

-------------------------------------------------------------------------------
(* The parts of the invariant as statements about places and an order. *)
Places(at1)  == at1 \in [Keys -> Addresses \cup {Absent}]
Placed(at1)  == \A k \in Keys : at1[k] # Absent => at1[k] = Address(k)
Ordered(at1, ahead1) ==
    /\ ahead1 \in SUBSET (Keys \X Keys)
    /\ \A x \in ahead1 : at1[x[1]] = at1[x[2]] /\ at1[x[1]] # Absent
    /\ \A k, l \in Keys : at1[k] = at1[l] /\ at1[k] # Absent /\ k # l
                           => (<<k, l>> \in ahead1 <=> <<l, k>> \notin ahead1)
    /\ \A k, l, n \in Keys : <<k, l>> \in ahead1 /\ <<l, n>> \in ahead1
                              => <<k, n>> \in ahead1

LEMMA AddressRange ==
    ASSUME Inv, NEW k \in Keys
    PROVE  Address(k) \in Addresses /\ Address(k) \in 0..(maxp + p - 1)
<1>1. maxp \in Nat \ {0} /\ p \in 0..(maxp - 1) /\ maxp + p <= DirectorySize * SegmentSize
  BY DEF Inv, TableOK
<1>2. DirectorySize * SegmentSize \in Nat
  BY SizeAssumption, SMTT(30)
<1>3. HashIn(k, maxp, p) \in 0..(maxp + p - 1)
  BY <1>1, HashRange
<1> QED
  BY <1>1, <1>2, <1>3 DEF Address, Addresses

(* What a search does not find is not in the table. *)
LEMMA NotFoundIsAbsent ==
    ASSUME Inv, NEW k \in Keys
    PROVE  Found(k) <=> at[k] # Absent
<1>1. Address(k) # Absent
  BY AddressRange DEF Addresses, Absent
<1> QED
  BY <1>1 DEF Inv, WellPlaced, Found

LEMMA InsertedLast ==
    ASSUME Inv, NEW k \in Keys, ~Found(k),
           NEW places, NEW order,
           places = [at EXCEPT ![k] = Address(k)],
           order = ahead \cup {<<l, k>> : l \in {m \in Keys : at[m] = Address(k)}}
    PROVE  /\ Places(places) /\ Placed(places) /\ Ordered(places, order)
           /\ {l \in Keys : places[l] # Absent} = Elements \cup {k}
           /\ k \notin Elements
<1>1. at[k] = Absent /\ Address(k) # Absent /\ Address(k) \in Addresses
  BY NotFoundIsAbsent, AddressRange DEF Addresses, Absent
<1>2. Places(places)
  BY <1>1 DEF Places, Inv, TableOK
<1>3. Placed(places)
  BY <1>1 DEF Placed, Inv, WellPlaced, TableOK
<1>4. \A l \in Keys : places[l] = IF l = k THEN Address(k) ELSE at[l]
  BY DEF Inv, TableOK
<1>5. \A x \in ahead : x[1] \in Keys /\ x[2] \in Keys /\ x[1] # k /\ x[2] # k
  BY <1>1 DEF Inv, TableOK, ChainsOrdered
<1>6. \A l, n \in Keys : <<l, n>> \in order
          <=> <<l, n>> \in ahead \/ (n = k /\ at[l] = Address(k))
  OBVIOUS
<1>7. order \in SUBSET (Keys \X Keys)
  BY DEF Inv, TableOK
<1>8. Ordered(places, order)
  <2>1. \A x \in order : places[x[1]] = places[x[2]] /\ places[x[1]] # Absent
    BY <1>1, <1>4, <1>5 DEF Inv, ChainsOrdered
  <2>2. ASSUME NEW l \in Keys, NEW n \in Keys, places[l] = places[n],
               places[l] # Absent, l # n
        PROVE  <<l, n>> \in order <=> <<n, l>> \notin order
    BY <2>2, <1>1, <1>4, <1>5, <1>6 DEF Inv, ChainsOrdered
  <2>3. ASSUME NEW l \in Keys, NEW n \in Keys, NEW o \in Keys,
               <<l, n>> \in order, <<n, o>> \in order
        PROVE  <<l, o>> \in order
    <3>1. <<l, n>> \in ahead
      BY <2>3, <1>1, <1>5, <1>6
    <3>2. at[l] = at[n]
      BY <3>1 DEF Inv, ChainsOrdered
    <3> QED
      BY <2>3, <3>1, <3>2, <1>6 DEF Inv, ChainsOrdered
  <2> QED
    BY <1>7, <2>1, <2>2, <2>3 DEF Ordered
<1>9. {l \in Keys : places[l] # Absent} = Elements \cup {k} /\ k \notin Elements
  BY <1>1, <1>4 DEF Elements
<1> QED
  BY <1>2, <1>3, <1>8, <1>9

-------------------------------------------------------------------------------
(* A table as SC_HASHcreate leaves it. *)
Fresh ==
    /\ at = [k \in Keys |-> Absent] /\ ahead = {} /\ entry = [k \in Keys |-> None]
    /\ segmentCount \in {Segments(c) : c \in Counts}
    /\ maxp = segmentCount * SegmentSize /\ p = 0
    /\ directory = 0..(segmentCount - 1)
    /\ keyCount = 0

LEMMA FreshInv == Fresh => Inv
<1> SUFFICES ASSUME Fresh PROVE Inv
  OBVIOUS
<1>1. PICK c \in Counts : segmentCount = Segments(c)
  BY DEF Fresh
<1>2. PICK n \in 1..DirectorySize : segmentCount = n
  BY <1>1, CountsAssumption
<1>3. n * SegmentSize \in Nat \ {0} /\ n * SegmentSize <= DirectorySize * SegmentSize
  <2>1. PICK e \in Nat : DirectorySize = n + e
    BY SizeAssumption
  <2>2. DirectorySize * SegmentSize = n * SegmentSize + e * SegmentSize
    BY <2>1, SizeAssumption, SMTT(30)
  <2>3. e * SegmentSize \in Nat /\ n * SegmentSize \in Nat \ {0}
    BY SizeAssumption, SMTT(30)
  <2> QED
    BY <2>2, <2>3
<1>4. maxp = n * SegmentSize /\ p = 0 /\ directory = 0..(n - 1)
  BY <1>2 DEF Fresh
<1>5. TableOK
  <2>1. at \in [Keys -> Addresses \cup {Absent}] /\ ahead \in SUBSET (Keys \X Keys)
    BY DEF Fresh
  <2>2. entry \in [Keys -> Types \cup {None}]
    BY DEF Fresh
  <2>3. directory \in SUBSET (0..(DirectorySize - 1))
    BY <1>4, SizeAssumption
  <2>4. maxp \in Nat \ {0} /\ p \in 0..(maxp - 1) /\ maxp + p <= DirectorySize * SegmentSize
    BY <1>3, <1>4
  <2>5. keyCount \in Nat /\ segmentCount \in Nat \ {0}
    BY <1>2 DEF Fresh
  <2> QED
    BY <2>1, <2>2, <2>3, <2>4, <2>5 DEF TableOK
<1>6. WellPlaced
  <2>1. \A a \in Addresses : a < maxp + p => a \div SegmentSize \in directory
    BY <1>2, <1>3, <1>4, SizeAssumption, SegmentBelow DEF Addresses
  <2> QED
    BY <2>1, <1>2, <1>3, <1>4 DEF WellPlaced, Fresh
<1>7. ChainsOrdered
  BY DEF ChainsOrdered, Fresh
<1>8. Elements = {}
  BY DEF Elements, Fresh
<1>9. KeyCountExact
  BY <1>8, FS_EmptySet DEF KeyCountExact, Fresh
<1> QED
  BY <1>5, <1>6, <1>7, <1>8, <1>9, FS_EmptySet DEF Inv

LEMMA InitInv == Init => Inv
  BY FreshInv DEF Init, Fresh

(* Walks, copies and destruction reach every element. *)
LEMMA AllReached ==
    ASSUME Inv, NEW k \in Keys
    PROVE  k \in Reached <=> at[k] # Absent
<1>1. CASE at[k] # Absent
  <2>1. at[k] \in Addresses /\ at[k] < maxp + p
    BY <1>1, AddressRange DEF Inv, WellPlaced, TableOK
  <2>2. segmentCount * SegmentSize \in Nat
    BY SizeAssumption, SMTT(30) DEF Inv, TableOK
  <2>3. at[k] < segmentCount * SegmentSize
    BY <2>1, <2>2 DEF Inv, WellPlaced, TableOK, Addresses
  <2>4. at[k] \in Visible
    BY <2>1, <2>3 DEF Inv, WellPlaced, Visible
  <2> QED
    BY <1>1, <2>4 DEF Reached
<1>2. CASE at[k] = Absent
  BY <1>2 DEF Reached, Visible, Addresses, Absent
<1> QED
  BY <1>1, <1>2

LEMMA UnchangedInv ==
    ASSUME Inv, UNCHANGED table
    PROVE  Inv'
<1>1. TableOK'
  BY DEF Inv, TableOK, table
<1>2. WellPlaced'
  BY DEF Inv, WellPlaced, Address, table
<1>3. ChainsOrdered'
  BY DEF Inv, ChainsOrdered, table
<1>4. Elements' = Elements
  BY DEF Elements, table
<1>5. KeyCountExact'
  BY <1>4 DEF Inv, KeyCountExact, table
<1> QED
  BY <1>1, <1>2, <1>3, <1>4, <1>5 DEF Inv

LEMMA DeleteInv ==
    ASSUME Inv, NEW k \in Keys, Delete(k)
    PROVE  Inv'
<1>1. CASE ~Found(k)
  BY <1>1, UnchangedInv DEF Delete
<1>2. CASE Found(k)
  <2>1. k \in Elements
    BY <1>2, NotFoundIsAbsent DEF Elements
  <2>2. at' = [at EXCEPT ![k] = Absent] /\ ahead' = Unlinked(k)
        /\ entry' = [entry EXCEPT ![k] = None] /\ keyCount' = keyCount - 1
        /\ UNCHANGED <<directory, maxp, p, segmentCount>>
    BY <1>2 DEF Delete
  <2>3. at \in [Keys -> Addresses \cup {Absent}]
    BY DEF Inv, TableOK
  <2>4. Elements' = Elements \ {k}
    BY <2>2, <2>3 DEF Elements
  <2>5. keyCount = Cardinality(Elements) /\ keyCount \in Nat /\ IsFiniteSet(Elements)
    BY DEF Inv, KeyCountExact, TableOK
  <2>6. keyCount' = Cardinality(Elements') /\ keyCount' \in Nat /\ IsFiniteSet(Elements')
    <3>1. IsFiniteSet(Elements \ {k}) /\ Cardinality(Elements \ {k}) = Cardinality(Elements) - 1
      BY <2>1, <2>5, FS_RemoveElement
    <3>2. Cardinality(Elements \ {k}) \in Nat
      BY <3>1, FS_CardinalityType
    <3> QED
      BY <3>1, <3>2, <2>2, <2>4, <2>5
  <2>7. TableOK'
    BY <2>2, <2>6 DEF Inv, TableOK, Unlinked
  <2>8. WellPlaced'
    BY <2>2, <2>3 DEF Inv, WellPlaced, Address
  <2>9. ChainsOrdered'
    <3>1. \A l \in Keys : at'[l] = IF l = k THEN Absent ELSE at[l]
      BY <2>2, <2>3
    <3>2. \A l, n \in Keys : <<l, n>> \in ahead' <=> <<l, n>> \in ahead /\ l # k /\ n # k
      BY <2>2 DEF Unlinked
    <3>3. \A x \in ahead' : x \in ahead /\ x[1] \in Keys /\ x[2] \in Keys
                            /\ x[1] # k /\ x[2] # k
      BY <2>2 DEF Unlinked, Inv, TableOK
    <3>4. \A x \in ahead' : at'[x[1]] = at'[x[2]] /\ at'[x[1]] # Absent
      BY <3>1, <3>3 DEF Inv, ChainsOrdered
    <3>5. \A l, n \in Keys : at'[l] = at'[n] /\ at'[l] # Absent /\ l # n
                             => (<<l, n>> \in ahead' <=> <<n, l>> \notin ahead')
      BY <3>1, <3>2 DEF Inv, ChainsOrdered
    <3>6. \A l, n, o \in Keys : <<l, n>> \in ahead' /\ <<n, o>> \in ahead'
                                => <<l, o>> \in ahead'
      BY <3>2 DEF Inv, ChainsOrdered
    <3> QED
      BY <3>4, <3>5, <3>6 DEF ChainsOrdered
  <2>10. KeyCountExact'
    BY <2>2, <2>3, <2>6 DEF Inv, KeyCountExact, TableOK
  <2> QED
    BY <2>6, <2>7, <2>8, <2>9, <2>10 DEF Inv
<1> QED
  BY <1>1, <1>2

(* Without a split the new element is at the end of its chain. *)
LEMMA InsertPlainInv ==
    ASSUME Inv, NEW k \in Keys, NEW t \in Types, InsertNew(k, t),
           ~(OverFull(keyCount + 1) /\ MayExpand)
    PROVE  Inv'
<1>1. /\ ~Found(k)
      /\ at' = [at EXCEPT ![k] = Address(k)]
      /\ ahead' = ahead \cup {<<l, k>> : l \in {m \in Keys : at[m] = Address(k)}}
      /\ entry' = [entry EXCEPT ![k] = t] /\ keyCount' = keyCount + 1
      /\ UNCHANGED <<directory, maxp, p, segmentCount>>
  BY DEF InsertNew
<1>2. /\ Places(at') /\ Placed(at') /\ Ordered(at', ahead')
      /\ {l \in Keys : at'[l] # Absent} = Elements \cup {k} /\ k \notin Elements
  BY <1>1, InsertedLast
<1>3. Elements' = Elements \cup {k}
  BY <1>2 DEF Elements
<1>4. keyCount' = Cardinality(Elements') /\ keyCount' \in Nat /\ IsFiniteSet(Elements')
  BY <1>1, <1>2, <1>3, FS_AddElement DEF Inv, KeyCountExact, TableOK
<1>5. TableOK'
  BY <1>1, <1>2, <1>4 DEF Inv, TableOK, Places, Ordered
<1>6. WellPlaced'
  BY <1>1, <1>2 DEF Inv, WellPlaced, Address, Placed
<1>7. ChainsOrdered'
  BY <1>2 DEF Ordered, ChainsOrdered
<1>8. KeyCountExact'
  <2>1. \A l \in Keys : at'[l] # Absent <=> l = k \/ at[l] # Absent
    BY <1>2 DEF Elements
  <2>2. \A l \in Keys : entry'[l] # None <=> l = k \/ entry[l] # None
    BY <1>1, NoneAssumption DEF Inv, TableOK
  <2> QED
    BY <1>4, <2>1, <2>2 DEF Inv, KeyCountExact
<1> QED
  BY <1>4, <1>5, <1>6, <1>7, <1>8 DEF Inv

(* A split moves some elements of one chain to a bucket that was empty.    *)
LEMMA InsertSplitInv ==
    ASSUME Inv, NEW k \in Keys, NEW t \in Types, InsertNew(k, t),
           OverFull(keyCount + 1) /\ MayExpand
    PROVE  Inv'
<1> DEFINE places == [at EXCEPT ![k] = Address(k)]
           order  == ahead \cup {<<l, k>> : l \in {m \in Keys : at[m] = Address(k)}}
<1>1. ~Found(k) /\ entry' = [entry EXCEPT ![k] = t] /\ keyCount' = keyCount + 1
      /\ expand_table(places, order)
  BY DEF InsertNew
<1>2. /\ Places(places) /\ Placed(places) /\ Ordered(places, order)
      /\ {l \in Keys : places[l] # Absent} = Elements \cup {k} /\ k \notin Elements
  BY <1>1, InsertedLast
<1> HIDE DEF places, order
<1>3. maxp \in Nat \ {0} /\ p \in 0..(maxp - 1) /\ NewAddress = maxp + p
      /\ NewAddress < DirectorySize * SegmentSize /\ DirectorySize * SegmentSize \in Nat
      /\ segmentCount \in Nat \ {0} /\ keyCount \in Nat
  BY SizeAssumption, SMTT(30) DEF Inv, TableOK, MayExpand, NewAddress
<1>a. PICK top \in Nat : top = DirectorySize * SegmentSize /\ NewAddress < top
  BY <1>3
<1>4. NewAddress \in Addresses /\ NewAddress # Absent /\ NewAddress \in Nat \ {0}
  BY <1>3 DEF Addresses, Absent
<1>5. maxp' = NextMaxp /\ p' = NextP /\ segmentCount' = segmentCount + 1
  BY <1>1 DEF expand_table
<1>6. maxp' \in Nat \ {0} /\ p' \in 0..(maxp' - 1) /\ maxp' + p' = NewAddress + 1
  BY <1>3, <1>5 DEF NextMaxp, NextP, LastOfRound
<1>7. \A l \in Keys : at'[l] = IF l \in Moves(places) THEN NewAddress ELSE places[l]
  BY <1>1 DEF expand_table
<1>8. \A l \in Moves(places) : l \in Keys /\ places[l] = p /\ HashIn(l, maxp', p') = NewAddress
  BY <1>5 DEF Moves
<1>9. \A l \in Keys : places[l] # Absent => places[l] \in 0..(maxp + p - 1)
  BY <1>2, AddressRange DEF Placed
<1>10. \A l \in Keys : at'[l] # Absent <=> places[l] # Absent
  BY <1>3, <1>4, <1>7, <1>8 DEF Absent
(* every element is where the grown table looks for it *)
<1>11. ASSUME NEW l \in Keys, at'[l] # Absent
       PROVE  at'[l] = HashIn(l, maxp', p')
  <2>1. places[l] = HashIn(l, maxp, p)
    BY <1>2, <1>10, <1>11 DEF Placed, Address
  <2>2. /\ HashIn(l, maxp, p) # p => HashIn(l, maxp', p') = HashIn(l, maxp, p)
        /\ HashIn(l, maxp, p) = p => HashIn(l, maxp', p') \in {p, maxp + p}
    <3>1. maxp' = (IF p + 1 = maxp THEN 2 * maxp ELSE maxp)
          /\ p' = (IF p + 1 = maxp THEN 0 ELSE p + 1)
      BY <1>5 DEF NextMaxp, NextP, LastOfRound
    <3>2. CASE p + 1 = maxp
      BY <3>1, <3>2, <1>3, HashSplit
    <3>3. CASE p + 1 # maxp
      BY <3>1, <3>3, <1>3, HashSplit
    <3> QED
      BY <3>2, <3>3
  <2>3. CASE l \in Moves(places)
    BY <2>3, <1>7, <1>8
  <2>4. CASE l \notin Moves(places)
    <3>1. at'[l] = places[l]
      BY <2>4, <1>7
    <3>2. CASE places[l] = p
      BY <3>1, <3>2, <2>1, <2>2, <2>4, <1>3, <1>5 DEF Moves
    <3>3. CASE places[l] # p
      BY <3>1, <3>3, <2>1, <2>2
    <3> QED
      BY <3>2, <3>3
  <2> QED
    BY <2>3, <2>4
(* every bucket in use has a segment *)
<1>12. directory' \in SUBSET (0..(DirectorySize - 1))
       /\ \A a \in Addresses : a < maxp' + p' => a \div SegmentSize \in directory'
  <2>1. NewAddress \div SegmentSize \in 0..(DirectorySize - 1)
    BY <1>3, <1>4, SizeAssumption, SegmentBelow
  <2>2. directory' \in SUBSET (0..(DirectorySize - 1)) /\ directory \subseteq directory'
    BY <1>1, <2>1 DEF expand_table, Inv, TableOK
  <2>3. NewAddress \div SegmentSize \in directory'
    <3>1. CASE NewAddress % SegmentSize = 0
      BY <1>1, <3>1 DEF expand_table
    <3>2. CASE NewAddress % SegmentSize # 0
      <4>1. (NewAddress - 1) \div SegmentSize = NewAddress \div SegmentSize
        BY <1>4, <3>2, SizeAssumption, SameSegment
      <4>2. NewAddress - 1 \in Addresses /\ NewAddress - 1 < maxp + p
        BY <1>3, <1>4 DEF Addresses
      <4> QED
        BY <4>1, <4>2, <2>2 DEF Inv, WellPlaced
    <3> QED
      BY <3>1, <3>2
  <2>4. ASSUME NEW a \in Addresses, a < maxp' + p'
        PROVE  a \div SegmentSize \in directory'
    <3>1. a \in 0..(top - 1)
      BY <1>a DEF Addresses
    <3>2. a < maxp + p \/ a = NewAddress
      <4>1. a < NewAddress + 1 /\ NewAddress = maxp + p /\ NewAddress \in Nat
        BY <2>4, <1>3, <1>4, <1>6
      <4> QED
        BY <4>1, <3>1
    <3> QED
      BY <3>2, <2>2, <2>3 DEF Inv, WellPlaced
  <2> QED
    BY <2>2, <2>4
<1>13. maxp' + p' <= segmentCount' * SegmentSize
  <2>1. segmentCount' * SegmentSize = segmentCount * SegmentSize + SegmentSize
        /\ segmentCount * SegmentSize \in Nat
    BY <1>3, <1>5, SizeAssumption, SMTT(30)
  <2>2. PICK reach \in Nat : reach = segmentCount * SegmentSize
    BY <2>1
  <2>3. maxp + p <= reach /\ segmentCount' * SegmentSize = reach + SegmentSize
    BY <2>1, <2>2 DEF Inv, WellPlaced
  <2>4. maxp' + p' <= reach + SegmentSize
    <3>1. maxp' + p' = maxp + p + 1
      BY <1>3, <1>6
    <3>2. maxp + p \in Nat
      BY <1>3
    <3> QED
      BY <3>1, <3>2, <2>2, <2>3, SizeAssumption
  <2> QED
    BY <2>3, <2>4
<1>14. Elements' = Elements \cup {k}
  BY <1>2, <1>10 DEF Elements
<1>15. keyCount' = Cardinality(Elements') /\ keyCount' \in Nat /\ IsFiniteSet(Elements')
  BY <1>1, <1>2, <1>3, <1>14, FS_AddElement DEF Inv, KeyCountExact
<1>16. TableOK'
  <2>1. at' \in [Keys -> Addresses \cup {Absent}]
    BY <1>1, <1>2, <1>4 DEF expand_table, Places
  <2>2. ahead' \in SUBSET (Keys \X Keys)
    BY <1>1, <1>2 DEF expand_table, Ordered
  <2>3. entry' \in [Keys -> Types \cup {None}]
    BY <1>1 DEF Inv, TableOK
  <2>4. maxp' + p' <= DirectorySize * SegmentSize
    <3>1. NewAddress < top /\ top = DirectorySize * SegmentSize
      BY <1>a
    <3>2. NewAddress + 1 <= top
      BY <3>1, <1>4
    <3> QED
      BY <3>1, <3>2, <1>6
  <2>5. segmentCount' \in Nat \ {0}
    BY <1>3, <1>5
  <2> QED
    BY <2>1, <2>2, <2>3, <2>4, <2>5, <1>6, <1>12, <1>15 DEF TableOK
<1>17. WellPlaced'
  BY <1>11, <1>12, <1>13 DEF WellPlaced, Address
<1>18. ChainsOrdered'
  <2>1. \A l, n \in Keys : <<l, n>> \in ahead'
           <=> <<l, n>> \in order /\ (l \in Moves(places) <=> n \in Moves(places))
    BY <1>1 DEF expand_table
  <2>2. \A x \in ahead' : x \in order /\ x[1] \in Keys /\ x[2] \in Keys
                          /\ (x[1] \in Moves(places) <=> x[2] \in Moves(places))
    BY <1>1, <1>2 DEF expand_table, Ordered
  <2>3. \A x \in ahead' : at'[x[1]] = at'[x[2]] /\ at'[x[1]] # Absent
    BY <2>2, <1>2, <1>7, <1>10 DEF Ordered
  <2>4. ASSUME NEW l \in Keys, NEW n \in Keys, at'[l] = at'[n], at'[l] # Absent, l # n
        PROVE  <<l, n>> \in ahead' <=> <<n, l>> \notin ahead'
    <3>1. l \in Moves(places) <=> n \in Moves(places)
      BY <2>4, <1>3, <1>7, <1>9, <1>10
    <3>2. places[l] = places[n] /\ places[l] # Absent
      BY <2>4, <3>1, <1>7, <1>8, <1>10
    <3> QED
      BY <2>1, <2>4, <3>1, <3>2, <1>2 DEF Ordered
  <2>5. ASSUME NEW l \in Keys, NEW n \in Keys, NEW o \in Keys,
               <<l, n>> \in ahead', <<n, o>> \in ahead'
        PROVE  <<l, o>> \in ahead'
    BY <2>1, <2>5, <1>2 DEF Ordered
  <2> QED
    BY <2>3, <2>4, <2>5 DEF ChainsOrdered
<1>19. KeyCountExact'
  <2>1. \A l \in Keys : at'[l] # Absent <=> l = k \/ at[l] # Absent
    BY <1>14 DEF Elements
  <2>2. \A l \in Keys : entry'[l] # None <=> l = k \/ entry[l] # None
    BY <1>1, NoneAssumption DEF Inv, TableOK
  <2> QED
    BY <1>15, <2>1, <2>2 DEF Inv, KeyCountExact
<1> QED
  BY <1>15, <1>16, <1>17, <1>18, <1>19 DEF Inv

(* A copy has the chains of the table and every segment in use. *)
LEMMA CopyInv ==
    ASSUME Inv, Copy
    PROVE  Inv'
<1>1. at' = at
  BY AllReached DEF Copy, Inv, TableOK
<1>2. ahead' = ahead
  <2>1. \A x \in ahead : x[1] \in Reached
    BY AllReached DEF Inv, TableOK, ChainsOrdered
  <2> QED
    BY <2>1 DEF Copy
<1>3. entry' = entry
  BY AllReached DEF Copy, Inv, TableOK, KeyCountExact
<1>4. directory' = 0..(segmentCount - 1) /\ segmentCount <= DirectorySize
      /\ UNCHANGED <<maxp, p, keyCount, segmentCount>>
  BY DEF Copy, InDirectory
<1>5. TableOK'
  BY <1>1, <1>2, <1>3, <1>4, SizeAssumption DEF Inv, TableOK
<1>6. WellPlaced'
  <2>1. ASSUME NEW a \in Addresses, a < maxp + p
        PROVE  a \div SegmentSize \in directory'
    <3>1. PICK reach \in Nat : reach = segmentCount * SegmentSize
      BY SizeAssumption, SMTT(30) DEF Inv, TableOK
    <3>2. a < reach /\ a \in Nat
      BY <2>1, <3>1 DEF Inv, TableOK, WellPlaced, Addresses
    <3> QED
      BY <3>1, <3>2, <1>4, SizeAssumption, SegmentBelow DEF Inv, TableOK
  <2> QED
    BY <2>1, <1>1, <1>4 DEF Inv, WellPlaced, Address
<1>7. ChainsOrdered'
  BY <1>1, <1>2 DEF Inv, ChainsOrdered
<1>8. Elements' = Elements
  BY <1>1 DEF Elements
<1>9. KeyCountExact'
  BY <1>1, <1>3, <1>4, <1>8 DEF Inv, KeyCountExact
<1> QED
  BY <1>5, <1>6, <1>7, <1>8, <1>9 DEF Inv

(* Destruction frees every element, so the new table starts empty. *)
LEMMA RecreateFrees ==
    ASSUME Inv, Recreate
    PROVE  entry' = [k \in Keys |-> None]
  BY AllReached DEF Recreate, Inv, TableOK, KeyCountExact

LEMMA RecreateInv ==
    ASSUME Inv, Recreate
    PROVE  Inv'
<1>1. Fresh'
  BY RecreateFrees DEF Recreate, Fresh
<1>2. Fresh' => Inv'
  BY FreshInv, PTL
<1> QED
  BY <1>1, <1>2

LEMMA NextInv ==
    ASSUME Inv, [Next]_vars
    PROVE  Inv'
<1>1. ASSUME NEW k \in Keys, Find(k) PROVE Inv'
  BY <1>1, UnchangedInv DEF Find
<1>2. ASSUME NEW k \in Keys, Delete(k) PROVE Inv'
  BY <1>2, DeleteInv
<1>3. ASSUME NEW k \in Keys, NEW t \in Types, Insert(k, t) PROVE Inv'
  <2>1. CASE InsertNew(k, t)
    BY <2>1, InsertPlainInv, InsertSplitInv
  <2>2. CASE InsertTwice(k, t)
    BY <2>2, UnchangedInv DEF InsertTwice
  <2> QED
    BY <1>3, <2>1, <2>2 DEF Insert
<1>4. ASSUME NEW type \in Types \cup {Any}, listinit(type) PROVE Inv'
  BY <1>4, UnchangedInv DEF listinit
<1>5. CASE List
  BY <1>5, UnchangedInv DEF List
<1>6. CASE Copy
  BY <1>6, CopyInv
<1>7. CASE Recreate
  BY <1>7, RecreateInv
<1>8. CASE UNCHANGED vars
  BY <1>8, UnchangedInv DEF vars
<1> QED
  BY <1>1, <1>2, <1>3, <1>4, <1>5, <1>6, <1>7, <1>8 DEF Next

LEMMA Invariance == Spec => []Inv
<1>1. Init => Inv
  BY InitInv
<1>2. Inv /\ [Next]_vars => Inv'
  BY NextInv
<1> QED
  BY <1>1, <1>2, PTL DEF Spec

(* Every element is in the bucket its key selects, through any number of   *)
(* splits, and every bucket in use lies in a segment (SC_HASHhash,         *)
(* SC_HASHexpand_table).                                                   *)
THEOREM Addressing == Spec => []WellPlaced
<1>1. Inv => WellPlaced
  BY DEF Inv
<1> QED
  BY <1>1, Invariance, PTL

(* Every chain stays one line of elements (SC_HASHexpand_table relinks two *)
(* chains in one pass).                                                    *)
THEOREM ChainsStayLines == Spec => []ChainsOrdered
<1>1. Inv => ChainsOrdered
  BY DEF Inv
<1> QED
  BY <1>1, Invariance, PTL

(* KeyCount is the number of elements, and an element is in a chain exactly *)
(* while the client has it in the table (SC_HASHsearch).                    *)
THEOREM CountIsExact == Spec => []KeyCountExact
<1>1. Inv => KeyCountExact
  BY DEF Inv
<1> QED
  BY <1>1, Invariance, PTL

-------------------------------------------------------------------------------
LEMMA AnswerIsEntry ==
    ASSUME Inv, NEW k \in Keys
    PROVE  Answer(k) = entry[k] /\ (Found(k) <=> entry[k] # None)
  BY NotFoundIsAbsent DEF Answer, Inv, KeyCountExact

LEMMA StepRefines ==
    ASSUME Inv, [Next]_vars
    PROVE  [Dict!Next]_(Dict!vars)
<1> USE DEF Dict!vars
<1>0. entry \in [Keys -> Types \cup {None}]
  BY DEF Inv, TableOK
<1>1. ASSUME NEW k \in Keys, Find(k) PROVE Dict!Find(k)
  BY <1>1, AnswerIsEntry DEF Find, table, Dict!Find
<1>2. ASSUME NEW k \in Keys, Delete(k) PROVE Dict!Delete(k)
  BY <1>0, <1>2, AnswerIsEntry DEF Delete, table, Dict!Delete
<1>3. ASSUME NEW k \in Keys, NEW t \in Types, Insert(k, t) PROVE Dict!Insert(k, t)
  <2>1. CASE InsertNew(k, t)
    BY <2>1, AnswerIsEntry DEF InsertNew, Dict!Insert
  <2>2. CASE InsertTwice(k, t)
    BY <2>2, AnswerIsEntry DEF InsertTwice, table, Dict!Insert
  <2> QED
    BY <1>3, <2>1, <2>2 DEF Insert
<1>4. ASSUME NEW type \in Types \cup {Any}, listinit(type) PROVE UNCHANGED Dict!vars
  BY <1>4 DEF listinit, table
<1>5. CASE List
  BY <1>5 DEF List, table
<1>6. CASE Copy
  BY <1>6, AllReached DEF Copy, Inv, TableOK, KeyCountExact
<1>7. CASE Recreate
  BY <1>7, RecreateFrees DEF Recreate, Dict!Clear, Dict!Next
<1>8. CASE UNCHANGED vars
  BY <1>8 DEF vars, table
<1> QED
  BY <1>1, <1>2, <1>3, <1>4, <1>5, <1>6, <1>7, <1>8 DEF Next, Dict!Next

(* The hash table implements Dictionary: lookups, insertions and deletions *)
(* answer as a map does; splits, copies and walks are stutters.            *)
THEOREM ImplementsMap == Spec => ImplementsDictionary
<1>1. Init => Dict!Init
  BY DEF Init, Dict!Init
<1>2. Inv /\ [Next]_vars => [Dict!Next]_(Dict!vars)
  BY StepRefines
<1> QED
  BY <1>1, <1>2, Invariance, PTL DEF Spec, ImplementsDictionary, Dict!Spec

-------------------------------------------------------------------------------
(* A finite set that is totally ordered by a relation has a least element: *)
(* the one with the fewest elements before it.                             *)
LEMMA FiniteMin ==
    ASSUME NEW S, IsFiniteSet(S), S # {}, NEW R,
           \A x, y \in S : x # y => <<x, y>> \in R \/ <<y, x>> \in R,
           \A x, y \in S : x # y => ~(<<x, y>> \in R /\ <<y, x>> \in R),
           \A x, y, z \in S : <<x, y>> \in R /\ <<y, z>> \in R => <<x, z>> \in R
    PROVE  \E x \in S : \A y \in S \ {x} : <<x, y>> \in R
<1> DEFINE preds(x) == {y \in S : y # x /\ <<y, x>> \in R}
           T == {Cardinality(preds(x)) : x \in S}
<1>1. \A x \in S : IsFiniteSet(preds(x)) /\ Cardinality(preds(x)) \in Nat
  BY FS_Subset, FS_CardinalityType
<1>2. PICK x \in S : \A y \in S : Cardinality(preds(x)) <= Cardinality(preds(y))
  <2> HIDE DEF preds
  <2>1. T \in SUBSET Nat /\ T # {}
    BY <1>1
  <2>2. \E m \in T : \A n \in T : m <= n
    <3> HIDE DEF T
    <3> QED
      BY <2>1, LeastNumber
  <2> QED
    BY <2>2
<1>3. ASSUME NEW y \in S \ {x}, <<x, y>> \notin R PROVE FALSE
  <2>1. <<y, x>> \in R /\ y # x /\ y \in S
    BY <1>3
  <2>2. preds(y) \subseteq preds(x)
    BY <1>3, <2>1
  <2>3. y \in preds(x) /\ y \notin preds(y)
    BY <2>1
  <2>4. Cardinality(preds(y)) <= Cardinality(preds(x))
        /\ (Cardinality(preds(y)) = Cardinality(preds(x)) => preds(y) = preds(x))
    <3> HIDE DEF preds
    <3> QED
      BY <1>1, <2>2, FS_Subset
  <2>5. preds(y) # preds(x)
    BY <2>3
  <2> HIDE DEF preds
  <2> QED
    BY <1>1, <1>2, <2>1, <2>4, <2>5
<1> QED
  BY <1>3

-------------------------------------------------------------------------------
(* Walks.  What a cursor still visits is in one line, by address and then  *)
(* along the chain, so that there is a first visit.                        *)
NoSelfLink == \A k \in Keys : <<k, k>> \notin ahead

CursorOK ==
    /\ result \in Types \cup {None}
    /\ cursor \in [at : Nat, next : Keys \cup {None, Freed}, type : Types \cup {Any}]
    /\ listing \in [on : BOOLEAN, returned : SUBSET Keys, twice : BOOLEAN, due : SUBSET Keys]

LEMMA TodoShape ==
    ASSUME Inv, CursorOK, cursor.next # Freed
    PROVE  \A x \in Todo :
             /\ x[1] \in Nat /\ x[2] \in Keys /\ x = <<x[1], x[2]>>
             /\ \/ /\ x[1] = cursor.at /\ cursor.next # None
                   /\ x[2] = cursor.next \/ <<cursor.next, x[2]>> \in ahead
                \/ /\ at[x[2]] = x[1] /\ x[1] # Absent
                   /\ x[1] > cursor.at \/ (x[1] = cursor.at /\ cursor.next = None)
<1>1. cursor.at \in Nat /\ (cursor.next # None => cursor.next \in Keys)
  BY DEF CursorOK
<1>2. ASSUME NEW x \in Rest
      PROVE  /\ x[1] \in Nat /\ x[2] \in Keys /\ x = <<x[1], x[2]>>
             /\ x[1] = cursor.at /\ cursor.next # None
             /\ x[2] = cursor.next \/ <<cursor.next, x[2]>> \in ahead
  <2>1. cursor.next # None
    BY <1>2 DEF Rest
  <2>2. PICK k \in {cursor.next} \cup Ahead(cursor.next) : x = <<cursor.at, k>>
    BY <1>2, <2>1 DEF Rest
  <2> QED
    BY <1>1, <2>1, <2>2 DEF Ahead
<1>3. ASSUME NEW b \in Visible, b > cursor.at \/ (b = cursor.at /\ cursor.next = None),
             NEW x \in Chain(b)
      PROVE  /\ x[1] \in Nat /\ x[2] \in Keys /\ x = <<x[1], x[2]>>
             /\ at[x[2]] = x[1] /\ x[1] # Absent
             /\ x[1] > cursor.at \/ (x[1] = cursor.at /\ cursor.next = None)
  <2>1. PICK k \in Keys : x = <<b, k>> /\ at[k] = b
    BY DEF Chain
  <2>2. b \in Nat
    BY <1>3 DEF Visible, Addresses
  <2> QED
    BY <1>3, <2>1, <2>2 DEF Absent
<1> QED
  BY <1>2, <1>3, Zenon DEF Todo

LEMMA TodoFinite ==
    ASSUME Inv, CursorOK, cursor.next # Freed
    PROVE  IsFiniteSet(Todo)
<1> DEFINE N == DirectorySize * SegmentSize
           A == {cursor.at} \cup Addresses
           K == {cursor.next} \cup Elements
<1>1. IsFiniteSet(Addresses)
  <2>1. N \in Nat
    BY SizeAssumption, SMTT(30)
  <2>2. IsFiniteSet(0..(N - 1))
    BY <2>1, FS_Interval
  <2> QED
    BY <2>2 DEF Addresses
<1>2. IsFiniteSet(A) /\ IsFiniteSet(K)
  <2>1. IsFiniteSet(Elements)
    BY DEF Inv
  <2> QED
    BY <1>1, <2>1, FS_Singleton, FS_Union
<1>3. Todo \subseteq A \X K
  <2>1. ASSUME NEW x \in Todo PROVE x[1] \in A /\ x[2] \in K /\ x = <<x[1], x[2]>>
    <3>1. /\ x[1] \in Nat /\ x[2] \in Keys /\ x = <<x[1], x[2]>>
          /\ \/ x[1] = cursor.at /\ (x[2] = cursor.next \/ <<cursor.next, x[2]>> \in ahead)
             \/ at[x[2]] = x[1] /\ x[1] # Absent
      BY <2>1, TodoShape
    <3>2. <<cursor.next, x[2]>> \in ahead => at[x[2]] # Absent
      BY DEF Inv, ChainsOrdered
    <3>3. at[x[2]] # Absent => x[2] \in Elements
      BY <3>1 DEF Elements
    <3>4. at[x[2]] \in Addresses \cup {Absent}
      BY <3>1 DEF Inv, TableOK
    <3> QED
      BY <3>1, <3>2, <3>3, <3>4
  <2> HIDE DEF A, K
  <2> QED
    BY <2>1
<1> HIDE DEF A, K
<1> QED
  BY <1>2, <1>3, FS_Product, FS_Subset

LEMMA FirstVisit ==
    ASSUME Inv, NoSelfLink, CursorOK, cursor.next # Freed,
           NEW V \in SUBSET Todo, V # {}
    PROVE  First(V) \in V /\ \A y \in V \ {First(V)} : Before(First(V), y)
<1> DEFINE R == {z \in V \X V : Before(z[1], z[2])}
<1>0. \A x \in V : x \in Todo
  OBVIOUS
<1>1. \A x \in V :
         /\ x[1] \in Nat /\ x[2] \in Keys /\ x = <<x[1], x[2]>>
         /\ \/ /\ x[1] = cursor.at /\ cursor.next # None /\ cursor.next \in Keys
               /\ x[2] = cursor.next \/ <<cursor.next, x[2]>> \in ahead
            \/ /\ at[x[2]] = x[1] /\ x[1] # Absent
               /\ x[1] > cursor.at \/ (x[1] = cursor.at /\ cursor.next = None)
  BY <1>0, TodoShape DEF CursorOK
<1>2. cursor.at \in Nat
  BY DEF CursorOK
<1>3. ASSUME NEW x \in V, NEW y \in V, x # y, x[1] = y[1]
      PROVE  /\ <<x[2], y[2]>> \in ahead \/ <<y[2], x[2]>> \in ahead
             /\ ~(<<x[2], y[2]>> \in ahead /\ <<y[2], x[2]>> \in ahead)
  <2>1. x[2] # y[2] /\ x[2] \in Keys /\ y[2] \in Keys
    BY <1>1, <1>3
  <2>2. \A k, l \in Keys : <<k, l>> \in ahead => at[k] = at[l] /\ at[k] # Absent
    BY DEF Inv, ChainsOrdered
  <2>3. \A k, l \in Keys : at[k] = at[l] /\ at[k] # Absent /\ k # l
           => (<<k, l>> \in ahead <=> <<l, k>> \notin ahead)
    BY DEF Inv, ChainsOrdered
  <2>4. CASE at[x[2]] = x[1] /\ at[y[2]] = x[1] /\ x[1] # Absent
    BY <2>1, <2>3, <2>4
  <2>5. CASE cursor.next \in Keys
             /\ (x[2] = cursor.next \/ <<cursor.next, x[2]>> \in ahead)
             /\ (y[2] = cursor.next \/ <<cursor.next, y[2]>> \in ahead)
    BY <2>1, <2>2, <2>3, <2>5
  <2> QED
    BY <1>1, <1>2, <1>3, <2>4, <2>5
<1>r. \A x, y \in V : <<x, y>> \in R <=> Before(x, y)
  BY Zenon
<1> HIDE DEF R
<1>4. ASSUME NEW x \in V, NEW y \in V, x # y
      PROVE  /\ <<x, y>> \in R \/ <<y, x>> \in R
             /\ ~(<<x, y>> \in R /\ <<y, x>> \in R)
  <2>1. x[1] \in Nat /\ y[1] \in Nat
    BY <1>1
  <2>2. (Before(x, y) \/ Before(y, x)) /\ ~(Before(x, y) /\ Before(y, x))
    <3>1. CASE x[1] = y[1]
      BY <1>3, <1>4, <2>1, <3>1 DEF Before
    <3>2. CASE x[1] # y[1]
      BY <2>1, <3>2 DEF Before
    <3> QED
      BY <3>1, <3>2
  <2> QED
    BY <1>r, <2>2
<1>6. \A x, y, z \in V : <<x, y>> \in R /\ <<y, z>> \in R => <<x, z>> \in R
  <2>1. \A k, l, n \in Keys : <<k, l>> \in ahead /\ <<l, n>> \in ahead
                               => <<k, n>> \in ahead
    BY DEF Inv, ChainsOrdered
  <2>2. ASSUME NEW x \in V, NEW y \in V, NEW z \in V, Before(x, y), Before(y, z)
        PROVE  Before(x, z)
    <3>1. /\ x[1] \in Nat /\ y[1] \in Nat /\ z[1] \in Nat
          /\ x[2] \in Keys /\ y[2] \in Keys /\ z[2] \in Keys
      BY <1>1
    <3> QED
      BY <2>1, <2>2, <3>1 DEF Before
  <2> QED
    BY <1>r, <2>2
<1>7. IsFiniteSet(V)
  BY TodoFinite, FS_Subset
<1>8. \E x \in V : \A y \in V \ {x} : <<x, y>> \in R
  <2>1. \A x, y \in V : x # y => <<x, y>> \in R \/ <<y, x>> \in R
    BY <1>4
  <2>2. \A x, y \in V : x # y => ~(<<x, y>> \in R /\ <<y, x>> \in R)
    BY <1>4
  <2> QED
    BY <1>6, <1>7, <2>1, <2>2, FiniteMin, ZenonT(60)
<1>9. \E x \in V : \A y \in V \ {x} : Before(x, y)
  BY <1>8, <1>r
<1> QED
  BY <1>9 DEF First

(* The elements a walk has not passed yet, while no bucket was split *)
Left == {k \in Elements :
            IF cursor.next = None THEN at[k] >= cursor.at
            ELSE k = cursor.next \/ <<cursor.next, k>> \in ahead \/ at[k] > cursor.at}

Walk ==
    listing.on =>
        /\ ~listing.twice
        /\ cursor.next # None => cursor.next \in Elements /\ at[cursor.next] = cursor.at
        /\ listing.returned \subseteq Elements \ Left
        /\ \A k \in listing.due : /\ k \in Elements
                                  /\ \/ k \in listing.returned
                                     \/ k \in Left /\ cursor.type \in {Any, entry[k]}

Walks == CursorOK /\ NoSelfLink /\ Walk

LEMMA LeftIsTodo ==
    ASSUME Inv, CursorOK, Walk, listing.on, cursor.next # Freed
    PROVE  /\ \A x \in Todo : /\ x[2] \in Left /\ x[1] = at[x[2]] /\ x[1] \in Nat
                              /\ x = <<at[x[2]], x[2]>>
           /\ \A k \in Left : <<at[k], k>> \in Todo
<1>1. cursor.at \in Nat /\ (cursor.next # None => cursor.next \in Keys)
  BY DEF CursorOK
<1>2. cursor.next # None => cursor.next \in Elements /\ at[cursor.next] = cursor.at
  BY DEF Walk
<1>3. \A k \in Keys : <<cursor.next, k>> \in ahead => at[k] = at[cursor.next] /\ at[k] # Absent
  BY DEF Inv, ChainsOrdered
<1>4. ASSUME NEW x \in Todo
      PROVE  /\ x[2] \in Left /\ x[1] = at[x[2]] /\ x[1] \in Nat /\ x = <<at[x[2]], x[2]>>
  <2>1. /\ x[1] \in Nat /\ x[2] \in Keys /\ x = <<x[1], x[2]>>
        /\ \/ /\ x[1] = cursor.at /\ cursor.next # None
              /\ x[2] = cursor.next \/ <<cursor.next, x[2]>> \in ahead
           \/ /\ at[x[2]] = x[1] /\ x[1] # Absent
              /\ x[1] > cursor.at \/ (x[1] = cursor.at /\ cursor.next = None)
    BY <1>4, TodoShape
  <2>2. at[x[2]] = x[1] /\ at[x[2]] # Absent
    BY <1>2, <1>3, <2>1 DEF Elements
  <2>3. x[2] \in Left
    BY <1>1, <2>1, <2>2 DEF Left, Elements
  <2> QED
    BY <2>1, <2>2, <2>3
<1>5. ASSUME NEW k \in Left PROVE <<at[k], k>> \in Todo
  <2>1. k \in Keys /\ at[k] # Absent /\ at[k] \in Nat
    BY DEF Left, Elements, Inv, TableOK, Addresses
  <2>2. at[k] \in Visible
    BY <2>1, AllReached DEF Reached
  <2>3. <<at[k], k>> \in Chain(at[k])
    BY <2>1 DEF Chain
  <2>4. CASE at[k] > cursor.at \/ (at[k] = cursor.at /\ cursor.next = None)
    BY <2>2, <2>3, <2>4 DEF Todo
  <2>5. CASE cursor.next # None /\ (k = cursor.next \/ <<cursor.next, k>> \in ahead)
    <3>1. at[k] = cursor.at
      BY <1>2, <1>3, <2>1, <2>5
    <3>2. k \in {cursor.next} \cup Ahead(cursor.next)
      BY <2>1, <2>5 DEF Ahead
    <3> QED
      BY <2>5, <3>1, <3>2 DEF Rest, Todo
  <2> QED
    BY <1>1, <2>1, <2>4, <2>5 DEF Left
<1> QED
  BY <1>4, <1>5

(* A visit: what follows it, and what it leaves. *)
LEMMA AfterVisit ==
    ASSUME Inv, NoSelfLink, CursorOK, cursor.next # Freed, Wanted # {}
    PROVE  /\ First(Wanted) \in Wanted
           /\ \A y \in Wanted \ {First(Wanted)} : Before(First(Wanted), y)
           /\ \/ /\ After(First(Wanted)) \in Todo
                 /\ Before(First(Wanted), After(First(Wanted)))
                 /\ \A y \in Wanted \ {First(Wanted), After(First(Wanted))} :
                       Before(After(First(Wanted)), y)
              \/ /\ Wanted = {First(Wanted)}
                 /\ After(First(Wanted)) = <<EndOfTable, None>>
<1> DEFINE x == First(Wanted)
           following == {y \in Todo : y[1] = x[1] /\ <<x[2], y[2]>> \in ahead}
           later == Wanted \ {x}
<1>1. Wanted \subseteq Todo /\ following \subseteq Todo /\ later \subseteq Todo
  BY DEF Wanted
<1>2. x \in Wanted /\ \A y \in Wanted \ {x} : Before(x, y)
  BY <1>1, FirstVisit
<1>3. \A y \in Todo : y[1] \in Nat /\ y[2] \in Keys /\ y = <<y[1], y[2]>>
  BY TodoShape
<1>4. After(x) = IF following # {} THEN First(following)
                 ELSE IF later # {} THEN First(later) ELSE <<EndOfTable, None>>
  BY DEF After
<1> HIDE DEF x
<1>5. CASE following # {}
  <2> DEFINE f == First(following)
  <2>1. f \in following /\ \A y \in following \ {f} : Before(f, y)
    BY <1>1, <1>5, FirstVisit
  <2>2. After(x) = f
    BY <1>4, <1>5
  <2>3. f \in Todo /\ f[1] = x[1] /\ <<x[2], f[2]>> \in ahead
    BY <2>1
  <2> HIDE DEF f
  <2>4. Before(x, f)
    BY <2>3 DEF Before
  <2>5. ASSUME NEW y \in Wanted \ {x, f} PROVE Before(f, y)
    <3>1. Before(x, y) /\ y \in Todo
      BY <1>1, <1>2, <2>5
    <3>2. CASE x[1] < y[1]
      BY <2>3, <3>2 DEF Before
    <3>3. CASE x[1] = y[1] /\ <<x[2], y[2]>> \in ahead
      BY <2>1, <2>5, <3>1, <3>3
    <3> QED
      BY <3>1, <3>2, <3>3 DEF Before
  <2> QED
    BY <1>2, <2>2, <2>3, <2>4, <2>5 DEF x
<1>6. CASE following = {} /\ later # {}
  <2> DEFINE f == First(later)
  <2>1. f \in later /\ \A y \in later \ {f} : Before(f, y)
    BY <1>1, <1>6, FirstVisit
  <2>2. After(x) = f
    BY <1>4, <1>6
  <2> HIDE DEF f
  <2>3. f \in Todo /\ Before(x, f)
    BY <1>1, <1>2, <2>1
  <2>4. \A y \in Wanted \ {x, f} : Before(f, y)
    BY <2>1
  <2> QED
    BY <1>2, <2>2, <2>3, <2>4 DEF x
<1>7. CASE following = {} /\ later = {}
  <2>1. Wanted = {x} /\ After(x) = <<EndOfTable, None>>
    BY <1>2, <1>4, <1>7
  <2> QED
    BY <1>2, <2>1 DEF x
<1> QED
  BY <1>5, <1>6, <1>7

LEMMA EndIsBeyond ==
    ASSUME Inv
    PROVE  EndOfTable \in Nat /\ \A k \in Elements : at[k] \in Nat /\ at[k] < EndOfTable
<1>1. PICK reach \in Nat : reach = segmentCount * SegmentSize
  BY SizeAssumption, SMTT(30) DEF Inv, TableOK
<1>2. EndOfTable = reach + SegmentSize
  BY <1>1, SizeAssumption, SMTT(30) DEF EndOfTable, Inv, TableOK
<1>3. \A k \in Elements : at[k] \in Addresses /\ at[k] < reach
  BY <1>1, AllReached DEF Elements, Reached, Visible
<1> QED
  BY <1>2, <1>3, SizeAssumption DEF Addresses

LEMMA ListWalks ==
    ASSUME Inv, Walks, List PROVE Walks'
<1> USE DEF table
<1>1. /\ UNCHANGED <<table, result>> /\ cursor.next # Freed
      /\ CursorOK /\ NoSelfLink /\ Walk
  BY DEF List, Walks
<1>2. NoSelfLink' /\ Elements' = Elements
  BY <1>1 DEF NoSelfLink, Elements
<1>3. cursor \in [at : Nat, next : Keys \cup {None, Freed}, type : Types \cup {Any}]
      /\ listing \in [on : BOOLEAN, returned : SUBSET Keys, twice : BOOLEAN, due : SUBSET Keys]
  BY <1>1 DEF CursorOK
<1>4. EndOfTable \in Nat /\ \A k \in Elements : at[k] \in Nat /\ at[k] < EndOfTable
  BY EndIsBeyond
<1>5. ASSUME NEW x, x \in Todo \/ x = <<EndOfTable, None>>, cursor' = Moved(x)
      PROVE  /\ cursor' \in [at : Nat, next : Keys \cup {None, Freed}, type : Types \cup {Any}]
             /\ cursor'.at = x[1] /\ cursor'.next = x[2] /\ cursor'.type = cursor.type
  <2>1. x[1] \in Nat /\ x[2] \in Keys \cup {None}
    <3>1. CASE x \in Todo
      BY <1>1, <3>1, TodoShape
    <3>2. CASE x = <<EndOfTable, None>>
      BY <1>4, <3>2
    <3> QED
      BY <1>5, <3>1, <3>2
  <2> QED
    BY <1>3, <1>5, <2>1, Zenon DEF Moved
(* at the end *)
<1>6. CASE ListNone
  <2>1. Wanted = {} /\ cursor' = Moved(<<EndOfTable, None>>) /\ UNCHANGED listing
    BY <1>6 DEF ListNone
  <2>2. /\ cursor' \in [at : Nat, next : Keys \cup {None, Freed}, type : Types \cup {Any}]
        /\ cursor'.at = EndOfTable /\ cursor'.next = None
    BY <1>5, <2>1
  <2>3. CursorOK'
    BY <1>1, <2>1, <2>2 DEF CursorOK
  <2>4. ASSUME listing.on PROVE Walk'
    <3>1. Left' = {}
      BY <1>1, <1>2, <1>4, <2>2 DEF Left
    <3>2. \A k \in listing.due : k \in Elements /\ k \in listing.returned
      <4> SUFFICES ASSUME NEW k \in listing.due, k \in Left,
                          cursor.type \in {Any, entry[k]}
                   PROVE  FALSE
        BY <1>1, <2>4 DEF Walk
      <4>1. <<at[k], k>> \in Todo
        BY <1>1, <2>4, LeftIsTodo
      <4>2. <<at[k], k>> \in Wanted
        BY <4>1 DEF Wanted
      <4> QED
        BY <2>1, <4>2
    <3> QED
      BY <1>1, <1>2, <2>1, <2>2, <2>4, <3>1, <3>2 DEF Walk
  <2>5. ASSUME ~listing.on PROVE Walk'
    BY <2>1, <2>5 DEF Walk
  <2> QED
    BY <1>2, <2>3, <2>4, <2>5 DEF Walks
(* at an element *)
<1>7. CASE ListOne
  <2> DEFINE e == First(Wanted)
             n == After(e)
  <2>1. /\ Wanted # {} /\ cursor' = Moved(n)
        /\ listing' = IF listing.on
                      THEN [listing EXCEPT !.returned = @ \cup {e[2]},
                                           !.twice = @ \/ e[2] \in listing.returned]
                      ELSE listing
    BY <1>7 DEF ListOne
  <2>2. /\ e \in Wanted /\ \A y \in Wanted \ {e} : Before(e, y)
        /\ \/ n \in Todo /\ Before(e, n) /\ \A y \in Wanted \ {e, n} : Before(n, y)
           \/ Wanted = {e} /\ n = <<EndOfTable, None>>
    BY <1>1, <2>1, AfterVisit
  <2> HIDE DEF e, n
  <2>3. e \in Todo /\ cursor.type \in {Any, entry[e[2]]} /\ e[2] \in Keys
    BY <1>1, <2>2, TodoShape DEF Wanted
  <2>4. /\ cursor' \in [at : Nat, next : Keys \cup {None, Freed}, type : Types \cup {Any}]
        /\ cursor'.at = n[1] /\ cursor'.next = n[2] /\ cursor'.type = cursor.type
    BY <1>5, <2>1, <2>2
  <2>5. /\ listing' \in [on : BOOLEAN, returned : SUBSET Keys, twice : BOOLEAN, due : SUBSET Keys]
        /\ listing'.on = listing.on /\ listing'.due = listing.due
        /\ listing.on => /\ listing'.returned = listing.returned \cup {e[2]}
                         /\ listing'.twice = (listing.twice \/ e[2] \in listing.returned)
    <3>1. (listing.twice \/ e[2] \in listing.returned) \in BOOLEAN
      BY <1>3
    <3>2. listing.returned \cup {e[2]} \in SUBSET Keys
      BY <1>3, <2>3
    <3> QED
      BY <1>3, <2>1, <3>1, <3>2, Zenon
  <2>6. CursorOK'
    BY <1>1, <2>4, <2>5 DEF CursorOK
  <2>7. ASSUME listing.on PROVE Walk'
    <3>1. /\ \A x \in Todo : /\ x[2] \in Left /\ x[1] = at[x[2]] /\ x[1] \in Nat
                             /\ x = <<at[x[2]], x[2]>>
          /\ \A k \in Left : <<at[k], k>> \in Todo
      BY <1>1, <2>7, LeftIsTodo
    <3>2. /\ ~listing.twice /\ listing.returned \subseteq Elements \ Left
          /\ \A k \in listing.due : /\ k \in Elements
                                    /\ \/ k \in listing.returned
                                       \/ k \in Left /\ cursor.type \in {Any, entry[k]}
      BY <1>1, <2>7 DEF Walk
    <3>3. e[2] \in Left /\ e[2] \in Elements /\ e[1] = at[e[2]] /\ at[e[2]] \in Nat
      BY <2>3, <3>1 DEF Left
    <3>4. ~listing'.twice
      BY <2>5, <2>7, <3>2, <3>3
    <3>5. CASE n = <<EndOfTable, None>> /\ Wanted = {e}
      <4>1. Left' = {}
        BY <1>1, <1>2, <1>4, <2>4, <3>5 DEF Left
      <4>2. \A k \in listing.due : k \in Elements /\ (k \in listing.returned \/ k = e[2])
        <5> SUFFICES ASSUME NEW k \in listing.due, k \in Left,
                            cursor.type \in {Any, entry[k]}
                     PROVE  k = e[2]
          BY <3>2
        <5>1. <<at[k], k>> \in Wanted
          BY <3>1 DEF Wanted
        <5> QED
          BY <3>5, <5>1
      <4>3. cursor'.next = None
        BY <2>4, <3>5
      <4> QED
        BY <1>2, <2>5, <2>7, <3>2, <3>3, <3>4, <4>1, <4>2, <4>3 DEF Walk
    <3>6. CASE n \in Todo /\ Before(e, n) /\ \A y \in Wanted \ {e, n} : Before(n, y)
      <4>1. /\ n[2] \in Left /\ n[1] = at[n[2]] /\ n[2] \in Elements /\ at[n[2]] \in Nat
            /\ cursor'.next \in Keys /\ cursor'.next # None
        <5>1. n[2] \in Left /\ n[1] = at[n[2]] /\ n[1] \in Nat
          BY <3>1, <3>6
        <5>2. n[2] \in Elements /\ n[2] \in Keys
          BY <5>1 DEF Left, Elements
        <5> QED
          BY <2>4, <5>1, <5>2, NoneAssumption
      <4>2. \A k, l \in Keys : <<k, l>> \in ahead => at[k] = at[l] /\ at[k] # Absent
        BY DEF Inv, ChainsOrdered
      <4>3. \A k, l \in Keys : k # l => ~(<<k, l>> \in ahead /\ <<l, k>> \in ahead)
        BY <4>2 DEF Inv, ChainsOrdered
      <4>4. \A k, l, m \in Keys : <<k, l>> \in ahead /\ <<l, m>> \in ahead
                                  => <<k, m>> \in ahead
        BY DEF Inv, ChainsOrdered
      <4>5. n[2] # e[2] /\ (at[e[2]] < at[n[2]] \/ <<e[2], n[2]>> \in ahead)
        <5>1. at[e[2]] < at[n[2]] \/ <<e[2], n[2]>> \in ahead
          BY <3>3, <3>6, <4>1 DEF Before
        <5> QED
          BY <1>1, <2>3, <3>3, <5>1 DEF NoSelfLink
      <4>6. \A k : k \in Left' <=> k \in Elements /\ (k = n[2] \/ <<n[2], k>> \in ahead
                                                      \/ at[k] > at[n[2]])
        BY <1>1, <1>2, <2>4, <4>1 DEF Left
      (* nothing comes back *)
      <4>7. ASSUME NEW k \in Left' PROVE k \in Left /\ k # e[2]
        <5>1. /\ k \in Elements /\ k \in Keys /\ at[k] \in Nat /\ e[2] \in Keys /\ n[2] \in Keys
              /\ k = n[2] \/ <<n[2], k>> \in ahead \/ at[k] > at[n[2]]
          BY <1>4, <2>3, <4>1, <4>6, <4>7 DEF Elements
        <5>2. at[e[2]] <= at[n[2]] /\ at[n[2]] <= at[k]
          BY <3>3, <4>1, <4>2, <4>5, <5>1
        <5>3. k # e[2]
          BY <3>3, <4>1, <4>3, <4>5, <5>1, <5>2
        <5>4. k \in Left
          <6>1. cursor.at \in Nat
            BY <1>3
          <6>2. CASE cursor.next = None
            BY <3>3, <4>1, <5>1, <5>2, <6>1, <6>2 DEF Left
          <6>3. CASE cursor.next # None
            <7>1. cursor.next \in Keys
              BY <1>1, <2>7, <6>3 DEF Walk, Elements
            <7>2. n[2] = cursor.next \/ <<cursor.next, n[2]>> \in ahead \/ at[n[2]] > cursor.at
              BY <4>1, <6>3 DEF Left
            <7>3. at[cursor.next] = cursor.at
              BY <1>1, <2>7, <6>3 DEF Walk
            <7>4. k = cursor.next \/ <<cursor.next, k>> \in ahead \/ at[k] > cursor.at
              BY <4>1, <4>2, <4>4, <5>1, <5>2, <6>1, <7>1, <7>2, <7>3
            <7> QED
              BY <5>1, <6>3, <7>4 DEF Left
          <6> QED
            BY <6>2, <6>3
        <5> QED
          BY <5>3, <5>4
      (* nothing is passed over *)
      <4>8. ASSUME NEW k \in Left, cursor.type \in {Any, entry[k]}, k # e[2]
            PROVE  k \in Left'
        <5>1. k \in Elements /\ <<at[k], k>> \in Todo /\ k \in Keys
          BY <3>1, <4>8 DEF Left, Elements
        <5>2. <<at[k], k>> \in Wanted /\ <<at[k], k>> # e
          BY <4>8, <5>1 DEF Wanted
        <5>3. <<at[k], k>> = n \/ Before(n, <<at[k], k>>)
          BY <3>6, <5>2
        <5>4. k = n[2] \/ at[k] > at[n[2]] \/ <<n[2], k>> \in ahead
          BY <1>4, <4>1, <5>1, <5>3 DEF Before
        <5> QED
          BY <4>6, <5>1, <5>4
      <4>9. listing'.returned \subseteq Elements \ Left'
        BY <2>5, <2>7, <3>2, <3>3, <4>7
      <4>10. \A k \in listing'.due :
                /\ k \in Elements
                /\ \/ k \in listing'.returned
                   \/ k \in Left' /\ cursor'.type \in {Any, entry'[k]}
        BY <1>1, <2>4, <2>5, <2>7, <3>2, <4>8
      <4>11. cursor'.next \in Elements' /\ at'[cursor'.next] = cursor'.at
        BY <1>1, <1>2, <2>4, <4>1
      <4> QED
        BY <1>2, <3>4, <4>9, <4>10, <4>11 DEF Walk
    <3> QED
      BY <2>2, <3>5, <3>6
  <2>8. ASSUME ~listing.on PROVE Walk'
    BY <2>5, <2>8 DEF Walk
  <2> QED
    BY <1>2, <2>6, <2>7, <2>8 DEF Walks
<1> QED
  BY <1>6, <1>7 DEF List

LEMMA InitWalks == Init => Walks
  BY NoneAssumption DEF Init, Walks, CursorOK, NoSelfLink, Walk, NoCursor, NoListing

LEMMA NoListingWalks ==
    ASSUME listing' = NoListing PROVE Walk'
  BY DEF Walk, NoListing

LEMMA SameTableWalks ==
    ASSUME Walks, UNCHANGED <<table, cursor, listing>>, result' \in Types \cup {None}
    PROVE  Walks'
<1>1. CursorOK' /\ NoSelfLink'
  BY DEF Walks, CursorOK, NoSelfLink, table
<1>2. Left' = Left /\ Elements' = Elements
  BY DEF Left, Elements, table
<1>3. Walk'
  BY <1>2 DEF Walks, Walk, table
<1> QED
  BY <1>1, <1>3 DEF Walks

LEMMA DeleteWalks ==
    ASSUME Inv, Walks, NEW k \in Keys, Delete(k) PROVE Walks'
<1>1. result' \in Types \cup {None}
  BY DEF Delete, Answer, Inv, TableOK
<1>2. CASE ~Found(k)
  BY <1>1, <1>2, SameTableWalks DEF Delete
<1>3. CASE Found(k)
  <2>1. /\ at' = [at EXCEPT ![k] = Absent] /\ ahead' = Unlinked(k)
        /\ entry' = [entry EXCEPT ![k] = None]
        /\ cursor' = IF cursor.next = k THEN [cursor EXCEPT !.next = Freed] ELSE cursor
        /\ listing' = IF cursor.next = k THEN NoListing
                                         ELSE [listing EXCEPT !.due = @ \ {k},
                                                              !.returned = @ \ {k}]
    BY <1>3 DEF Delete
  <2>2. /\ at \in [Keys -> Addresses \cup {Absent}] /\ entry \in [Keys -> Types \cup {None}]
        /\ cursor \in [at : Nat, next : Keys \cup {None, Freed}, type : Types \cup {Any}]
        /\ listing \in [on : BOOLEAN, returned : SUBSET Keys, twice : BOOLEAN,
                        due : SUBSET Keys]
    BY DEF Inv, TableOK, Walks, CursorOK
  <2>3. NoSelfLink'
    BY <2>1 DEF NoSelfLink, Walks, Unlinked
  <2>4. CASE cursor.next = k
    <3>1. cursor' \in [at : Nat, next : Keys \cup {None, Freed}, type : Types \cup {Any}]
      BY <2>1, <2>2, <2>4
    <3>2. CursorOK'
      BY <1>1, <2>1, <2>4, <3>1 DEF CursorOK, NoListing
    <3> QED
      BY <2>1, <2>3, <2>4, <3>2, NoListingWalks DEF Walks
  <2>5. CASE cursor.next # k
    <3>1. /\ UNCHANGED cursor /\ listing'.on = listing.on /\ listing'.twice = listing.twice
          /\ listing'.due = listing.due \ {k} /\ listing'.returned = listing.returned \ {k}
          /\ listing' \in [on : BOOLEAN, returned : SUBSET Keys, twice : BOOLEAN,
                           due : SUBSET Keys]
      BY <2>1, <2>2, <2>5
    <3>2. CursorOK'
      BY <1>1, <2>2, <3>1 DEF CursorOK
    <3>3. ASSUME listing.on PROVE Walk'
      <4>1. /\ Elements' = Elements \ {k}
            /\ \A l \in Keys : l # k => at'[l] = at[l] /\ entry'[l] = entry[l]
            /\ \A l, m \in Keys : <<l, m>> \in ahead' <=> <<l, m>> \in ahead /\ l # k /\ m # k
        BY <2>1, <2>2 DEF Elements, Unlinked
      <4>2. /\ ~listing.twice
            /\ cursor.next # None => cursor.next \in Elements /\ at[cursor.next] = cursor.at
            /\ listing.returned \subseteq Elements \ Left
            /\ \A l \in listing.due : /\ l \in Elements
                                      /\ \/ l \in listing.returned
                                         \/ l \in Left /\ cursor.type \in {Any, entry[l]}
        BY <3>3 DEF Walks, Walk
      <4>3. Left' = Left \ {k}
        <5>1. cursor.next # None => cursor.next \in Keys
          BY <4>2 DEF Elements
        <5>2. \A l \in Elements : l \in Keys
          BY DEF Elements
        <5> QED
          BY <2>5, <3>1, <4>1, <5>1, <5>2 DEF Left
      <4>4. cursor'.next # None => cursor'.next \in Elements' /\ at'[cursor'.next] = cursor'.at
        BY <2>5, <3>1, <4>1, <4>2 DEF Elements
      <4>5. listing'.returned \subseteq Elements' \ Left'
        BY <3>1, <4>1, <4>2, <4>3
      <4>6. \A l \in listing'.due :
                /\ l \in Elements'
                /\ \/ l \in listing'.returned
                   \/ l \in Left' /\ cursor'.type \in {Any, entry'[l]}
        <5>1. \A l \in Elements : l \in Keys
          BY DEF Elements
        <5> QED
          BY <3>1, <4>1, <4>2, <4>3, <5>1
      <4> QED
        BY <3>1, <4>2, <4>4, <4>5, <4>6 DEF Walk
    <3>4. ASSUME ~listing.on PROVE Walk'
      BY <3>1, <3>4 DEF Walk
    <3> QED
      BY <2>3, <3>2, <3>3, <3>4 DEF Walks
  <2> QED
    BY <2>4, <2>5
<1> QED
  BY <1>2, <1>3

(* A new element is at the end of its chain: a walk in that chain meets it, *)
(* a walk that has passed its bucket does not, and neither owes it.         *)
LEMMA InsertWalks ==
    ASSUME Inv, Walks, NEW k \in Keys, NEW t \in Types, InsertNew(k, t) PROVE Walks'
<1> DEFINE places == [at EXCEPT ![k] = Address(k)]
           order  == ahead \cup {<<l, k>> : l \in {m \in Keys : at[m] = Address(k)}}
<1>1. /\ ~Found(k) /\ result' = None /\ UNCHANGED cursor
      /\ entry' = [entry EXCEPT ![k] = t]
  BY DEF InsertNew
<1>2. /\ {l \in Keys : places[l] # Absent} = Elements \cup {k} /\ k \notin Elements
      /\ at[k] = Absent /\ Address(k) # Absent
  <2>1. at[k] = Absent /\ Address(k) # Absent
    BY <1>1, NotFoundIsAbsent, AddressRange DEF Addresses, Absent
  <2>2. {l \in Keys : places[l] # Absent} = Elements \cup {k}
    BY <1>1, InsertedLast
  <2> QED
    BY <2>1, <2>2 DEF Elements
<1>3. \A l \in Keys : <<l, l>> \notin order
  BY <1>2 DEF Walks, NoSelfLink
<1> HIDE DEF places, order
<1>4. CASE OverFull(keyCount + 1) /\ MayExpand
  <2>1. expand_table(places, order)
    BY <1>4 DEF InsertNew, places, order
  <2>2. ahead' \subseteq order /\ listing' = NoListing
    BY <2>1 DEF expand_table
  <2>3. CursorOK' /\ NoSelfLink'
    BY <1>1, <1>3, <2>2 DEF Walks, CursorOK, NoSelfLink, NoListing
  <2> QED
    BY <2>2, <2>3, NoListingWalks DEF Walks
<1>5. CASE ~(OverFull(keyCount + 1) /\ MayExpand)
  <2>1. at' = places /\ ahead' = order /\ UNCHANGED listing
    BY <1>5 DEF InsertNew, places, order
  <2>2. CursorOK' /\ NoSelfLink'
    BY <1>1, <1>3, <2>1 DEF Walks, CursorOK, NoSelfLink
  <2>3. ASSUME listing.on PROVE Walk'
    <3>1. /\ \A l \in Keys : l # k => at'[l] = at[l] /\ entry'[l] = entry[l]
          /\ Elements' = Elements \cup {k}
          /\ \A l, m \in Keys : m # k => (<<l, m>> \in ahead' <=> <<l, m>> \in ahead)
      BY <1>1, <1>2, <2>1 DEF Inv, TableOK, places, order, Elements
    <3>2. /\ ~listing.twice
          /\ cursor.next # None => cursor.next \in Elements /\ at[cursor.next] = cursor.at
          /\ listing.returned \subseteq Elements \ Left
          /\ \A l \in listing.due : /\ l \in Elements
                                    /\ \/ l \in listing.returned
                                       \/ l \in Left /\ cursor.type \in {Any, entry[l]}
      BY <2>3 DEF Walks, Walk
    <3>3. \A l \in Elements : l \in Keys /\ l # k
      BY <1>2 DEF Elements
    <3>4. \A l \in Elements : l \in Left' <=> l \in Left
      BY <1>1, <3>1, <3>2, <3>3 DEF Left
    <3>5. cursor'.next # None => cursor'.next \in Elements' /\ at'[cursor'.next] = cursor'.at
      BY <1>1, <3>1, <3>2, <3>3
    <3>6. listing'.returned \subseteq Elements' \ Left'
      BY <2>1, <3>1, <3>2, <3>4
    <3>7. \A l \in listing'.due :
              /\ l \in Elements'
              /\ \/ l \in listing'.returned
                 \/ l \in Left' /\ cursor'.type \in {Any, entry'[l]}
      BY <1>1, <2>1, <3>1, <3>2, <3>3, <3>4
    <3> QED
      BY <2>1, <3>2, <3>5, <3>6, <3>7 DEF Walk
  <2>4. ASSUME ~listing.on PROVE Walk'
    BY <2>1, <2>4 DEF Walk
  <2> QED
    BY <2>2, <2>3, <2>4 DEF Walks
<1> QED
  BY <1>4, <1>5

LEMMA StartWalks ==
    ASSUME Inv, Walks, NEW type \in Types \cup {Any}, listinit(type) PROVE Walks'
<1>1. /\ cursor' = [at |-> 0, next |-> None, type |-> type]
      /\ listing' = [on |-> TRUE, returned |-> {}, twice |-> FALSE,
                     due |-> {k \in Keys : at[k] # Absent /\ type \in {Any, entry[k]}}]
      /\ UNCHANGED <<at, ahead, entry, result>>
  BY DEF listinit, table
<1>2. CursorOK' /\ NoSelfLink'
  BY <1>1 DEF Walks, CursorOK, NoSelfLink
<1>3. Left' = Elements'
  <2>1. \A k \in Elements : at[k] \in Nat
    BY EndIsBeyond
  <2>2. Elements' = Elements /\ at' = at
    BY <1>1 DEF Elements
  <2> QED
    BY <1>1, <2>1, <2>2 DEF Left
<1>4. Walk'
  BY <1>1, <1>3 DEF Walk, Elements
<1> QED
  BY <1>2, <1>4 DEF Walks

LEMMA NextWalks ==
    ASSUME Inv, Walks, [Next]_vars PROVE Walks'
<1>0. \A k \in Keys : Answer(k) \in Types \cup {None} /\ entry[k] \in Types \cup {None}
  BY DEF Answer, Inv, TableOK
<1>1. ASSUME NEW k \in Keys, Find(k) PROVE Walks'
  BY <1>0, <1>1, SameTableWalks DEF Find
<1>2. ASSUME NEW k \in Keys, Delete(k) PROVE Walks'
  BY <1>2, DeleteWalks
<1>3. ASSUME NEW k \in Keys, NEW t \in Types, Insert(k, t) PROVE Walks'
  <2>1. CASE InsertNew(k, t)
    BY <2>1, InsertWalks
  <2>2. CASE InsertTwice(k, t)
    BY <1>0, <2>2, SameTableWalks DEF InsertTwice
  <2> QED
    BY <1>3, <2>1, <2>2 DEF Insert
<1>4. ASSUME NEW type \in Types \cup {Any}, listinit(type) PROVE Walks'
  BY <1>4, StartWalks
<1>5. CASE List
  BY <1>5, ListWalks
<1>6. CASE Copy
  <2>1. /\ ahead' \subseteq ahead /\ cursor' = NoCursor /\ listing' = NoListing
        /\ UNCHANGED result
    BY <1>6 DEF Copy
  <2>2. CursorOK' /\ NoSelfLink'
    BY <2>1 DEF Walks, CursorOK, NoSelfLink, NoCursor, NoListing
  <2> QED
    BY <2>1, <2>2, NoListingWalks DEF Walks
<1>7. CASE Recreate
  <2>1. ahead' = {} /\ cursor' = NoCursor /\ listing' = NoListing /\ result' = None
    BY <1>7 DEF Recreate
  <2>2. CursorOK' /\ NoSelfLink'
    BY <2>1 DEF CursorOK, NoSelfLink, NoCursor, NoListing
  <2> QED
    BY <2>1, <2>2, NoListingWalks DEF Walks
<1>8. CASE UNCHANGED vars
  <2>1. result' \in Types \cup {None}
    BY <1>8 DEF vars, Walks, CursorOK
  <2> QED
    BY <1>8, <2>1, SameTableWalks DEF vars
<1> QED
  BY <1>1, <1>2, <1>3, <1>4, <1>5, <1>6, <1>7, <1>8 DEF Next

LEMMA WalkInvariance == Spec => []Walks
<1>1. Inv /\ Walks /\ [Next]_vars => Walks'
  BY NextWalks
<1> QED
  BY <1>1, InitWalks, Invariance, PTL DEF Spec

(* Every variable of a hash table has its type, the cursor of a walk that   *)
(* went on through splits, copies and deletions included.                   *)
THEOREM TypeCorrect == Spec => []TypeOK
<1>1. Inv /\ Walks => TypeOK
  BY DEF Inv, Walks, CursorOK, TypeOK
<1> QED
  BY <1>1, Invariance, WalkInvariance, PTL

(* A walk during which no bucket is split returns each element that stays   *)
(* in the table once, whatever the client inserts and deletes between two   *)
(* calls (SC_HASHlistinit, SC_HASHlist).                                    *)
THEOREM WalksAreComplete == Spec => []ListsOnce
<1>1. Inv /\ Walks => ListsOnce
  <2> SUFFICES ASSUME Inv, Walks, listing.on, cursor.at = EndOfTable
               PROVE  ~listing.twice /\ listing.due \subseteq listing.returned
    BY DEF ListsOnce, Walks, Walk
  <2>1. \A k \in Elements : at[k] \in Nat /\ at[k] < EndOfTable /\ EndOfTable \in Nat
    BY EndIsBeyond
  <2>2. cursor.next = None
    BY <2>1 DEF Walks, Walk
  <2>3. Left = {}
    BY <2>1, <2>2 DEF Left
  <2> QED
    BY <2>3 DEF Walks, Walk
<1> QED
  BY <1>1, Invariance, WalkInvariance, PTL
===============================================================================
