---------------------------- MODULE InductionLemmas ----------------------------
(***************************************************************************)
(* Induction over the natural numbers, functions that are defined by       *)
(* recursion, and filtered sequences.  All is said of sets and functions,  *)
(* never of predicates or operators, so that each lemma can be cited for   *)
(* any of them.                                                            *)
(***************************************************************************)
EXTENDS Filters, Integers, WellFoundedInduction, TLAPS

NatLess == {p \in Nat \X Nat : p[1] < p[2]}

(* A nonempty set of naturals has a least element. *)
LEMMA LeastNumber ==
    ASSUME NEW T \in SUBSET Nat, T # {}
    PROVE  \E m \in T : \A n \in T : m <= n
<1>1. OpToRel(<, Nat) = NatLess
  BY Zenon DEF OpToRel, NatLess
<1>2. IsWellFoundedOn(NatLess, Nat)
  BY <1>1, NatLessThanWellFounded, Zenon
<1>3. \E m \in T : \A n \in T : ~(<<n, m>> \in NatLess)
  BY <1>2, WFMin
<1>4. \A m, n \in T : ~(<<n, m>> \in NatLess) => m <= n
  BY DEF NatLess
<1> QED
  BY <1>3, <1>4

(* A set that holds 0 and with n its successor holds every natural. *)
LEMMA Induction ==
    ASSUME NEW S, 0 \in S, \A n \in Nat : n \in S => n + 1 \in S
    PROVE  Nat \subseteq S
<1> SUFFICES ASSUME NEW x \in Nat, x \notin S PROVE FALSE
  OBVIOUS
<1> DEFINE T == Nat \ S
<1>1. T \in SUBSET Nat /\ T # {}
  OBVIOUS
<1>2. PICK m \in T : \A n \in T : m <= n
  <2> HIDE DEF T
  <2> QED BY <1>1, LeastNumber
<1>3. m \in Nat /\ m # 0 /\ m - 1 \in Nat /\ m - 1 \notin T
  BY <1>2
<1>4. m - 1 \in S /\ m = (m - 1) + 1
  BY <1>3
<1> QED BY <1>2, <1>3, <1>4

StepFunctions(V) == [Nat \X V -> V]

(* Going from v by step, n times: there is one such way, for every n.      *)
WaysTo(V, v, step, n) ==
    {g \in [0..n -> V] : g[0] = v /\ \A i \in 0..(n - 1) : g[i + 1] = step[<<i, g[i]>>]}

WaysAgree(V, v, step) ==
    \A m, n \in Nat : \A g \in WaysTo(V, v, step, m), h \in WaysTo(V, v, step, n) :
        \A i \in Nat : i <= m /\ i <= n => g[i] = h[i]

LEMMA OneWay == ASSUME NEW V, NEW v, NEW step PROVE WaysAgree(V, v, step)
<1> SUFFICES ASSUME NEW m \in Nat, NEW n \in Nat,
                    NEW g \in WaysTo(V, v, step, m), NEW h \in WaysTo(V, v, step, n)
             PROVE  \A i \in Nat : i <= m /\ i <= n => g[i] = h[i]
  BY DEF WaysAgree
<1> DEFINE S == {i \in Nat : i <= m /\ i <= n => g[i] = h[i]}
<1>1. 0 \in S
  BY DEF WaysTo
<1>2. ASSUME NEW i \in Nat, i \in S PROVE i + 1 \in S
  <2> SUFFICES ASSUME i + 1 <= m, i + 1 <= n PROVE g[i + 1] = h[i + 1]
    OBVIOUS
  <2>1. i \in 0..(m - 1) /\ i \in 0..(n - 1) /\ g[i] = h[i]
    BY <1>2
  <2>2. g[i + 1] = step[<<i, g[i]>>] /\ h[i + 1] = step[<<i, h[i]>>]
    BY <2>1 DEF WaysTo
  <2> QED BY <2>1, <2>2
<1>3. Nat \subseteq S
  <2> HIDE DEF S
  <2> QED BY <1>1, <1>2, Induction
<1> QED BY <1>3

LEMMA SomeWay ==
    ASSUME NEW V, NEW v \in V, NEW step \in StepFunctions(V)
    PROVE  \A n \in Nat : WaysTo(V, v, step, n) # {}
<1> DEFINE S == {n \in Nat : WaysTo(V, v, step, n) # {}}
<1>1. 0 \in S
  <2>1. [i \in 0..0 |-> v] \in WaysTo(V, v, step, 0)
    BY DEF WaysTo
  <2> QED BY <2>1
<1>2. ASSUME NEW n \in Nat, n \in S PROVE n + 1 \in S
  <2>1. PICK g \in WaysTo(V, v, step, n) : TRUE
    BY <1>2
  <2> DEFINE h == [i \in 0..(n + 1) |-> IF i <= n THEN g[i] ELSE step[<<n, g[n]>>]]
  <2>2. g \in [0..n -> V] /\ g[0] = v /\ \A i \in 0..(n - 1) : g[i + 1] = step[<<i, g[i]>>]
    BY <2>1 DEF WaysTo
  <2>3. g[n] \in V /\ step[<<n, g[n]>>] \in V
    BY <2>2 DEF StepFunctions
  <2>4. h \in [0..(n + 1) -> V] /\ h[0] = v
    BY <2>2, <2>3
  <2>5. ASSUME NEW i \in 0..n PROVE h[i + 1] = step[<<i, h[i]>>]
    <3>1. h[i] = g[i] /\ h[n + 1] = step[<<n, g[n]>>] /\ (i + 1 <= n => h[i + 1] = g[i + 1])
      OBVIOUS
    <3> HIDE DEF h
    <3>2. CASE i = n
      BY <3>1, <3>2
    <3>3. CASE i # n
      <4>1. i \in 0..(n - 1) /\ i + 1 <= n
        BY <3>3
      <4> QED BY <2>2, <3>1, <4>1
    <3> QED BY <3>2, <3>3
  <2>6. h \in WaysTo(V, v, step, n + 1)
    <3> HIDE DEF h
    <3>1. \A i \in 0..((n + 1) - 1) : h[i + 1] = step[<<i, h[i]>>]
      BY <2>5
    <3> QED BY <2>4, <3>1, Zenon DEF WaysTo
  <2> QED BY <2>6
<1>3. Nat \subseteq S
  <2> HIDE DEF S
  <2> QED BY <1>1, <1>2, Induction
<1> QED BY <1>3

(* There is a function that starts with v and goes on by step. *)
GoesOn(V, v, step) ==
    \E g \in [Nat -> V] : g[0] = v /\ \A i \in Nat : g[i + 1] = step[<<i, g[i]>>]

LEMMA Recursion == ASSUME NEW V, NEW v \in V, NEW step \in StepFunctions(V) PROVE GoesOn(V, v, step)
<1> DEFINE way(n) == CHOOSE g \in WaysTo(V, v, step, n) : TRUE
           f == [n \in Nat |-> way(n)[n]]
<1>1. ASSUME NEW n \in Nat PROVE way(n) \in WaysTo(V, v, step, n)
  BY SomeWay
<1> HIDE DEF way
<1>2. ASSUME NEW n \in Nat PROVE f[n] \in V
  BY <1>1 DEF WaysTo
<1>3. f[0] = v
  BY <1>1 DEF WaysTo
<1>4. ASSUME NEW n \in Nat PROVE f[n + 1] = step[<<n, f[n]>>]
  <2>1. n + 1 \in Nat /\ n \in 0..((n + 1) - 1) /\ n <= n + 1
    OBVIOUS
  <2>2. way(n + 1) \in WaysTo(V, v, step, n + 1) /\ way(n) \in WaysTo(V, v, step, n)
    BY <1>1, <2>1
  <2>3. way(n + 1)[n + 1] = step[<<n, way(n + 1)[n]>>]
    BY <2>1, <2>2 DEF WaysTo
  <2>4. way(n + 1)[n] = way(n)[n]
    <3>1. WaysAgree(V, v, step)
      BY OneWay
    <3>2. \A i \in Nat : i <= n + 1 /\ i <= n => way(n + 1)[i] = way(n)[i]
      BY <2>1, <2>2, <3>1 DEF WaysAgree
    <3>3. n <= n + 1 /\ n <= n
      OBVIOUS
    <3> QED BY <3>2, <3>3
  <2> QED BY <2>1, <2>3, <2>4
<1>5. f \in [Nat -> V]
  BY <1>2
<1> HIDE DEF f
<1> QED BY <1>3, <1>4, <1>5 DEF GoesOn

-----------------------------------------------------------------------------
(* Two increasing enumerations of one set of numbers are the same.         *)
Increasing(f, n) == \A i, j \in 1..n : i < j => f[i] < f[j]
Enumeration(f, n) == n \in Nat /\ f \in [1..n -> Nat] /\ Increasing(f, n)
Within(f, m, g, n) == \A i \in 1..m : \E j \in 1..n : f[i] = g[j]

LEMMA FirstDifference ==
    ASSUME NEW f, NEW g, NEW m, NEW n, Enumeration(f, m), Enumeration(g, n),
           Within(f, m, g, n),
           NEW i \in Nat, i \in 1..m, i \in 1..n, \A j \in 1..(i - 1) : f[j] = g[j]
    PROVE  ~(f[i] < g[i])
<1> SUFFICES ASSUME f[i] < g[i] PROVE FALSE
  OBVIOUS
<1> USE DEF Enumeration
<1>1. PICK j \in 1..n : f[i] = g[j]
  BY DEF Within
<1>2. f[i] \in Nat /\ g[i] \in Nat /\ g[j] \in Nat /\ j \in Nat
  OBVIOUS
<1>3. CASE j < i
  <2>1. j \in 1..(i - 1) /\ j \in 1..m
    BY <1>2, <1>3
  <2>2. f[j] = g[j] /\ f[j] < f[i] /\ f[j] \in Nat
    BY <1>3, <2>1 DEF Increasing
  <2> QED BY <1>1, <1>2, <2>2
<1>4. CASE i < j
  <2>1. g[i] < g[j]
    BY <1>4 DEF Increasing
  <2> QED BY <1>1, <1>2, <2>1
<1>5. CASE i = j
  BY <1>1, <1>2, <1>5
<1> QED BY <1>2, <1>3, <1>4, <1>5

LEMMA SameEnumeration ==
    ASSUME NEW f, NEW g, NEW m, NEW n, Enumeration(f, m), Enumeration(g, n),
           Within(f, m, g, n),
           Within(g, n, f, m)
    PROVE  m = n /\ \A i \in 1..m : f[i] = g[i]
<1>0. m \in Nat /\ n \in Nat /\ f \in [1..m -> Nat] /\ g \in [1..n -> Nat]
      /\ Increasing(f, m) /\ Increasing(g, n)
  BY DEF Enumeration
<1> DEFINE T == {i \in Nat : i \in 1..m /\ i \in 1..n /\ f[i] # g[i]}
<1>1. T = {}
  <2> SUFFICES ASSUME T # {} PROVE FALSE
    OBVIOUS
  <2>1. PICK i \in T : \A j \in T : i <= j
    <3>1. T \in SUBSET Nat
      OBVIOUS
    <3> HIDE DEF T
    <3> QED BY <3>1, LeastNumber
  <2>2. i \in Nat /\ i \in 1..m /\ i \in 1..n /\ f[i] # g[i]
    BY <2>1
  <2>3. ASSUME NEW j \in 1..(i - 1) PROVE f[j] = g[j]
    <3>1. j \in Nat /\ j \in 1..m /\ j \in 1..n /\ ~(i <= j)
      BY <1>0, <2>2, <2>3
    <3>2. j \notin T
      BY <2>1, <3>1
    <3> QED BY <3>1, <3>2
  <2> HIDE DEF T
  <2>4. ~(f[i] < g[i])
    BY <2>2, <2>3, FirstDifference
  <2>5. ~(g[i] < f[i])
    <3>1. \A j \in 1..(i - 1) : g[j] = f[j]
      BY <2>3
    <3> QED BY <2>2, <3>1, FirstDifference
  <2>6. f[i] \in Nat /\ g[i] \in Nat
    BY <1>0, <2>2
  <2> QED BY <2>2, <2>4, <2>5, <2>6
<1>2. \A i \in 1..m : i \in 1..n => f[i] = g[i]
  BY <1>1
<1> HIDE DEF T
<1>3. ~(m < n)
  <2> SUFFICES ASSUME m < n PROVE FALSE
    OBVIOUS
  <2>1. m + 1 \in 1..n
    BY <1>0
  <2>2. PICK i \in 1..m : g[m + 1] = f[i]
    BY <1>0, <2>1 DEF Within
  <2>3. i \in 1..n /\ i < m + 1
    BY <1>0, <2>2
  <2>4. g[i] < g[m + 1] /\ g[i] = f[i] /\ g[i] \in Nat
    BY <1>0, <1>2, <2>1, <2>3 DEF Increasing
  <2> QED BY <1>0, <2>2, <2>4
<1>4. ~(n < m)
  <2> SUFFICES ASSUME n < m PROVE FALSE
    OBVIOUS
  <2>1. n + 1 \in 1..m
    BY <1>0
  <2>2. PICK i \in 1..n : f[n + 1] = g[i]
    BY <1>0, <2>1 DEF Within
  <2>3. i \in 1..m /\ i < n + 1
    BY <1>0, <2>2
  <2>4. f[i] < f[n + 1] /\ g[i] = f[i] /\ f[i] \in Nat
    BY <1>0, <1>2, <2>1, <2>3 DEF Increasing
  <2> QED BY <1>0, <2>2, <2>4
<1>5. m = n
  BY <1>0, <1>3, <1>4
<1> QED BY <1>2, <1>5

(* Where the elements of a filtered sequence come from: f enumerates the    *)
(* places of s, below n, of the elements in S, and t has them.             *)
Enumerates(f, t, s, S, n) ==
    /\ f \in [1..Len(t) -> 1..n] /\ Increasing(f, Len(t))
    /\ \A i \in 1..Len(t) : t[i] = s[f[i]] /\ s[f[i]] \in S
    /\ \A j \in 1..n : s[j] \in S => \E i \in 1..Len(t) : f[i] = j

Picked(t, s, S, n) == \E f : Enumerates(f, t, s, S, n)

LEMMA EnumeratesMore ==
    ASSUME NEW X, NEW s \in Seq(X), NEW S, NEW t \in Seq(X), NEW n \in Nat, n + 1 \in 1..Len(s),
           Picked(t, s, S, n)
    PROVE  Picked(IF s[n + 1] \in S THEN Append(t, s[n + 1]) ELSE t, s, S, n + 1)
<1> SUFFICES ASSUME NEW f, Enumerates(f, t, s, S, n)
             PROVE  Picked(IF s[n + 1] \in S THEN Append(t, s[n + 1]) ELSE t, s, S, n + 1)
  BY DEF Picked
<1>0. Len(t) \in Nat /\ s[n + 1] \in X
  OBVIOUS
<1>1. /\ f \in [1..Len(t) -> 1..n] /\ Increasing(f, Len(t))
      /\ \A i \in 1..Len(t) : t[i] = s[f[i]] /\ s[f[i]] \in S
      /\ \A j \in 1..n : s[j] \in S => \E i \in 1..Len(t) : f[i] = j
  BY DEF Enumerates
<1>2. CASE s[n + 1] \notin S
  <2>1. f \in [1..Len(t) -> 1..(n + 1)]
    BY <1>1
  <2>2. \A j \in 1..(n + 1) : s[j] \in S => j \in 1..n
    BY <1>2
  <2>3. Enumerates(f, t, s, S, n + 1)
    BY <1>1, <2>1, <2>2 DEF Enumerates
  <2> QED BY <1>2, <2>3 DEF Picked
<1>3. CASE s[n + 1] \in S
  <2> DEFINE u == Append(t, s[n + 1])
             m == Len(t)
             g == [i \in 1..(m + 1) |-> IF i <= m THEN f[i] ELSE n + 1]
  <2>1. /\ Len(u) = m + 1 /\ u[m + 1] = s[n + 1] /\ \A i \in 1..m : u[i] = t[i]
    BY <1>0
  <2>2. /\ g \in [1..(m + 1) -> 1..(n + 1)] /\ g[m + 1] = n + 1
        /\ \A i \in 1..m : g[i] = f[i]
    BY <1>0, <1>1
  <2>3. \A i \in 1..m : f[i] \in 1..n
    BY <1>1
  <2> HIDE DEF u, g
  <2>4. m \in Nat /\ \A i \in 1..(m + 1) : i = m + 1 \/ i \in 1..m
    BY <1>0
  <2> HIDE DEF m
  <2>5. Increasing(g, m + 1)
    <3> SUFFICES ASSUME NEW i \in 1..(m + 1), NEW j \in 1..(m + 1), i < j PROVE g[i] < g[j]
      BY DEF Increasing
    <3>1. i \in 1..m
      BY <2>4
    <3>2. CASE j = m + 1
      BY <2>2, <2>3, <3>1, <3>2
    <3>3. CASE j \in 1..m
      BY <1>1, <2>2, <3>1, <3>3 DEF Increasing, m
    <3> QED BY <2>4, <3>2, <3>3
  <2>6. ASSUME NEW i \in 1..(m + 1) PROVE u[i] = s[g[i]] /\ s[g[i]] \in S
    <3>1. CASE i = m + 1
      BY <1>3, <2>1, <2>2, <3>1
    <3>2. CASE i \in 1..m
      BY <1>1, <2>1, <2>2, <3>2 DEF m
    <3> QED BY <2>4, <3>1, <3>2
  <2>7. ASSUME NEW j \in 1..(n + 1), s[j] \in S PROVE \E i \in 1..(m + 1) : g[i] = j
    <3>1. CASE j = n + 1
      <4>1. m + 1 \in 1..(m + 1)
        BY <2>4
      <4> QED BY <2>2, <3>1, <4>1
    <3>2. CASE j # n + 1
      <4>1. j \in 1..n
        BY <3>2
      <4>2. PICK i \in 1..m : f[i] = j
        BY <1>1, <2>7, <4>1 DEF m
      <4>3. i \in 1..(m + 1)
        BY <2>4
      <4> QED BY <2>2, <4>2, <4>3
    <3> QED BY <3>1, <3>2
  <2>8. Enumerates(g, u, s, S, n + 1)
    BY <2>1, <2>2, <2>5, <2>6, <2>7, Zenon DEF Enumerates
  <2> QED BY <1>3, <2>8 DEF u, Picked
<1> QED BY <1>2, <1>3

LEMMA FilterEnumerates ==
    ASSUME NEW X, NEW s \in Seq(X), NEW S
    PROVE  Filter(s, S) \in Seq(X) /\ Picked(Filter(s, S), s, S, Len(s))
<1> DEFINE here(i) == i + 1 \in 1..Len(s) /\ s[i + 1] \in S
           step == [p \in Nat \X Seq(X) |->
                       IF here(p[1]) THEN Append(p[2], s[p[1] + 1]) ELSE p[2]]
           rule(h) == [n \in 0..Len(s) |->
                          IF n = 0 THEN <<>>
                          ELSE IF s[n] \in S THEN Append(h[n - 1], s[n]) ELSE h[n - 1]]
           kept == CHOOSE h : h = rule(h)
<1>0. Len(s) \in Nat
  OBVIOUS
<1>1. step \in StepFunctions(Seq(X))
  <2>1. ASSUME NEW p \in Nat \X Seq(X)
        PROVE  (IF here(p[1]) THEN Append(p[2], s[p[1] + 1]) ELSE p[2]) \in Seq(X)
    <3>1. p[1] \in Nat /\ p[2] \in Seq(X)
      OBVIOUS
    <3>2. here(p[1]) => s[p[1] + 1] \in X
      BY <3>1
    <3> HIDE DEF here
    <3>3. here(p[1]) => Append(p[2], s[p[1] + 1]) \in Seq(X)
      BY <3>1, <3>2
    <3> QED BY <3>1, <3>3
  <2> QED BY <2>1 DEF StepFunctions
<1>2. PICK g \in [Nat -> Seq(X)] : g[0] = <<>> /\ \A i \in Nat : g[i + 1] = step[<<i, g[i]>>]
  <2>1. <<>> \in Seq(X)
    OBVIOUS
  <2> HIDE DEF step
  <2>2. GoesOn(Seq(X), <<>>, step)
    BY <1>1, <2>1, Recursion, Zenon
  <2> QED BY <2>2 DEF GoesOn
<1>3. \A i \in Nat : i + 1 \in 1..Len(s) =>
          g[i + 1] = IF s[i + 1] \in S THEN Append(g[i], s[i + 1]) ELSE g[i]
  BY <1>2
<1> HIDE DEF step
<1>4. \E h : h = rule(h)
  <2> DEFINE r == [n \in 0..Len(s) |-> g[n]]
  <2>1. ASSUME NEW n \in 0..Len(s)
        PROVE  r[n] = IF n = 0 THEN <<>>
                      ELSE IF s[n] \in S THEN Append(r[n - 1], s[n]) ELSE r[n - 1]
    <3>1. CASE n = 0
      BY <1>2, <3>1
    <3>2. CASE n # 0
      <4>1. /\ n - 1 \in Nat /\ n = (n - 1) + 1 /\ (n - 1) + 1 \in 1..Len(s)
            /\ n - 1 \in 0..Len(s)
        BY <1>0, <3>2
      <4>2. r[n] = g[n] /\ r[n - 1] = g[n - 1]
        BY <4>1
      <4> HIDE DEF r
      <4> QED BY <1>3, <3>2, <4>1, <4>2
    <3> QED BY <3>1, <3>2
  <2>2. r = rule(r)
    <3>1. r = [n \in 0..Len(s) |-> r[n]]
      OBVIOUS
    <3> HIDE DEF r
    <3> QED BY <2>1, <3>1
  <2> QED BY <2>2
<1>5. kept = rule(kept)
  BY <1>4
<1> HIDE DEF kept
<1>6. /\ kept[0] = <<>>
      /\ \A i \in Nat : i + 1 \in 1..Len(s) =>
             kept[i + 1] = IF s[i + 1] \in S THEN Append(kept[i], s[i + 1]) ELSE kept[i]
  <2>1. ASSUME NEW n \in 0..Len(s)
        PROVE kept[n] = IF n = 0 THEN <<>>
                        ELSE IF s[n] \in S THEN Append(kept[n - 1], s[n]) ELSE kept[n - 1]
    BY <1>5
  <2>2. 0 \in 0..Len(s)
    BY <1>0
  <2>3. ASSUME NEW i \in Nat, i + 1 \in 1..Len(s)
        PROVE kept[i + 1] = IF s[i + 1] \in S THEN Append(kept[i], s[i + 1]) ELSE kept[i]
    <3>1. i + 1 \in 0..Len(s) /\ i + 1 # 0 /\ (i + 1) - 1 = i
      BY <2>3
    <3> QED BY <2>1, <3>1
  <2> QED BY <2>1, <2>2, <2>3
<1> HIDE DEF rule, here
<1> DEFINE N == {n \in Nat : n \in 0..Len(s) =>
                    kept[n] \in Seq(X) /\ Picked(kept[n], s, S, n)}
<1>7. 0 \in N
  <2>1. Enumerates([i \in 1..0 |-> i], <<>>, s, S, 0)
    BY DEF Enumerates, Increasing
  <2>2. kept[0] = <<>> /\ <<>> \in Seq(X)
    BY <1>6
  <2>3. kept[0] \in Seq(X) /\ Picked(kept[0], s, S, 0)
    BY <2>1, <2>2, Zenon DEF Picked
  <2> QED BY <2>3
<1>8. ASSUME NEW n \in Nat, n \in N PROVE n + 1 \in N
  <2> SUFFICES ASSUME n + 1 \in 0..Len(s)
               PROVE  kept[n + 1] \in Seq(X) /\ Picked(kept[n + 1], s, S, n + 1)
    OBVIOUS
  <2>1. n \in 0..Len(s) /\ n + 1 \in 1..Len(s) /\ s[n + 1] \in X
    BY <1>0
  <2>2. kept[n] \in Seq(X)
    BY <1>8, <2>1
  <2>3. Picked(kept[n], s, S, n)
    BY <1>8, <2>1
  <2>4. kept[n + 1] = IF s[n + 1] \in S THEN Append(kept[n], s[n + 1]) ELSE kept[n]
    BY <1>6, <2>1
  <2>5. Picked(kept[n + 1], s, S, n + 1)
    <3>1. Picked(IF s[n + 1] \in S THEN Append(kept[n], s[n + 1]) ELSE kept[n], s, S, n + 1)
      BY <2>1, <2>2, <2>3, EnumeratesMore, Zenon
    <3> QED BY <2>4, <3>1
  <2>6. kept[n + 1] \in Seq(X)
    BY <2>1, <2>2, <2>4
  <2> QED BY <2>5, <2>6
<1>9. Len(s) \in N
  <2> HIDE DEF N
  <2>1. Nat \subseteq N
    BY <1>7, <1>8, Induction
  <2> QED BY <1>0, <2>1
<1>10. kept[Len(s)] \in Seq(X) /\ Picked(kept[Len(s)], s, S, Len(s))
  BY <1>0, <1>9
<1> QED BY <1>10 DEF Filter, kept, rule

(* A sequence that has the elements of s that are in S, in their order, is  *)
(* the filtered one.                                                       *)
LEMMA FilterIs ==
    ASSUME NEW X, NEW s \in Seq(X), NEW S, NEW t \in Seq(X), NEW f,
           Enumerates(f, t, s, S, Len(s))
    PROVE  Filter(s, S) = t
<1> DEFINE u == Filter(s, S)
<1>1. u \in Seq(X)
  BY FilterEnumerates
<1>2. PICK g : Enumerates(g, u, s, S, Len(s))
  BY FilterEnumerates DEF Picked
<1> HIDE DEF u
<1>3. Enumeration(f, Len(t)) /\ Enumeration(g, Len(u))
  BY <1>1, <1>2 DEF Enumerates, Enumeration
<1>4. Within(f, Len(t), g, Len(u)) /\ Within(g, Len(u), f, Len(t))
  BY <1>2 DEF Enumerates, Within
<1>5. Len(t) = Len(u) /\ \A i \in 1..Len(t) : f[i] = g[i]
  BY <1>3, <1>4, SameEnumeration
<1>6. \A i \in 1..Len(t) : t[i] = u[i]
  BY <1>2, <1>5 DEF Enumerates
<1> QED BY <1>1, <1>5, <1>6 DEF u

================================================================================
