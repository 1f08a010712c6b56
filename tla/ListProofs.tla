------------------------------ MODULE ListProofs ------------------------------
(***************************************************************************)
(* Proofs about lists: how the code filters, sorts and fills them          *)
(* (Ordering); the test cases of a form (CasePlanning); the report of a    *)
(* page and the order of its controls (PageHealth); and what a scan of a   *)
(* page names (PageScan), which outlives the load (ContentScript).         *)
(***************************************************************************)
EXTENDS CasePlanning, PageHealth, ContentScript, FiniteSetTheorems, FunctionTheorems, NaturalsInduction, SequenceTheorems, TLAPS

-----------------------------------------------------------------------------
(* Lists in order. *)

\* A strict and total order of S: before[x] are those that come before x.
Orders(before, S) ==
    /\ before \in [S -> SUBSET S]
    /\ \A x \in S : x \notin before[x]
    /\ \A x, y \in S : x # y => x \in before[y] \/ y \in before[x]
    /\ \A x, y \in S : x \in before[y] => before[x] \subseteq before[y]

\* Of two elements the later has more before it.
LEMMA RankGrows ==
  ASSUME NEW S, IsFiniteSet(S), NEW before, Orders(before, S), NEW x \in S, NEW y \in S, x \in before[y]
  PROVE  Cardinality(before[x]) < Cardinality(before[y])
<1>1. before[x] \subseteq before[y] /\ before[x] # before[y]
  BY DEF Orders
<1>2. IsFiniteSet(before[x]) /\ IsFiniteSet(before[y])
  BY FS_Subset DEF Orders
<1>3. Cardinality(before[x]) \in Nat /\ Cardinality(before[y]) \in Nat
  BY <1>2, FS_CardinalityType
<1>4. Cardinality(before[x]) <= Cardinality(before[y]) /\ Cardinality(before[x]) # Cardinality(before[y])
  BY <1>1, <1>2, FS_Subset
<1> QED BY <1>3, <1>4

\* Every element has a place of its own, and every place has an element.
LEMMA RankIsPlace ==
  ASSUME NEW S, IsFiniteSet(S), NEW before, Orders(before, S)
  PROVE  [x \in S |-> Cardinality(before[x]) + 1] \in Bijection(S, 1..Cardinality(S))
<1> DEFINE rank == [x \in S |-> Cardinality(before[x]) + 1]
<1>0. Cardinality(S) \in Nat
  BY FS_CardinalityType
<1>1. \A x \in S : Cardinality(before[x]) \in Nat /\ Cardinality(before[x]) < Cardinality(S)
  <2> TAKE x \in S
  <2>1. before[x] \subseteq S /\ before[x] # S
    BY DEF Orders
  <2>2. IsFiniteSet(before[x]) /\ Cardinality(before[x]) <= Cardinality(S) /\ Cardinality(before[x]) # Cardinality(S)
    BY <2>1, FS_Subset
  <2>3. Cardinality(before[x]) \in Nat
    BY <2>2, FS_CardinalityType
  <2> QED BY <1>0, <2>2, <2>3
<1>2. rank \in [S -> 1..Cardinality(S)]
  BY <1>0, <1>1
<1>3. \A x, y \in S : rank[x] = rank[y] => x = y
  <2> SUFFICES ASSUME NEW x \in S, NEW y \in S, rank[x] = rank[y], x # y PROVE FALSE
    OBVIOUS
  <2>1. x \in before[y] \/ y \in before[x]
    BY DEF Orders
  <2>2. Cardinality(before[x]) # Cardinality(before[y])
    BY <1>1, <2>1, RankGrows
  <2> QED BY <1>1, <2>2
<1>4. rank \in Injection(S, 1..Cardinality(S))
  BY <1>2, <1>3 DEF Injection, IsInjective
<1>5. IsFiniteSet(1..Cardinality(S)) /\ Cardinality(1..Cardinality(S)) = Cardinality(S)
  BY <1>0, FS_Interval
<1>6. rank \in Surjection(S, 1..Cardinality(S))
  BY <1>4, <1>5, FS_Injection
<1> QED BY <1>4, <1>6 DEF Bijection

\* InOrder() lists the elements, each once, in that order.
LEMMA InOrderIsOrder ==
  ASSUME NEW S, IsFiniteSet(S), NEW before, Orders(before, S)
  PROVE  /\ InOrder(before) \in Bijection(1..Cardinality(S), S)
         /\ \A m, n \in 1..Cardinality(S) : m < n <=> InOrder(before)[m] \in before[InOrder(before)[n]]
<1> DEFINE rank == [x \in S |-> Cardinality(before[x]) + 1]
           ranks == {<<Cardinality(before[x]), x>> : x \in DOMAIN before}
           order == InOrder(before)
<1>0. Cardinality(S) \in Nat /\ DOMAIN before = S
  BY FS_CardinalityType DEF Orders
<1>1. rank \in Bijection(S, 1..Cardinality(S))
  BY RankIsPlace
<1>2. \A x \in S : Cardinality(before[x]) \in Nat
  BY FS_Subset, FS_CardinalityType DEF Orders
<1>3. \A n \in 1..Cardinality(S) : order[n] \in S /\ rank[order[n]] = n
  <2> TAKE n \in 1..Cardinality(S)
  <2>1. PICK x \in S : rank[x] = n
    BY <1>1 DEF Bijection, Surjection
  <2>2. <<Cardinality(before[x]), x>> \in ranks /\ <<Cardinality(before[x]), x>>[1] = n - 1
    BY <1>0, <1>2, <2>1
  <2>3. PICK r \in ranks : r[1] = n - 1 /\ r = CHOOSE q \in ranks : q[1] = n - 1
    BY <2>2
  <2>4. PICK y \in S : r = <<Cardinality(before[y]), y>>
    BY <1>0, <2>3
  <2>5. order[n] = r[2]
    BY <1>0, <2>3 DEF InOrder
  <2>6. r[1] = Cardinality(before[y]) /\ r[2] = y
    BY <2>4
  <2>7. order[n] = y /\ Cardinality(before[y]) = n - 1
    BY <2>6, <2>5, <2>3
  <2> QED BY <2>7, <1>2
<1>4. order \in [1..Cardinality(S) -> S]
  <2>1. order = [n \in 1..Cardinality(S) |-> (CHOOSE r \in ranks : r[1] = n - 1)[2]]
    BY <1>0 DEF InOrder
  <2> QED BY <1>3, <2>1
<1>5. \A x \in S : rank[x] \in 1..Cardinality(S) /\ order[rank[x]] = x
  <2> TAKE x \in S
  <2>1. rank[x] \in 1..Cardinality(S)
    BY <1>1 DEF Bijection, Injection
  <2>2. order[rank[x]] \in S /\ rank[order[rank[x]]] = rank[x]
    BY <1>3, <2>1
  <2> QED BY <1>1, <2>1, <2>2 DEF Bijection, Injection, IsInjective
<1>6. order \in Bijection(1..Cardinality(S), S)
  <2> HIDE DEF order, rank
  <2>1. \A m, n \in 1..Cardinality(S) : order[m] = order[n] => m = n
    BY <1>3
  <2>2. \A x \in S : \E n \in 1..Cardinality(S) : order[n] = x
    BY <1>5
  <2> QED BY <1>4, <2>1, <2>2 DEF Bijection, Injection, Surjection, IsInjective
<1>7. ASSUME NEW m \in 1..Cardinality(S), NEW n \in 1..Cardinality(S) PROVE m < n <=> order[m] \in before[order[n]]
  <2>1. order[m] \in S /\ order[n] \in S /\ rank[order[m]] = m /\ rank[order[n]] = n
    BY <1>3
  <2>2. Cardinality(before[order[m]]) = m - 1 /\ Cardinality(before[order[n]]) = n - 1
    BY <1>2, <2>1
  <2>3. CASE order[m] \in before[order[n]]
    BY <2>1, <2>2, <2>3, RankGrows
  <2>4. CASE order[n] \in before[order[m]]
    <3>1. n < m
      BY <2>1, <2>2, <2>4, RankGrows
    <3>2. order[m] \notin before[order[n]]
      BY <2>1, <2>4 DEF Orders
    <3> QED BY <3>1, <3>2
  <2>5. CASE order[m] = order[n]
    <3>1. m = n
      BY <2>1, <2>5
    <3> QED BY <2>1, <3>1 DEF Orders
  <2> QED BY <2>1, <2>3, <2>4, <2>5 DEF Orders
<1> QED BY <1>6, <1>7

\* A list has the elements of s at the given places, each once and in their order.
Keeps(place, s, at, list) ==
    /\ Cardinality(at) \in Nat
    /\ place \in Bijection(1..Cardinality(at), at)
    /\ \A m, n \in 1..Cardinality(at) : m < n <=> place[m] < place[n]
    /\ list = [n \in 1..Cardinality(at) |-> s[place[n]]]

\* A list has all the elements of s, from the smallest key to the largest, and of two with the same
\* key the one first that was the first.
Sorts(place, s, key, list) ==
    /\ place \in Bijection(DOMAIN s, DOMAIN s)
    /\ \A m, n \in DOMAIN s : m < n <=> \/ key[place[m]] < key[place[n]]
                                        \/ key[place[m]] = key[place[n]] /\ place[m] < place[n]
    /\ list = [n \in DOMAIN s |-> s[place[n]]]

\* Ascending() lists numbers, each once, from the smallest.
LEMMA AscendingRises ==
  ASSUME NEW at \in SUBSET Int, IsFiniteSet(at)
  PROVE  /\ Cardinality(at) \in Nat
         /\ Ascending(at) \in Bijection(1..Cardinality(at), at)
         /\ \A m, n \in 1..Cardinality(at) : m < n <=> Ascending(at)[m] < Ascending(at)[n]
<1> DEFINE before == [i \in at |-> {j \in at : j < i}]
           place == InOrder(before)
<1>1. Cardinality(at) \in Nat
  BY FS_CardinalityType
<1>2. Orders(before, at)
  <2>1. before \in [at -> SUBSET at] /\ \A i \in at : i \notin before[i]
    OBVIOUS
  <2>2. \A i, j \in at : i # j => i \in before[j] \/ j \in before[i]
    OBVIOUS
  <2>3. ASSUME NEW i \in at, NEW j \in at, i \in before[j] PROVE before[i] \subseteq before[j]
    <3>1. i < j /\ \A x \in at : x \in Int
      BY <2>3
    <3>2. \A x \in at : x < i => x < j
      BY <3>1
    <3> QED BY <3>2
  <2> QED BY <2>1, <2>2, <2>3 DEF Orders
<1>3. /\ place \in Bijection(1..Cardinality(at), at)
      /\ \A m, n \in 1..Cardinality(at) : m < n <=> place[m] \in before[place[n]]
  BY <1>2, InOrderIsOrder
<1>4. \A n \in 1..Cardinality(at) : place[n] \in at
  BY <1>3 DEF Bijection, Injection
<1>5. \A m, n \in 1..Cardinality(at) : m < n <=> place[m] < place[n]
  BY <1>3, <1>4
<1>6. Ascending(at) = place
  BY DEF Ascending
<1> HIDE DEF place
<1> QED BY <1>1, <1>3, <1>5, <1>6

\* filter() keeps what it is told to keep.
LEMMA FilteredKeeps ==
  ASSUME NEW s, NEW k \in Nat, DOMAIN s = 1..k, NEW at, at \subseteq 1..k
  PROVE  \E place : Keeps(place, s, at, Filtered(s, at))
<1> DEFINE place == Ascending(at)
<1>1. at \in SUBSET Int /\ IsFiniteSet(at)
  <2>1. IsFiniteSet(1..k)
    BY FS_Interval
  <2>2. at \in SUBSET Int
    OBVIOUS
  <2> QED BY <2>1, <2>2, FS_Subset
<1>2. /\ Cardinality(at) \in Nat /\ place \in Bijection(1..Cardinality(at), at)
      /\ \A m, n \in 1..Cardinality(at) : m < n <=> place[m] < place[n]
  BY <1>1, AscendingRises
<1>3. DOMAIN place = 1..Cardinality(at)
  BY <1>2 DEF Bijection, Injection
<1>4. Filtered(s, at) = [n \in 1..Cardinality(at) |-> s[place[n]]]
  BY <1>3 DEF Filtered
<1>5. Keeps(place, s, at, Filtered(s, at))
  <2> HIDE DEF place
  <2> QED BY <1>2, <1>4 DEF Keeps
<1> QED BY <1>5

\* sort() keeps what there is, in the order of the keys.
LEMMA SortedSorts ==
  ASSUME NEW s, NEW k \in Nat, DOMAIN s = 1..k, NEW key \in [1..k -> Int]
  PROVE  \E place : Sorts(place, s, key, Sorted(s, key))
<1> DEFINE before == [i \in 1..k |-> {j \in 1..k : key[j] < key[i] \/ (key[j] = key[i] /\ j < i)}]
           place == InOrder(before)
<1>1. IsFiniteSet(1..k) /\ Cardinality(1..k) = k
  BY FS_Interval
<1>2. Orders(before, 1..k)
  <2>1. \A i \in 1..k : key[i] \in Int
    OBVIOUS
  <2> QED BY <2>1 DEF Orders
<1>3. /\ place \in Bijection(1..k, 1..k)
      /\ \A m, n \in 1..k : m < n <=> place[m] \in before[place[n]]
  BY <1>1, <1>2, InOrderIsOrder
<1>4. \A n \in 1..k : place[n] \in 1..k
  BY <1>3 DEF Bijection, Injection
<1>5. \A m, n \in 1..k : m < n <=> \/ key[place[m]] < key[place[n]]
                                   \/ key[place[m]] = key[place[n]] /\ place[m] < place[n]
  BY <1>3, <1>4
<1>6. DOMAIN place = 1..k
  BY <1>3 DEF Bijection, Injection
<1>7. Sorted(s, key) = [n \in 1..k |-> s[place[n]]]
  BY <1>6 DEF Sorted
<1>8. Sorts(place, s, key, Sorted(s, key))
  <2> HIDE DEF place
  <2> QED BY <1>3, <1>5, <1>7 DEF Sorts
<1> QED BY <1>8

\* A function on 1..n is a list.
LEMMA FunctionIsSeq ==
  ASSUME NEW S, NEW n \in Nat, NEW s \in [1..n -> S]
  PROVE  s \in Seq(S) /\ Len(s) = n /\ DOMAIN s = 1..n
OBVIOUS

-----------------------------------------------------------------------------
(* Lists built by going through another. *)

\* What holds of the first and, with the one before, of every next, holds of all.
LEMMA UpTo ==
  ASSUME NEW N \in Nat, NEW Good, 0 \in Good, \A n \in 1..N : n - 1 \in Good => n \in Good
  PROVE  \A n \in 0..N : n \in Good
<1> DEFINE Bad == (0..N) \ Good
           Below == {ss \in Nat \X Nat : ss[1] < ss[2]}
<1> SUFFICES ASSUME Bad # {} PROVE FALSE
  OBVIOUS
<1>1. IsWellFoundedOn(Below, Nat)
  BY NatLessThanWellFounded DEF OpToRel
<1>2. PICK x \in Bad : \A y \in Bad : ~(<<y, x>> \in Below)
  <2>1. Bad \subseteq Nat
    OBVIOUS
  <2> QED BY <1>1, <2>1, WFMin
<1>3. x \in 1..N /\ x - 1 \in 0..N /\ <<x - 1, x>> \in Below
  OBVIOUS
<1>4. x - 1 \in Good
  BY <1>2, <1>3
<1> QED BY <1>3, <1>4

\* g has the first value base, and T makes each next of the one before.
IsBuilt(g, N, V, base, T) == g \in [0..N -> V] /\ g[0] = base /\ \A n \in 1..N : g[n] = T[n][g[n - 1]]

\* A function on 0..N may be told by its first value and how each next is made of the one before.
LEMMA Built ==
  ASSUME NEW N \in Nat, NEW V, NEW base \in V, NEW T \in [1..N -> [V -> V]]
  PROVE  \E g : IsBuilt(g, N, V, base, T)
<1> USE DEF IsBuilt
<1> DEFINE Part(k, g) == g \in [0..k -> V] /\ g[0] = base /\ \A n \in 1..k : g[n] = T[n][g[n - 1]]
           Good == {k \in 0..N : \E g : Part(k, g)}
<1>1. 0 \in Good
  <2>1. Part(0, [n \in 0..0 |-> base])
    OBVIOUS
  <2> HIDE DEF Part
  <2> QED BY <2>1
<1>2. ASSUME NEW k \in 1..N, k - 1 \in Good PROVE k \in Good
  <2>1. PICK g : Part(k - 1, g)
    BY <1>2
  <2> DEFINE h == [n \in 0..k |-> IF n = k THEN T[k][g[k - 1]] ELSE g[n]]
  <2>2. g[k - 1] \in V
    BY <2>1
  <2>3. T[k][g[k - 1]] \in V
    BY <2>2
  <2>4. h \in [0..k -> V]
    BY <2>1, <2>3
  <2>5. h[0] = base
    BY <2>1
  <2>6. ASSUME NEW n \in 1..k PROVE h[n] = T[n][h[n - 1]]
    <3>1. CASE n = k
      BY <3>1
    <3>2. CASE n # k
      <4>1. n \in 1..(k - 1) /\ n - 1 \in 0..k /\ n - 1 # k /\ n \in 0..k
        BY <3>2
      <4> QED BY <2>1, <3>2, <4>1
    <3> QED BY <3>1, <3>2
  <2>7. Part(k, h)
    BY <2>4, <2>5, <2>6
  <2> HIDE DEF h, Part
  <2> QED BY <2>7
<1>3. \A k \in 0..N : k \in Good
  <2> HIDE DEF Good
  <2> QED BY <1>1, <1>2, UpTo
<1> QED BY <1>3

\* Such a function has its values in any set that has the first and, with the one before, every next.
LEMMA BuiltIn ==
  ASSUME NEW N \in Nat, NEW V, NEW g, g[0] \in V, \A n \in 1..N : g[n - 1] \in V => g[n] \in V
  PROVE  \A n \in 0..N : g[n] \in V
<1> DEFINE Good == {n \in 0..N : g[n] \in V}
<1>1. 0 \in Good
  OBVIOUS
<1>2. ASSUME NEW n \in 1..N, n - 1 \in Good PROVE n \in Good
  BY <1>2
<1>3. \A n \in 0..N : n \in Good
  <2> HIDE DEF Good
  <2> QED BY <1>1, <1>2, UpTo
<1> QED BY <1>3

\* The same of a tree, in which each number but 0 hangs on a smaller one.
LEMMA UpFrom ==
  ASSUME NEW N \in Nat, NEW up, \A n \in 1..N : up[n] \in 0..(n - 1),
         NEW Good, 0 \in Good, \A n \in 1..N : up[n] \in Good => n \in Good
  PROVE  \A n \in 0..N : n \in Good
<1> DEFINE All == {k \in 0..N : \A n \in 0..k : n \in Good}
<1>1. 0 \in All
  OBVIOUS
<1>2. ASSUME NEW k \in 1..N, k - 1 \in All PROVE k \in All
  <2>1. \A n \in 0..(k - 1) : n \in Good
    BY <1>2
  <2>2. k \in Good
    BY <2>1
  <2> QED BY <2>1, <2>2
<1>3. \A k \in 0..N : k \in All
  <2> HIDE DEF All
  <2> QED BY <1>1, <1>2, UpTo
<1> QED BY <1>3

IsGrown(g, N, V, base, T, up) == g \in [0..N -> V] /\ g[0] = base /\ \A n \in 1..N : g[n] = T[n][g[up[n]]]

LEMMA Grown ==
  ASSUME NEW N \in Nat, NEW up, \A n \in 1..N : up[n] \in 0..(n - 1),
         NEW V, NEW base \in V, NEW T \in [1..N -> [V -> V]]
  PROVE  \E g : IsGrown(g, N, V, base, T, up)
<1> USE DEF IsGrown
<1> DEFINE Part(k, g) == g \in [0..k -> V] /\ g[0] = base /\ \A n \in 1..k : g[n] = T[n][g[up[n]]]
           Good == {k \in 0..N : \E g : Part(k, g)}
<1>1. 0 \in Good
  <2>1. Part(0, [n \in 0..0 |-> base])
    OBVIOUS
  <2> HIDE DEF Part
  <2> QED BY <2>1
<1>2. ASSUME NEW k \in 1..N, k - 1 \in Good PROVE k \in Good
  <2>1. PICK g : Part(k - 1, g)
    BY <1>2
  <2> DEFINE h == [n \in 0..k |-> IF n = k THEN T[k][g[up[k]]] ELSE g[n]]
  <2>2. up[k] \in 0..(k - 1) /\ g[up[k]] \in V
    BY <2>1
  <2>3. T[k][g[up[k]]] \in V
    BY <2>2
  <2>4. h \in [0..k -> V]
    BY <2>1, <2>3
  <2>5. h[0] = base
    BY <2>1
  <2>6. ASSUME NEW n \in 1..k PROVE h[n] = T[n][h[up[n]]]
    <3>1. up[n] \in 0..(n - 1)
      OBVIOUS
    <3>2. up[n] \in 0..k /\ up[n] # k
      BY <3>1
    <3>3. h[up[n]] = g[up[n]]
      BY <3>2
    <3>4. CASE n = k
      BY <3>3, <3>4
    <3>5. CASE n # k
      <4>1. n \in 1..(k - 1) /\ n \in 0..k
        BY <3>5
      <4> QED BY <2>1, <3>3, <3>5, <4>1
    <3> QED BY <3>4, <3>5
  <2>7. Part(k, h)
    BY <2>4, <2>5, <2>6
  <2> HIDE DEF h, Part
  <2> QED BY <2>7
<1>3. \A k \in 0..N : k \in Good
  <2> HIDE DEF Good
  <2> QED BY <1>1, <1>2, UpTo
<1> QED BY <1>3

-----------------------------------------------------------------------------
(* What a field is filled with. *)

\* The kinds of cases, what is expected of one, and the tests of a field.
Kinds == DOMAIN Priority
PlannedKinds == Kinds \ {"context"}
Verdicts == {"accept", "reject", "observe"}
TestType == [kind : PlannedKinds, value : Value, expect : Verdicts]

\* A limit is there once or not at all.
Once(limit) == \A m, n \in limit : m = n
Limited(f) == Once(f.min) /\ Once(f.max) /\ Once(f.step) /\ Once(f.maxLength)

\* A number is a number, and in the field's range when it has one.
LEMMA NumberFits ==
  ASSUME NEW f \in FieldType, Limited(f), NEW preferred \in Int
  PROVE  /\ Number(f, preferred) \in Int
         /\ Clear(f) /\ preferred % 10 = 0 =>
              (\A m \in f.min : Number(f, preferred) >= m) /\ (\A m \in f.max : Number(f, preferred) <= m)
<1> DEFINE low == IF \E m \in f.min : preferred < m THEN CHOOSE m \in f.min : TRUE ELSE preferred
           v == IF \E m \in f.max : low > m THEN CHOOSE m \in f.max : TRUE ELSE low
<1>1. f.min \in SUBSET Int /\ f.max \in SUBSET Int
  BY DEF FieldType
<1>2. low \in Int /\ (low = preferred \/ low \in f.min) /\ \A m \in f.min : low >= m
  <2>1. CASE \E m \in f.min : preferred < m
    <3>1. low \in f.min
      BY <2>1
    <3> HIDE DEF low
    <3> QED BY <1>1, <3>1 DEF Limited, Once
  <2>2. CASE ~\E m \in f.min : preferred < m
    BY <1>1, <2>2
  <2> QED BY <2>1, <2>2
<1> HIDE DEF low
<1>3. v \in Int /\ (v = low \/ v \in f.max) /\ \A m \in f.max : v <= m
  <2>1. CASE \E m \in f.max : low > m
    <3>1. v \in f.max
      BY <2>1
    <3> HIDE DEF v
    <3> QED BY <1>1, <3>1 DEF Limited, Once
  <2>2. CASE ~\E m \in f.max : low > m
    BY <1>1, <1>2, <2>2
  <2> QED BY <2>1, <2>2
<1>4. (\A m \in f.min, n \in f.max : m <= n) => \A m \in f.min : v >= m
  BY <1>1, <1>2, <1>3
<1>5. Number(f, preferred) = IF IsInteger(f) THEN 10 * ((v + 5) \div 10) ELSE v
  BY DEF Number, low
<1> HIDE DEF v
<1>6. 10 * ((v + 5) \div 10) \in Int
  BY <1>3
<1>7. v % 10 = 0 => 10 * ((v + 5) \div 10) = v
  BY <1>3
<1>8. Clear(f) /\ preferred % 10 = 0 /\ IsInteger(f) => v % 10 = 0
  BY <1>2, <1>3 DEF Clear
<1> QED BY <1>3, <1>4, <1>5, <1>6, <1>7, <1>8 DEF Clear

\* The happy value of a field is one that it takes.
LEMMA HappyValueFits ==
  ASSUME NEW f \in FieldType, Limited(f), NEW seq \in Nat
  PROVE  HappyValue(f, seq) \in Value /\ (Clear(f) => Fine(f, HappyValue(f, seq)))
<1> DEFINE v == HappyValue(f, seq)
<1>0. Preferred(f.semantic) \in Int /\ Preferred(f.semantic) % 10 = 0
  BY DEF Preferred
<1>1. ASSUME v.sort \in {"option", "number", "date", "word"} PROVE v # Empty /\ v # Blank /\ v.sort # "chars"
  BY <1>1 DEF Empty, Blank, Val
<1>2. CASE f.type = "select"
  <2>1. v = Val("option", 0)
    BY <1>2 DEF HappyValue
  <2>2. v \in Value /\ v.sort = "option"
    BY <2>1 DEF Val, Value
  <2> QED BY <1>1, <1>2, <2>2 DEF Fine
<1>3. CASE f.type # "select" /\ IsNumeric(f)
  <2>1. v = Val("number", Number(f, Preferred(f.semantic)))
    BY <1>3 DEF HappyValue
  <2>2. v \in Value /\ v.sort = "number" /\ v.n = Number(f, Preferred(f.semantic))
    BY <1>0, <2>1, NumberFits DEF Val, Value
  <2>3. Clear(f) => f.type # "date" /\ f.type # "email" /\ (f.type = "number" => OnStep(f, v.n))
    BY <1>3, <2>2 DEF Clear, IsNumeric, NumericSemantics
  <2>4. Clear(f) => (\A m \in f.min : v.n >= m) /\ (\A m \in f.max : v.n <= m)
    BY <1>0, <2>2, NumberFits
  <2> HIDE DEF v
  <2> QED BY <1>1, <1>3, <2>2, <2>3, <2>4 DEF Fine, v
<1>4. CASE f.type # "select" /\ ~IsNumeric(f) /\ f.semantic \in {"date", "birth_date"}
  <2>1. v \in Value /\ v.sort = "date"
    BY <1>4 DEF HappyValue, Today, Val, Value
  <2>2. f.type # "number" /\ (Clear(f) => f.type # "email")
    BY <1>4 DEF IsNumeric, Clear
  <2> HIDE DEF v
  <2> QED BY <1>1, <1>4, <2>1, <2>2 DEF Fine, v
<1>5. CASE f.type # "select" /\ ~IsNumeric(f) /\ f.semantic \notin {"date", "birth_date"}
  <2>1. v \in Value /\ v.sort = "word"
    BY <1>5 DEF HappyValue, Val, Value
  <2>2. f.type # "number" /\ (Clear(f) => f.type # "date")
    BY <1>5 DEF IsNumeric, Clear
  <2> HIDE DEF v
  <2> QED BY <1>1, <1>5, <2>1, <2>2 DEF Fine, v
<1> QED BY <1>2, <1>3, <1>4, <1>5

\* A test is right when its value is wrong about what the test is about.
Right(f, t) == t \in TestType /\ (Clear(f) => Wrong(t.kind, f, t.value))

LEMMA TestIsRight ==
  ASSUME NEW f, NEW kind \in PlannedKinds, NEW v \in Value, NEW expect \in Verdicts, Clear(f) => Wrong(kind, f, v)
  PROVE  Right(f, Test(kind, v, expect))
BY DEF Right, Test, TestType

\* The limits of a field that has them.
LEMMA LimitsAreInts ==
  ASSUME NEW f \in FieldType
  PROVE  f.min \in SUBSET Int /\ f.max \in SUBSET Int /\ f.step \in SUBSET Int /\ f.maxLength \in SUBSET Int
BY DEF FieldType

\* What may be left out, and how long it may be.
LEMMA TextTestsAreRight ==
  ASSUME NEW f \in FieldType, Limited(f), NEW t \in TextTests(f)
  PROVE  Right(f, t)
<1> DEFINE lengths == IsText(f) /\ f.semantic \notin {"email", "date", "gstin"}
           limits == {m \in f.maxLength : 0 < m /\ m < 10000}
<1>1. \/ t = Test("required_empty", Empty, "reject")
      \/ t = Test("whitespace", Blank, "reject")
      \/ lengths /\ \E m \in limits : t = Test("max_length", Val("chars", m), "accept")
      \/ lengths /\ \E m \in limits : t = Test("over_max_length", Val("chars", m + 1), "reject")
      \/ t = Test("very_long", Val("chars", 5000), "observe")
  BY DEF TextTests, When
<1>2. {"required_empty", "whitespace", "max_length", "over_max_length", "very_long"} \subseteq PlannedKinds
  BY DEF PlannedKinds, Kinds, Priority
<1>3. {"accept", "reject", "observe"} \subseteq Verdicts
  BY DEF Verdicts
<1>4. CASE t = Test("required_empty", Empty, "reject")
  <2>1. Empty \in Value /\ Wrong("required_empty", f, Empty)
    BY DEF Empty, Val, Value, Wrong
  <2> QED BY <1>2, <1>3, <1>4, <2>1, TestIsRight
<1>5. CASE t = Test("whitespace", Blank, "reject")
  <2>1. Blank \in Value /\ Wrong("whitespace", f, Blank)
    BY DEF Blank, Val, Value, Wrong
  <2> QED BY <1>2, <1>3, <1>5, <2>1, TestIsRight
<1>6. ASSUME lengths, NEW m \in limits, t = Test("max_length", Val("chars", m), "accept")
      PROVE  Right(f, t)
  <2>1. m \in Int /\ \A n \in f.maxLength : n = m
    BY LimitsAreInts DEF Limited, Once
  <2>2. Val("chars", m) \in Value /\ Val("chars", m).sort = "chars" /\ Val("chars", m).n = m
    BY <2>1 DEF Val, Value
  <2>3. f.type \in {"text", "email", "textarea"} /\ (Clear(f) => f.type # "email")
    BY <1>6 DEF IsText, Clear
  <2>4. Clear(f) => Fine(f, Val("chars", m))
    <3>1. Val("chars", m) # Empty /\ Val("chars", m) # Blank
      BY DEF Val, Empty, Blank
    <3> HIDE DEF limits
    <3> QED BY <2>1, <2>2, <2>3, <3>1 DEF Fine
  <2>5. Clear(f) => Wrong("max_length", f, Val("chars", m))
    BY <2>4 DEF Wrong
  <2> QED BY <1>2, <1>3, <1>6, <2>2, <2>5, TestIsRight
<1>7. ASSUME NEW m \in limits, t = Test("over_max_length", Val("chars", m + 1), "reject")
      PROVE  Right(f, t)
  <2>1. m \in Int /\ \A n \in f.maxLength : n = m
    BY LimitsAreInts DEF Limited, Once
  <2>2. Val("chars", m + 1) \in Value /\ Wrong("over_max_length", f, Val("chars", m + 1))
    BY <2>1 DEF Val, Value, Wrong
  <2> HIDE DEF limits
  <2> QED BY <1>2, <1>3, <1>7, <2>2, TestIsRight
<1>8. CASE t = Test("very_long", Val("chars", 5000), "observe")
  <2>1. Val("chars", 5000) \in Value /\ Wrong("very_long", f, Val("chars", 5000))
    BY DEF Val, Value, Wrong
  <2> QED BY <1>2, <1>3, <1>8, <2>1, TestIsRight
<1> QED BY <1>1, <1>4, <1>5, <1>6, <1>7, <1>8

\* A number at a limit is one that a field of numbers takes, and the last it takes.
LEMMA LimitFits ==
  ASSUME NEW f \in FieldType, Limited(f), IsNumeric(f), f.type # "select", Clear(f), NEW m \in f.min \cup f.max
  PROVE  Fine(f, Val("number", m))
<1>1. m \in Int /\ (\A n \in f.min : n <= m) /\ (\A n \in f.max : m <= n)
  BY LimitsAreInts DEF Limited, Once, Clear
<1>2. Val("number", m).sort = "number" /\ Val("number", m).n = m /\ Val("number", m) # Empty /\ Val("number", m) # Blank
  BY DEF Val, Empty, Blank
<1>3. f.type # "date" /\ f.type # "email"
  BY DEF Clear, IsNumeric, NumericSemantics
<1>4. f.type = "number" => OnStep(f, m)
  <2>1. CASE m \in f.max
    BY <2>1 DEF Clear
  <2>2. CASE m \in f.min
    <3> DEFINE base == IF f.min = {} THEN 0 ELSE CHOOSE n \in f.min : TRUE
               step == IF f.step = {} THEN 10 ELSE CHOOSE s \in f.step : TRUE
    <3>1. base = m
      BY <2>2 DEF Limited, Once
    <3>2. step \in Int /\ step > 0
      <4>1. CASE f.step = {}
        BY <4>1
      <4>2. CASE f.step # {}
        <5>1. step \in f.step
          BY <4>2
        <5> HIDE DEF step
        <5> QED BY <5>1, LimitsAreInts DEF Clear
      <4> QED BY <4>1, <4>2
    <3>3. OnStep(f, m) <=> (m - base) % step = 0
      BY DEF OnStep
    <3> HIDE DEF base, step
    <3>4. m - base = 0 /\ 0 % step = 0
      BY <1>1, <3>1, <3>2
    <3> QED BY <3>3, <3>4
  <2> QED BY <2>1, <2>2
<1> QED BY <1>1, <1>2, <1>3, <1>4, LimitsAreInts DEF Fine

\* The range of a number.
LEMMA NumberTestsAreRight ==
  ASSUME NEW f \in FieldType, Limited(f), IsNumeric(f), f.type # "select", NEW t \in NumberTests(f)
  PROVE  Right(f, t)
<1> DEFINE step == IF f.step = {} THEN 10 ELSE CHOOSE s \in f.step : TRUE
           ofZero == IF f.min = {} THEN (IF f.semantic = "quantity" THEN "reject" ELSE "observe")
                     ELSE IF 0 \in f.min THEN "accept" ELSE "reject"
           fall == IF f.semantic = "currency_amount" THEN -1000 ELSE -50
<1>1. \/ t = Test("negative", Val("number", fall), "reject")
      \/ t = Test("zero", Val("number", 0), ofZero)
      \/ \E m \in f.min : t = Test("below_min", Val("number", m - step), "reject")
      \/ \E m \in f.min : t = Test("at_min", Val("number", m), "accept")
      \/ \E m \in f.max : t = Test("at_max", Val("number", m), "accept")
      \/ \E m \in f.max : t = Test("above_max", Val("number", m + step), "reject")
      \/ f.max = {} /\ t = Test("above_max", Val("number", 1500), "reject")
      \/ t = Test("decimal_for_integer", Val("number", 25), "reject")
      \/ t = Test("wrong_type", Garbage, "reject")
  BY DEF NumberTests, When
<1>2. {"negative", "zero", "below_min", "at_min", "at_max", "above_max", "decimal_for_integer", "wrong_type"} \subseteq PlannedKinds
  BY DEF PlannedKinds, Kinds, Priority
<1>3. {"accept", "reject", "observe"} \subseteq Verdicts /\ ofZero \in Verdicts
  BY DEF Verdicts
<1>4. step \in Int /\ (Clear(f) => step > 0)
  <2>1. CASE f.step = {}
    BY <2>1
  <2>2. CASE f.step # {}
    <3>1. step \in f.step
      BY <2>2
    <3> HIDE DEF step
    <3> QED BY <3>1, LimitsAreInts DEF Clear
  <2> QED BY <2>1, <2>2
<1>5. fall \in Int /\ fall < 0
  OBVIOUS
<1> HIDE DEF step, ofZero, fall
<1>6. \A n \in Int : Val("number", n) \in Value /\ Val("number", n).sort = "number" /\ Val("number", n).n = n
  BY DEF Val, Value
<1>7. CASE t = Test("negative", Val("number", fall), "reject")
  <2>1. Wrong("negative", f, Val("number", fall))
    BY <1>5, <1>6 DEF Wrong
  <2> QED BY <1>2, <1>3, <1>5, <1>6, <1>7, <2>1, TestIsRight
<1>8. CASE t = Test("zero", Val("number", 0), ofZero)
  <2>1. Wrong("zero", f, Val("number", 0))
    BY DEF Wrong
  <2> QED BY <1>2, <1>3, <1>6, <1>8, <2>1, TestIsRight
<1>9. ASSUME NEW m \in f.min, t = Test("below_min", Val("number", m - step), "reject") PROVE Right(f, t)
  <2>1. m \in Int /\ m - step \in Int /\ (Clear(f) => \A n \in f.min : m - step < n)
    BY <1>4, LimitsAreInts DEF Limited, Once
  <2>2. Clear(f) => Wrong("below_min", f, Val("number", m - step))
    BY <1>6, <2>1 DEF Wrong
  <2> QED BY <1>2, <1>3, <1>6, <1>9, <2>1, <2>2, TestIsRight
<1>10. ASSUME NEW m \in f.min, t = Test("at_min", Val("number", m), "accept") PROVE Right(f, t)
  <2>1. m \in Int /\ (Clear(f) => Fine(f, Val("number", m)))
    BY LimitsAreInts, LimitFits
  <2>2. Clear(f) => Wrong("at_min", f, Val("number", m))
    BY <2>1 DEF Wrong
  <2> QED BY <1>2, <1>3, <1>6, <1>10, <2>1, <2>2, TestIsRight
<1>11. ASSUME NEW m \in f.max, t = Test("at_max", Val("number", m), "accept") PROVE Right(f, t)
  <2>1. m \in Int /\ (Clear(f) => Fine(f, Val("number", m)))
    BY LimitsAreInts, LimitFits
  <2>2. Clear(f) => Wrong("at_max", f, Val("number", m))
    BY <2>1 DEF Wrong
  <2> QED BY <1>2, <1>3, <1>6, <1>11, <2>1, <2>2, TestIsRight
<1>12. ASSUME NEW m \in f.max, t = Test("above_max", Val("number", m + step), "reject") PROVE Right(f, t)
  <2>1. m \in Int /\ m + step \in Int /\ (Clear(f) => m + step > m)
    BY <1>4, LimitsAreInts
  <2> DEFINE top == IF f.max = {} THEN 1000 ELSE CHOOSE n \in f.max : TRUE
  <2>2. top = m
    BY DEF Limited, Once
  <2>3. Wrong("above_max", f, Val("number", m + step)) <=>
          Val("number", m + step).sort = "number" /\ Val("number", m + step).n > top
    BY DEF Wrong
  <2> HIDE DEF top
  <2>4. Clear(f) => Wrong("above_max", f, Val("number", m + step))
    <3>1. Val("number", m + step).sort = "number" /\ Val("number", m + step).n = m + step
      BY <1>6, <2>1
    <3> QED BY <2>1, <2>2, <2>3, <3>1
  <2> QED BY <1>2, <1>3, <1>6, <1>12, <2>1, <2>4, TestIsRight
<1>13. CASE f.max = {} /\ t = Test("above_max", Val("number", 1500), "reject")
  <2>1. Wrong("above_max", f, Val("number", 1500))
    BY <1>6, <1>13 DEF Wrong
  <2> QED BY <1>2, <1>3, <1>6, <1>13, <2>1, TestIsRight
<1>14. CASE t = Test("decimal_for_integer", Val("number", 25), "reject")
  <2>1. Wrong("decimal_for_integer", f, Val("number", 25))
    BY <1>6 DEF Wrong
  <2> QED BY <1>2, <1>3, <1>6, <1>14, <2>1, TestIsRight
<1>15. CASE t = Test("wrong_type", Garbage, "reject")
  <2>1. Garbage \in Value /\ Wrong("wrong_type", f, Garbage)
    BY DEF Garbage, Val, Value, Wrong
  <2> QED BY <1>2, <1>3, <1>15, <2>1, TestIsRight
<1> QED BY <1>1, <1>7, <1>8, <1>9, <1>10, <1>11, <1>12, <1>13, <1>14, <1>15

\* Formats, and what a text may contain.
LEMMA FormatTestsAreRight ==
  ASSUME NEW f \in FieldType, NEW special \in BOOLEAN, special => IsFree(f), NEW t \in FormatTests(f, special)
  PROVE  Right(f, t)
<1>1. \/ t = Test("invalid_format", Garbage, "reject")
      \/ t = Test("invalid_date", Val("impossible", 0), "reject")
      \/ f.semantic = "birth_date" /\ t = Test("invalid_date", Val("date", Today + 365), "reject")
      \/ special /\ \E k \in Specials :
           t = Test(k, Val(k, 0), IF k \in {"html_injection", "sql_injection"} THEN "observe" ELSE "accept")
  BY DEF FormatTests, When
<1>2. {"invalid_format", "invalid_date"} \cup Specials \subseteq PlannedKinds
  BY DEF PlannedKinds, Kinds, Priority, Specials
<1>3. {"accept", "reject", "observe"} \subseteq Verdicts
  BY DEF Verdicts
<1>4. CASE t = Test("invalid_format", Garbage, "reject")
  <2>1. Garbage \in Value /\ Wrong("invalid_format", f, Garbage)
    BY DEF Garbage, Val, Value, Wrong
  <2> QED BY <1>2, <1>3, <1>4, <2>1, TestIsRight
<1>5. CASE t = Test("invalid_date", Val("impossible", 0), "reject")
  <2>1. Val("impossible", 0) \in Value /\ Wrong("invalid_date", f, Val("impossible", 0))
    BY DEF Val, Value, Wrong
  <2> QED BY <1>2, <1>3, <1>5, <2>1, TestIsRight
<1>6. CASE f.semantic = "birth_date" /\ t = Test("invalid_date", Val("date", Today + 365), "reject")
  <2>1. Val("date", Today + 365) \in Value /\ Wrong("invalid_date", f, Val("date", Today + 365))
    BY <1>6 DEF Val, Value, Wrong, Today
  <2> QED BY <1>2, <1>3, <1>6, <2>1, TestIsRight
<1>7. ASSUME special, NEW k \in Specials, NEW expect \in Verdicts, t = Test(k, Val(k, 0), expect) PROVE Right(f, t)
  <2>1. Val(k, 0) \in Value /\ Val(k, 0).sort = k
    BY DEF Specials, Val, Value
  <2>2. CASE k \in {"html_injection", "sql_injection"}
    <3>1. Wrong(k, f, Val(k, 0))
      BY <2>1, <2>2 DEF Wrong
    <3> QED BY <1>2, <1>7, <2>1, <3>1, TestIsRight
  <2>3. CASE k \in {"unicode", "emoji", "rtl"}
    <3>1. f.semantic \in FreeText /\ f.type # "select"
      BY <1>7 DEF IsFree
    <3>2. Clear(f) => f.type \notin {"number", "date", "email"}
      BY <3>1 DEF Clear, FreeText, NumericSemantics
    <3>3. Clear(f) => Fine(f, Val(k, 0))
      BY <2>1, <2>3, <3>1, <3>2 DEF Fine, Empty, Blank, Val
    <3>4. Clear(f) => Wrong(k, f, Val(k, 0))
      BY <2>3, <3>3 DEF Wrong
    <3> QED BY <1>2, <1>7, <2>1, <3>4, TestIsRight
  <2> QED BY <2>2, <2>3 DEF Specials
<1>8. CASE special /\ \E k \in Specials :
             t = Test(k, Val(k, 0), IF k \in {"html_injection", "sql_injection"} THEN "observe" ELSE "accept")
  BY <1>3, <1>7, <1>8
<1> QED BY <1>1, <1>4, <1>5, <1>6, <1>8

-----------------------------------------------------------------------------
(* What planCases() thinks of. *)

Maps == UNION {[K -> Value] : K \in SUBSET STRING}

ClearForm(d) == \A f \in Range(d.fields) : Clear(f)

\* One fault before a plan has come, and after.
Strict(d, kind, key, values) == OneFault(d, FALSE, kind, key, values)
Loose(d, kind, key, values) == OneFault(d, TRUE, kind, key, values)

CandidateType == [kind : PlannedKinds, key : STRING, over : Maps, expect : Verdicts, index : Int, repeats : BOOLEAN]

\* A candidate is about a field it has a value for, about the form, or repeats the happy values.
ProperCandidates(d) ==
    {c \in CandidateType :
       /\ c.key \in KeysIn(d) \cup {NoField} /\ DOMAIN c.over \subseteq KeysIn(d)
       /\ ClearForm(d) => Strict(d, c.kind, c.key, c.over)
       /\ c.key \in KeysIn(d) \ DOMAIN c.over => c.kind = "duplicate"}

\* No two fields have the same key.
LEMMA FieldIsOne ==
  ASSUME NEW d \in FormType, NEW f \in Range(d.fields)
  PROVE  f \in FieldType /\ Limited(f) /\ f.key \in KeysIn(d) /\ f.key \in STRING /\ f.key # NoField /\ FieldOf(d, f.key) = f
<1>1. d.fields \in Seq(FieldType)
  BY DEF FormType
<1>2. PICK i \in DOMAIN d.fields : f = d.fields[i]
  BY DEF Range
<1>3. f \in FieldType /\ f.key # NoField
  BY <1>1, <1>2 DEF FormType
<1>4. Limited(f)
  BY <1>2 DEF FormType, Limited, Once
<1>5. \A g \in Range(d.fields) : g.key = f.key => g = f
  BY <1>2 DEF FormType, Range
<1>6. FieldOf(d, f.key) = f
  BY <1>5 DEF FieldOf
<1> QED BY <1>3, <1>4, <1>6 DEF FieldType, KeysIn, KeysOf

\* The fields a test can fill in are fields of the form.
LEMMA FillableFields ==
  ASSUME NEW d \in FormType
  PROVE  /\ Fillable(d) \in Seq(FieldType)
         /\ \A i \in DOMAIN Fillable(d) : Fillable(d)[i] \in Range(d.fields)
         /\ \A i, k \in DOMAIN Fillable(d) : Fillable(d)[i].key = Fillable(d)[k].key => i = k
<1> DEFINE at == {i \in DOMAIN d.fields : ~d.fields[i].readOnly}
<1>1. d.fields \in Seq(FieldType) /\ DOMAIN d.fields = 1..Len(d.fields) /\ Len(d.fields) \in Nat
  BY DEF FormType
<1>2. PICK place : Keeps(place, d.fields, at, Filtered(d.fields, at))
  <2>1. at \subseteq 1..Len(d.fields)
    BY <1>1
  <2> HIDE DEF at
  <2> QED BY <1>1, <2>1, FilteredKeeps
<1> HIDE DEF at
<1>3. Fillable(d) = [n \in 1..Cardinality(at) |-> d.fields[place[n]]]
  BY <1>2 DEF Fillable, at, Keeps
<1>4. at \subseteq DOMAIN d.fields
  BY DEF at
<1>5. \A n \in 1..Cardinality(at) : place[n] \in DOMAIN d.fields
  BY <1>2, <1>4 DEF Keeps, Bijection, Injection
<1>6. \A m, n \in 1..Cardinality(at) : place[m] = place[n] => m = n
  BY <1>2 DEF Keeps, Bijection, Injection, IsInjective
<1>7. \A n \in 1..Cardinality(at) : d.fields[place[n]] \in FieldType
  BY <1>1, <1>5
<1>8. Fillable(d) \in Seq(FieldType)
  BY <1>2, <1>3, <1>7, FunctionIsSeq DEF Keeps
<1>9. \A i \in DOMAIN Fillable(d) : Fillable(d)[i] \in Range(d.fields)
  BY <1>3, <1>5 DEF Range
<1>10. \A i, k \in DOMAIN Fillable(d) : Fillable(d)[i].key = Fillable(d)[k].key => i = k
  BY <1>3, <1>5, <1>6 DEF FormType
<1> QED BY <1>8, <1>9, <1>10

LEMMA NothingIsMap == <<>> \in Maps /\ DOMAIN <<>> = {}
<1>1. <<>> \in Seq(Value) /\ Len(<<>>) = 0
  BY EmptySeq
<1>2. DOMAIN <<>> = {} /\ <<>> \in [{} -> Value]
  BY <1>1
<1> QED BY <1>2 DEF Maps

\* The tests of a field.
LEMMA FieldCandidatesAreProper ==
  ASSUME NEW d \in FormType, NEW i \in DOMAIN Fillable(d)
  PROVE  FieldCandidates(Fillable(d), i) \in Seq(ProperCandidates(d))
<1> DEFINE fields == Fillable(d)
           f == fields[i]
           special == IsFree(f) /\ Cardinality({k \in 1..(i - 1) : IsFree(fields[k])}) < 2
           tests == TextTests(f) \cup When(IsNumeric(f) /\ f.type # "select", NumberTests(f)) \cup FormatTests(f, special)
           Thought(k) == (\E t \in tests : t.kind = k) \/ (k = "duplicate" /\ f.unique)
           at == {n \in DOMAIN FieldKinds : Thought(FieldKinds[n])}
           kinds == Filtered(FieldKinds, at)
           Of(k) == IF k = "duplicate"
                    THEN Candidate(k, f.key, <<>>, "reject", i - 1, TRUE)
                    ELSE LET t == CHOOSE t \in tests : t.kind = k
                         IN Candidate(k, f.key, [key \in {f.key} |-> t.value], t.expect, i - 1, FALSE)
<1>1. FieldCandidates(fields, i) = [n \in DOMAIN kinds |-> Of(kinds[n])]
  BY DEF FieldCandidates
<1>2. f \in Range(d.fields) /\ i \in Int
  <2>1. fields \in Seq(FieldType)
    BY FillableFields
  <2> QED BY <2>1, FillableFields
<1>3. f \in FieldType /\ Limited(f) /\ f.key \in KeysIn(d) /\ f.key \in STRING /\ f.key # NoField /\ FieldOf(d, f.key) = f
  BY <1>2, FieldIsOne
<1>4. special \in BOOLEAN /\ (special => IsFree(f))
  BY DEF IsFree
<1>5. \A t \in tests : Right(f, t)
  <2>1. \A t \in TextTests(f) : Right(f, t)
    BY <1>3, TextTestsAreRight
  <2>2. \A t \in When(IsNumeric(f) /\ f.type # "select", NumberTests(f)) : Right(f, t)
    BY <1>3, NumberTestsAreRight DEF When
  <2>3. \A t \in FormatTests(f, special) : Right(f, t)
    <3> HIDE DEF special, f
    <3> QED BY <1>3, <1>4, FormatTestsAreRight
  <2> QED BY <2>1, <2>2, <2>3
<1> HIDE DEF tests, special, fields, f
<1>6. DOMAIN FieldKinds = 1..21
  BY DEF FieldKinds
<1>7. PICK place : Keeps(place, FieldKinds, at, kinds)
  <2>1. at \subseteq 1..21
    BY <1>6
  <2> HIDE DEF at
  <2> QED BY <1>6, <2>1, FilteredKeeps
<1>8. \A n \in 1..Cardinality(at) : Thought(kinds[n])
  <2> TAKE n \in 1..Cardinality(at)
  <2>1. place[n] \in at
    BY <1>7 DEF Keeps, Bijection, Injection
  <2>2. Thought(FieldKinds[place[n]])
    BY <2>1
  <2>3. kinds[n] = FieldKinds[place[n]]
    <3> HIDE DEF kinds
    <3> QED BY <1>7 DEF Keeps
  <2> QED BY <2>2, <2>3
<1>9. ASSUME NEW k, Thought(k) PROVE Of(k) \in ProperCandidates(d)
  <2>1. CASE k = "duplicate"
    <3>1. Of(k) = [kind |-> "duplicate", key |-> f.key, over |-> <<>>, expect |-> "reject", index |-> i - 1, repeats |-> TRUE]
      BY <2>1 DEF Candidate
    <3>2. "duplicate" \in PlannedKinds /\ "reject" \in Verdicts
      BY DEF PlannedKinds, Kinds, Priority, Verdicts
    <3> HIDE DEF Of
    <3>3. Of(k) \in CandidateType
      BY <1>2, <1>3, <3>1, <3>2, NothingIsMap DEF CandidateType
    <3>4. Strict(d, "duplicate", f.key, <<>>)
      BY NothingIsMap DEF Strict, OneFault
    <3> QED BY <1>3, <3>1, <3>3, <3>4, NothingIsMap DEF ProperCandidates
  <2>2. CASE k # "duplicate"
    <3> DEFINE t == CHOOSE t \in tests : t.kind = k
               over == [key \in {f.key} |-> t.value]
    <3>1. t \in tests /\ t.kind = k
      BY <1>9, <2>2
    <3>2. t \in TestType /\ (Clear(f) => Wrong(k, f, t.value))
      BY <1>5, <3>1 DEF Right
    <3>3. k \in PlannedKinds /\ t.value \in Value /\ t.expect \in Verdicts
      BY <3>1, <3>2 DEF TestType
    <3>4. Of(k) = [kind |-> k, key |-> f.key, over |-> over, expect |-> t.expect, index |-> i - 1, repeats |-> FALSE]
      BY <2>2 DEF Candidate
    <3> HIDE DEF t, Of
    <3>5. over \in Maps /\ DOMAIN over = {f.key} /\ over[f.key] = t.value
      <4>1. over \in [{f.key} -> Value] /\ {f.key} \in SUBSET STRING
        BY <1>3, <3>3
      <4> QED BY <4>1 DEF Maps
    <3> HIDE DEF over
    <3>6. Of(k) \in CandidateType
      BY <1>2, <1>3, <3>3, <3>4, <3>5 DEF CandidateType
    <3>7. ClearForm(d) => Strict(d, k, f.key, over)
      BY <1>2, <1>3, <3>2, <3>5 DEF Strict, OneFault, ClearForm
    <3> QED BY <1>3, <3>4, <3>5, <3>6, <3>7 DEF ProperCandidates
  <2> QED BY <2>1, <2>2
<1>10. \A n \in 1..Cardinality(at) : Of(kinds[n]) \in ProperCandidates(d)
  BY <1>8, <1>9
<1>11. DOMAIN kinds = 1..Cardinality(at)
  <2> HIDE DEF kinds
  <2> QED BY <1>7 DEF Keeps
<1> HIDE DEF Of, kinds, at
<1> QED BY <1>1, <1>7, <1>10, <1>11, FunctionIsSeq DEF fields, Keeps

\* Every nonempty set of places has a first.
LEMMA FirstPlace ==
  ASSUME NEW T, T \subseteq Nat, T # {}
  PROVE  Min(T) \in T /\ \A y \in T : Min(T) <= y
<1> DEFINE Below == {ss \in Nat \X Nat : ss[1] < ss[2]}
<1>0. IsWellFoundedOn(Below, Nat)
  BY NatLessThanWellFounded DEF OpToRel
<1>1. PICK x \in T : \A y \in T : ~(<<y, x>> \in Below)
  BY <1>0, WFMin
<1>2. ASSUME NEW y \in T PROVE x <= y
  <2>1. ~(y < x)
    BY <1>1
  <2>2. x \in Nat /\ y \in Nat
    OBVIOUS
  <2> QED BY <2>1, <2>2
<1> QED BY <1>2 DEF Min

\* An end date before the start date.
LEMMA DateCandidatesAreProper ==
  ASSUME NEW d \in FormType
  PROVE  DateCandidates(Fillable(d)) \in Seq(ProperCandidates(d))
<1> DEFINE fields == Fillable(d)
           dates == {i \in DOMAIN fields : fields[i].semantic = "date"}
           ends == {i \in dates : fields[i].end}
           starts == dates \ {Min(ends)}
           end == fields[Min(ends)].key
           start == fields[Min(starts)].key
           over == [k \in {start, end} |-> Val("date", IF k = start THEN Today ELSE Today - 5)]
           c == Candidate("invalid_date", end, over, "reject", 0, FALSE)
<1>1. DateCandidates(fields) = IF ends = {} \/ starts = {} THEN <<>> ELSE <<c>>
  BY DEF DateCandidates
<1>2. SUFFICES ASSUME ends # {}, starts # {} PROVE c \in ProperCandidates(d)
  <2> HIDE DEF c, ends, starts
  <2> QED BY <1>1, EmptySeq DEF fields
<1>3. dates \subseteq Nat /\ dates \subseteq DOMAIN fields
  BY FillableFields
<1>4. Min(ends) \in ends /\ Min(starts) \in starts
  <2>1. ends \subseteq Nat /\ starts \subseteq Nat
    BY <1>3
  <2> HIDE DEF ends, starts
  <2> QED BY <1>2, <2>1, FirstPlace
<1>5. Min(ends) \in dates /\ Min(starts) \in dates /\ Min(starts) # Min(ends)
  BY <1>4
<1> DEFINE e == fields[Min(ends)]
           s == fields[Min(starts)]
<1>6. e \in Range(d.fields) /\ s \in Range(d.fields) /\ e.semantic = "date" /\ s.semantic = "date" /\ s.key # e.key
  <2> HIDE DEF ends, starts
  <2> QED BY <1>3, <1>5, FillableFields
<1>7. end = e.key /\ start = s.key
  OBVIOUS
<1> HIDE DEF e, s, start, end, ends, starts, dates
<1>8. /\ end \in KeysIn(d) /\ end \in STRING /\ FieldOf(d, end) = e
      /\ start \in KeysIn(d) /\ start \in STRING /\ FieldOf(d, start) = s
  BY <1>6, <1>7, FieldIsOne
<1>9. over \in Maps /\ DOMAIN over = {start, end}
  <2>1. over \in [{start, end} -> Value]
    BY DEF Val, Value, Today
  <2>2. {start, end} \in SUBSET STRING
    BY <1>8
  <2> HIDE DEF over
  <2> QED BY <2>1, <2>2 DEF Maps
<1>10. over[start] = Val("date", 0) /\ over[end] = Val("date", -5)
  BY <1>6, <1>7 DEF Today
<1>11. c = [kind |-> "invalid_date", key |-> end, over |-> over, expect |-> "reject", index |-> 0, repeats |-> FALSE]
  BY DEF Candidate
<1> HIDE DEF over, c
<1>12. Reversed(d, end, over)
  <2>1. start \in OtherDates(d, end, over)
    BY <1>6, <1>7, <1>8, <1>9 DEF OtherDates
  <2> QED BY <1>10, <2>1 DEF Reversed, Val, Today
<1>13. ClearForm(d) => Fine(s, over[start])
  <2>1. ClearForm(d) => s.type # "select" /\ s.type # "number" /\ s.type # "email"
    BY <1>6 DEF ClearForm, Clear, NumericSemantics
  <2>2. over[start].sort = "date" /\ over[start] # Empty /\ over[start] # Blank
    BY <1>10 DEF Val, Empty, Blank
  <2> QED BY <2>1, <2>2 DEF Fine
<1>14. ClearForm(d) => Strict(d, "invalid_date", end, over)
  BY <1>6, <1>7, <1>8, <1>9, <1>12, <1>13 DEF Strict, OneFault
<1>15. c \in CandidateType
  <2>1. "invalid_date" \in PlannedKinds /\ "reject" \in Verdicts
    BY DEF PlannedKinds, Kinds, Priority, Verdicts
  <2> QED BY <1>8, <1>9, <1>11, <2>1 DEF CandidateType
<1> QED BY <1>8, <1>9, <1>11, <1>14, <1>15 DEF ProperCandidates

\* A test of the form as a whole.
LEMMA WholeIsProper ==
  ASSUME NEW d, NEW kind \in PlannedKinds, NEW expect \in Verdicts, NEW repeats \in BOOLEAN, NoField \notin KeysIn(d)
  PROVE  Candidate(kind, NoField, <<>>, expect, 0, repeats) \in ProperCandidates(d)
<1> DEFINE c == Candidate(kind, NoField, <<>>, expect, 0, repeats)
<1>1. c = [kind |-> kind, key |-> NoField, over |-> <<>>, expect |-> expect, index |-> 0, repeats |-> repeats]
  BY DEF Candidate
<1> HIDE DEF c
<1>2. c \in CandidateType
  BY <1>1, NothingIsMap, CasePlanningAssumption DEF CandidateType
<1>3. Strict(d, kind, NoField, <<>>)
  BY NothingIsMap DEF Strict, OneFault
<1>4. c \in ProperCandidates(d)
  BY <1>1, <1>2, <1>3, NothingIsMap DEF ProperCandidates
<1> QED BY <1>4 DEF c

LEMMA NoFieldIsNone ==
  ASSUME NEW d \in FormType PROVE NoField \notin KeysIn(d)
BY FieldIsOne DEF KeysIn, KeysOf

LEMMA FormCandidatesAreProper ==
  ASSUME NEW d \in FormType
  PROVE  FormCandidates(d) \in Seq(ProperCandidates(d))
<1> DEFINE Whole(kind) == Candidate(kind, NoField, <<>>, "observe", 0, FALSE)
           resting == <<Whole("reload_after_fill"), Whole("keyboard_navigation")>>
<1>1. {"reload_after_fill", "keyboard_navigation", "double_submit", "back_after_submit"} \subseteq PlannedKinds /\ "observe" \in Verdicts
  BY DEF PlannedKinds, Kinds, Priority, Verdicts
<1>2. \A kind \in PlannedKinds : Whole(kind) \in ProperCandidates(d)
  BY <1>1, NoFieldIsNone, WholeIsProper
<1>3. FormCandidates(d) = IF d.soft \/ d.login THEN resting ELSE <<Whole("double_submit"), Whole("back_after_submit")>> \o resting
  BY DEF FormCandidates
<1> HIDE DEF Whole
<1>4. resting \in Seq(ProperCandidates(d)) /\ <<Whole("double_submit"), Whole("back_after_submit")>> \in Seq(ProperCandidates(d))
  BY <1>1, <1>2
<1> HIDE DEF resting
<1> QED BY <1>3, <1>4, ConcatProperties

\* Everything planCases() thinks of is about one thing.
LEMMA CandidatesAreProper ==
  ASSUME NEW d \in FormType
  PROVE  Candidates(d) \in Seq(ProperCandidates(d))
<1> DEFINE V == Seq(ProperCandidates(d))
           N == Len(Fillable(d))
           happy == Candidate("happy", NoField, <<>>, IF d.login THEN "observe" ELSE "accept", 0, TRUE)
           upTo[i \in 0..N] == IF i = 0 THEN <<happy>> ELSE upTo[i - 1] \o FieldCandidates(Fillable(d), i)
<1>0. N \in Nat /\ DOMAIN Fillable(d) = 1..N
  BY FillableFields
<1>1. <<happy>> \in V
  <2>1. "happy" \in PlannedKinds /\ (IF d.login THEN "observe" ELSE "accept") \in Verdicts
    BY DEF PlannedKinds, Kinds, Priority, Verdicts
  <2>2. happy \in ProperCandidates(d)
    BY <2>1, NoFieldIsNone, WholeIsProper
  <2> HIDE DEF happy
  <2> QED BY <2>2
<1>2. \A i \in 1..N : FieldCandidates(Fillable(d), i) \in V
  BY <1>0, FieldCandidatesAreProper
<1> DEFINE T == [i \in 1..N |-> [v \in V |-> v \o FieldCandidates(Fillable(d), i)]]
<1>3. \E g : g = [i \in 0..N |-> IF i = 0 THEN <<happy>> ELSE g[i - 1] \o FieldCandidates(Fillable(d), i)]
  <2>1. T \in [1..N -> [V -> V]]
    BY <1>2, ConcatProperties
  <2>2. PICK g : IsBuilt(g, N, V, <<happy>>, T)
    <3> HIDE DEF T, V, N, happy
    <3> QED BY <1>0, <1>1, <2>1, Built
  <2>3. ASSUME NEW n \in 1..N PROVE g[n] = g[n - 1] \o FieldCandidates(Fillable(d), n)
    <3>1. g[n - 1] \in V
      <4> HIDE DEF V, N
      <4> QED BY <1>0, <2>2 DEF IsBuilt
    <3>2. g[n] = T[n][g[n - 1]]
      <4> HIDE DEF V, T, N
      <4> QED BY <2>2 DEF IsBuilt
    <3> HIDE DEF V
    <3> QED BY <3>1, <3>2
  <2> HIDE DEF T, V, happy
  <2>4. g = [i \in 0..N |-> IF i = 0 THEN <<happy>> ELSE g[i - 1] \o FieldCandidates(Fillable(d), i)]
    <3> HIDE DEF N
    <3>1. g \in [0..N -> V] /\ g[0] = <<happy>>
      BY <2>2 DEF IsBuilt
    <3>2. \A i \in 0..N : i = 0 \/ i \in 1..N
      BY <1>0
    <3>3. \A i \in 0..N : g[i] = IF i = 0 THEN <<happy>> ELSE g[i - 1] \o FieldCandidates(Fillable(d), i)
      BY <2>3, <3>1, <3>2
    <3> QED BY <3>1, <3>3
  <2> QED BY <2>4
<1>4. upTo = [i \in 0..N |-> IF i = 0 THEN <<happy>> ELSE upTo[i - 1] \o FieldCandidates(Fillable(d), i)]
  <2> HIDE DEF happy, N
  <2> QED BY <1>3
<1>5. Candidates(d) = upTo[N] \o DateCandidates(Fillable(d)) \o FormCandidates(d)
  BY DEF Candidates
<1> HIDE DEF upTo, happy, N, T
<1>6. upTo[0] = <<happy>> /\ \A n \in 1..N : upTo[n] = upTo[n - 1] \o FieldCandidates(Fillable(d), n)
  <2>1. upTo[0] = <<happy>>
    BY <1>0, <1>4
  <2>2. ASSUME NEW n \in 1..N PROVE upTo[n] = upTo[n - 1] \o FieldCandidates(Fillable(d), n)
    <3>1. n \in 0..N /\ n # 0
      BY <1>0
    <3> QED BY <1>4, <3>1
  <2> QED BY <2>1, <2>2
<1>7. \A n \in 1..N : upTo[n - 1] \in V => upTo[n] \in V
  BY <1>2, <1>6, ConcatProperties
<1>8. upTo[N] \in V
  <2> HIDE DEF V
  <2>1. upTo[0] \in V
    BY <1>1, <1>6
  <2>2. \A n \in 0..N : upTo[n] \in V
    BY <1>0, <1>7, <2>1, BuiltIn
  <2> QED BY <1>0, <2>2
<1> QED BY <1>5, <1>8, DateCandidatesAreProper, FormCandidatesAreProper, ConcatProperties

-----------------------------------------------------------------------------
(* Cases. *)

CaseType == [id : Kinds \X STRING, kind : Kinds, key : STRING, values : Maps, expect : Verdicts, priority : Int]

\* A case is about one field of the form or none, and fills in fields of the form; one that ALT
\* planned itself has one fault.
ProperCases(d) ==
    {c \in CaseType :
       /\ c.id[1] = c.kind
       /\ c.key \in KeysIn(d) \cup {NoField} /\ DOMAIN c.values \subseteq KeysIn(d)
       /\ c.kind # "context" /\ ClearForm(d) => Loose(d, c.kind, c.key, c.values)}
PlannedCases(d) ==
    {c \in ProperCases(d) : c.kind # "context" /\ (ClearForm(d) => Strict(d, c.kind, c.key, c.values))}

OwnIds(s) == \A i, k \in DOMAIN s : s[i].id = s[k].id => i = k
InPriority(s) == \A i, k \in DOMAIN s : i < k => s[i].priority <= s[k].priority

LEMMA OverIsMap ==
  ASSUME NEW f \in Maps, NEW g \in Maps
  PROVE  /\ Over(f, g) \in Maps /\ DOMAIN Over(f, g) = DOMAIN f \cup DOMAIN g
         /\ \A k \in DOMAIN f \cup DOMAIN g : Over(f, g)[k] = IF k \in DOMAIN f THEN f[k] ELSE g[k]
<1>1. ASSUME NEW h \in Maps PROVE DOMAIN h \subseteq STRING /\ \A k \in DOMAIN h : h[k] \in Value
  <2>1. PICK K \in SUBSET STRING : h \in [K -> Value]
    BY DEF Maps
  <2> QED BY <2>1
<1>2. Over(f, g) = [k \in DOMAIN f \cup DOMAIN g |-> IF k \in DOMAIN f THEN f[k] ELSE g[k]]
  BY DEF Over
<1>3. Over(f, g) \in [DOMAIN f \cup DOMAIN g -> Value]
  BY <1>1, <1>2
<1>4. DOMAIN f \cup DOMAIN g \in SUBSET STRING
  BY <1>1
<1>5. Over(f, g) \in Maps
  BY <1>3, <1>4 DEF Maps
<1> QED BY <1>2, <1>5

\* The values of a form are what its fields take.
LEMMA ValuesFit ==
  ASSUME NEW d \in FormType, NEW seq \in Nat
  PROVE  /\ Values(Fillable(d), seq) \in Maps /\ DOMAIN Values(Fillable(d), seq) \subseteq KeysIn(d)
         /\ ClearForm(d) => \A k \in DOMAIN Values(Fillable(d), seq) : Fine(FieldOf(d, k), Values(Fillable(d), seq)[k])
<1> DEFINE fields == Fillable(d)
           K == KeysOf(Range(fields))
           V == Values(fields, seq)
           At(k) == CHOOSE g \in Range(fields) : g.key = k
           With(f) == HappyValue(f, IF f.unique THEN seq ELSE 0)
<1>1. V = [k \in K |-> With(At(k))]
  BY DEF Values
<1>2. ASSUME NEW k \in K PROVE At(k) \in Range(d.fields) /\ At(k).key = k
  <2>1. \E g \in Range(fields) : g.key = k
    BY DEF KeysOf
  <2>2. At(k) \in Range(fields) /\ At(k).key = k
    BY <2>1
  <2> HIDE DEF At
  <2> QED BY <2>2, FillableFields DEF Range
<1> HIDE DEF At, fields, K, V
<1>3. ASSUME NEW k \in K
      PROVE  k \in KeysIn(d) /\ k \in STRING /\ With(At(k)) \in Value /\ (ClearForm(d) => Fine(FieldOf(d, k), With(At(k))))
  <2>1. At(k) \in FieldType /\ Limited(At(k)) /\ k \in KeysIn(d) /\ k \in STRING /\ FieldOf(d, k) = At(k)
    BY <1>2, FieldIsOne
  <2>2. With(At(k)) \in Value /\ (Clear(At(k)) => Fine(At(k), With(At(k))))
    <3>1. (IF At(k).unique THEN seq ELSE 0) \in Nat
      OBVIOUS
    <3> QED BY <2>1, <3>1, HappyValueFits
  <2> HIDE DEF With
  <2> QED BY <1>2, <2>1, <2>2 DEF ClearForm
<1> HIDE DEF With
<1>4. V \in [K -> Value] /\ K \in SUBSET STRING /\ K \subseteq KeysIn(d)
  BY <1>1, <1>3
<1>5. V \in Maps /\ DOMAIN V = K
  BY <1>4 DEF Maps
<1> QED BY <1>1, <1>3, <1>4, <1>5 DEF V, fields

LEMMA PriorityIsInt == ASSUME NEW kind \in Kinds PROVE Priority[kind] \in Int
BY DEF Kinds, Priority

\* What has one fault without a plan has no more with one.
LEMMA OneFaultAnyway ==
  ASSUME NEW d, NEW kind, NEW key, NEW values, Strict(d, kind, key, values)
  PROVE  Loose(d, kind, key, values)
BY DEF Strict, Loose, OneFault

\* The case of a candidate has its fault and no other.
LEMMA CaseOfIsProper ==
  ASSUME NEW d \in FormType, NEW c \in ProperCandidates(d), NEW seq \in Nat
  PROVE  /\ CaseOf(d, Fillable(d), c, seq) \in PlannedCases(d)
         /\ CaseOf(d, Fillable(d), c, seq).id = <<c.kind, c.key>>
<1> DEFINE happy == Values(Fillable(d), IF c.repeats THEN 0 ELSE seq)
           values == Over(c.over, happy)
           expect == IF (d.soft \/ d.login) /\ c.expect = "reject" THEN "observe" ELSE c.expect
           priority == 100 * Priority[c.kind] + c.index
           new == CaseOf(d, Fillable(d), c, seq)
<1>1. new = [id |-> <<c.kind, c.key>>, kind |-> c.kind, key |-> c.key, values |-> values, expect |-> expect, priority |-> priority]
  BY DEF CaseOf
<1>2. /\ c \in CandidateType /\ c.kind \in PlannedKinds /\ c.key \in STRING /\ c.over \in Maps /\ c.expect \in Verdicts
      /\ c.index \in Int /\ c.key \in KeysIn(d) \cup {NoField} /\ DOMAIN c.over \subseteq KeysIn(d)
      /\ ClearForm(d) => Strict(d, c.kind, c.key, c.over)
      /\ c.key \in KeysIn(d) \ DOMAIN c.over => c.kind = "duplicate"
  BY DEF ProperCandidates, CandidateType
<1>3. c.kind \in Kinds /\ c.kind # "context"
  BY <1>2 DEF PlannedKinds
<1>4. /\ happy \in Maps /\ DOMAIN happy \subseteq KeysIn(d)
      /\ ClearForm(d) => \A k \in DOMAIN happy : Fine(FieldOf(d, k), happy[k])
  <2>1. (IF c.repeats THEN 0 ELSE seq) \in Nat
    OBVIOUS
  <2> QED BY <2>1, ValuesFit
<1> HIDE DEF happy
<1>5. /\ values \in Maps /\ DOMAIN values = DOMAIN c.over \cup DOMAIN happy
      /\ \A k \in DOMAIN values : values[k] = IF k \in DOMAIN c.over THEN c.over[k] ELSE happy[k]
  <2>1. values \in Maps
    BY <1>2, <1>4, OverIsMap
  <2>2. DOMAIN values = DOMAIN c.over \cup DOMAIN happy
    BY <1>2, <1>4, OverIsMap
  <2>3. \A k \in DOMAIN c.over \cup DOMAIN happy : values[k] = IF k \in DOMAIN c.over THEN c.over[k] ELSE happy[k]
    BY <1>2, <1>4, OverIsMap
  <2> HIDE DEF values
  <2> QED BY <2>1, <2>2, <2>3
<1>6. expect \in Verdicts
  BY <1>2 DEF Verdicts
<1>7. priority \in Int
  <2>1. Priority[c.kind] \in Int
    BY <1>3, PriorityIsInt
  <2> QED BY <1>2, <2>1
<1> HIDE DEF values, expect, priority, new
<1>8. new \in CaseType
  BY <1>1, <1>2, <1>3, <1>5, <1>6, <1>7 DEF CaseType
<1>9. ASSUME ClearForm(d) PROVE Strict(d, c.kind, c.key, values)
  <2>1. \A k \in DOMAIN c.over : values[k] = c.over[k] /\ k \in DOMAIN values
    BY <1>5
  <2>2. Strict(d, c.kind, c.key, c.over)
    BY <1>2, <1>9
  <2>3. ASSUME NEW k \in DOMAIN c.over, Reversed(d, k, c.over) PROVE Reversed(d, k, values)
    <3>1. PICK g \in OtherDates(d, k, c.over) : c.over[g].sort = "date" /\ c.over[k].n < c.over[g].n
      BY <2>3 DEF Reversed
    <3>2. g \in OtherDates(d, k, values) /\ g \in DOMAIN c.over
      BY <2>1 DEF OtherDates
    <3> QED BY <2>1, <2>3, <3>1, <3>2 DEF Reversed
  <2>4. ASSUME NEW k \in DOMAIN values, k \notin DOMAIN c.over
        PROVE  Fine(FieldOf(d, k), values[k]) /\ (k = c.key => c.kind = "duplicate")
    <3>1. k \in DOMAIN happy /\ values[k] = happy[k] /\ k \in KeysIn(d)
      BY <1>4, <1>5, <2>4
    <3> QED BY <1>2, <1>4, <1>9, <2>4, <3>1
  <2>5. \A f, v : Wrong("duplicate", f, v) <=> Fine(f, v)
    BY DEF Wrong
  <2>6. ASSUME NEW k \in DOMAIN values, k = c.key
        PROVE  Wrong(c.kind, FieldOf(d, k), values[k]) \/ (c.kind = "invalid_date" /\ Reversed(d, k, values))
    <3>1. CASE k \in DOMAIN c.over
      BY <2>1, <2>2, <2>3, <2>6, <3>1 DEF Strict, OneFault
    <3>2. CASE k \notin DOMAIN c.over
      BY <2>4, <2>5, <2>6, <3>2
    <3> QED BY <3>1, <3>2
  <2>7. ASSUME NEW k \in DOMAIN values, k # c.key PROVE Fine(FieldOf(d, k), values[k])
    <3>1. CASE k \in DOMAIN c.over
      BY <2>1, <2>2, <2>7, <3>1 DEF Strict, OneFault
    <3> QED BY <2>4, <3>1
  <2> QED BY <2>6, <2>7 DEF Strict, OneFault
<1>10. new \in ProperCases(d)
  BY <1>1, <1>2, <1>4, <1>5, <1>8, <1>9, OneFaultAnyway DEF ProperCases
<1> QED BY <1>1, <1>3, <1>9, <1>10 DEF PlannedCases, new

\* A case more, unless its id is there.
LEMMA AppendOwnId ==
  ASSUME NEW S, NEW s \in Seq(S), NEW c \in S, OwnIds(s), \A o \in Range(s) : o.id # c.id
  PROVE  Append(s, c) \in Seq(S) /\ OwnIds(Append(s, c))
<1> DEFINE t == Append(s, c)
<1>1. t \in Seq(S) /\ Len(t) = Len(s) + 1 /\ Len(s) \in Nat /\ t[Len(s) + 1] = c /\ \A i \in 1..Len(s) : t[i] = s[i]
  BY AppendProperties
<1> HIDE DEF t
<1>2. \A i \in DOMAIN t : i = Len(s) + 1 \/ i \in 1..Len(s)
  BY <1>1
<1>3. \A i \in 1..Len(s) : s[i].id # c.id
  BY DEF Range
<1>4. OwnIds(t)
  BY <1>1, <1>2, <1>3 DEF OwnIds
<1> QED BY <1>1, <1>4 DEF t

\* What planCases() has planned so far.
PlannedLists(d) == {s \in Seq(PlannedCases(d)) : OwnIds(s)}

LEMMA AddIsProper ==
  ASSUME NEW d \in FormType, NEW out \in PlannedLists(d), NEW c \in ProperCandidates(d)
  PROVE  Add(d, Fillable(d), out, c) \in PlannedLists(d)
<1> DEFINE new == CaseOf(d, Fillable(d), c, Len(out))
<1>1. out \in Seq(PlannedCases(d)) /\ OwnIds(out) /\ Len(out) \in Nat
  BY DEF PlannedLists
<1>2. new \in PlannedCases(d) /\ new.id = <<c.kind, c.key>>
  BY <1>1, CaseOfIsProper
<1> HIDE DEF new
<1>3. CASE SameValue(out, c) \/ \E o \in Range(out) : o.id = <<c.kind, c.key>>
  BY <1>3 DEF Add
<1>4. CASE ~(SameValue(out, c) \/ \E o \in Range(out) : o.id = <<c.kind, c.key>>)
  <2>1. Add(d, Fillable(d), out, c) = Append(out, new)
    BY <1>4 DEF Add, new
  <2>2. Append(out, new) \in Seq(PlannedCases(d)) /\ OwnIds(Append(out, new))
    BY <1>1, <1>2, <1>4, AppendOwnId
  <2> QED BY <2>1, <2>2 DEF PlannedLists
<1> QED BY <1>3, <1>4

\* A sorted list of cases is the same cases, by their priorities.
LEMMA ByPriorityKeeps ==
  ASSUME NEW S, \A c \in S : c.priority \in Int, NEW s \in Seq(S)
  PROVE  /\ ByPriority(s) \in Seq(S) /\ Len(ByPriority(s)) = Len(s) /\ Range(ByPriority(s)) = Range(s)
         /\ InPriority(ByPriority(s)) /\ (OwnIds(s) => OwnIds(ByPriority(s)))
<1> DEFINE k == Len(s)
           key == [i \in DOMAIN s |-> s[i].priority]
           t == Sorted(s, key)
<1>1. k \in Nat /\ DOMAIN s = 1..k /\ \A i \in 1..k : s[i] \in S
  OBVIOUS
<1>2. key \in [1..k -> Int]
  BY <1>1
<1>3. ByPriority(s) = t
  BY DEF ByPriority
<1>4. \A i \in DOMAIN s : key[i] = s[i].priority
  OBVIOUS
<1> HIDE DEF key, k
<1>5. PICK place : Sorts(place, s, key, t)
  BY <1>1, <1>2, SortedSorts
<1>6. /\ place \in [1..k -> 1..k] /\ \A i \in 1..k : \E n \in 1..k : place[n] = i
      /\ \A m, n \in 1..k : place[m] = place[n] => m = n
  BY <1>1, <1>5 DEF Sorts, Bijection, Injection, Surjection, IsInjective
<1>7. t = [n \in 1..k |-> s[place[n]]]
  BY <1>1, <1>5 DEF Sorts
<1>8. ASSUME NEW m \in 1..k, NEW n \in 1..k, m < n PROVE key[place[m]] <= key[place[n]]
  <2>1. key[place[m]] < key[place[n]] \/ (key[place[m]] = key[place[n]] /\ place[m] < place[n])
    BY <1>1, <1>5, <1>8 DEF Sorts
  <2>2. key[place[m]] \in Int /\ key[place[n]] \in Int
    BY <1>2, <1>6
  <2> QED BY <2>1, <2>2
<1> HIDE DEF t
<1>9. t \in [1..k -> S]
  BY <1>1, <1>6, <1>7
<1>10. t \in Seq(S) /\ Len(t) = k /\ DOMAIN t = 1..k
  BY <1>1, <1>9
<1>11. Range(t) = Range(s)
  <2>1. ASSUME NEW n \in 1..k PROVE t[n] \in Range(s)
    BY <1>1, <1>6, <1>7 DEF Range
  <2>2. ASSUME NEW i \in 1..k PROVE s[i] \in Range(t)
    <3>1. PICK n \in 1..k : place[n] = i
      BY <1>6
    <3> QED BY <1>7, <1>10, <3>1 DEF Range
  <2> QED BY <1>1, <1>10, <2>1, <2>2 DEF Range
<1>12. InPriority(t)
  <2> SUFFICES ASSUME NEW m \in 1..k, NEW n \in 1..k, m < n PROVE t[m].priority <= t[n].priority
    BY <1>10 DEF InPriority
  <2>1. t[m].priority = key[place[m]] /\ t[n].priority = key[place[n]]
    BY <1>1, <1>4, <1>6, <1>7
  <2> QED BY <1>8, <2>1
<1>13. OwnIds(s) => OwnIds(t)
  BY <1>1, <1>6, <1>7, <1>10 DEF OwnIds
<1> QED BY <1>3, <1>10, <1>11, <1>12, <1>13 DEF k

\* A filtered list of cases is those that pass, in the same order.
LEMMA FilteredCases ==
  ASSUME NEW S, \A c \in S : c.priority \in Int, NEW s \in Seq(S), NEW at, at \subseteq DOMAIN s
  PROVE  /\ Filtered(s, at) \in Seq(S) /\ Cardinality(at) \in Nat /\ Len(Filtered(s, at)) = Cardinality(at)
         /\ Range(Filtered(s, at)) = {s[i] : i \in at}
         /\ (OwnIds(s) => OwnIds(Filtered(s, at))) /\ (InPriority(s) => InPriority(Filtered(s, at)))
<1> DEFINE t == Filtered(s, at)
           k == Cardinality(at)
<1>1. Len(s) \in Nat /\ DOMAIN s = 1..Len(s) /\ \A i \in DOMAIN s : s[i] \in S
  OBVIOUS
<1>2. PICK place : Keeps(place, s, at, t)
  BY <1>1, FilteredKeeps
<1>3. k \in Nat /\ t = [n \in 1..k |-> s[place[n]]]
  BY <1>2 DEF Keeps
<1> HIDE DEF k, t
<1>4. /\ \A n \in 1..k : place[n] \in at
      /\ \A i \in at : \E n \in 1..k : place[n] = i
      /\ \A m, n \in 1..k : place[m] = place[n] => m = n
  BY <1>2 DEF Keeps, Bijection, Injection, Surjection, IsInjective, k
<1>5. \A m, n \in 1..k : m < n => place[m] < place[n]
  BY <1>2 DEF Keeps, k
<1>6. t \in [1..k -> S]
  BY <1>1, <1>3, <1>4
<1>7. t \in Seq(S) /\ Len(t) = k /\ DOMAIN t = 1..k
  BY <1>3, <1>6
<1>8. Range(t) = {s[i] : i \in at}
  <2>1. ASSUME NEW n \in 1..k PROVE t[n] \in {s[i] : i \in at}
    BY <1>3, <1>4
  <2>2. ASSUME NEW i \in at PROVE s[i] \in Range(t)
    <3>1. PICK n \in 1..k : place[n] = i
      BY <1>4
    <3> QED BY <1>3, <1>7, <3>1 DEF Range
  <2> QED BY <1>7, <2>1, <2>2 DEF Range
<1>9. OwnIds(s) => OwnIds(t)
  BY <1>1, <1>3, <1>4, <1>7 DEF OwnIds
<1>10. InPriority(s) => InPriority(t)
  BY <1>1, <1>3, <1>4, <1>5, <1>7 DEF InPriority
<1> QED BY <1>3, <1>7, <1>8, <1>9, <1>10 DEF k, t

\* The first cases of a list.
LEMMA FirstCases ==
  ASSUME NEW S, NEW s \in Seq(S), NEW n \in Nat
  PROVE  /\ First(s, n) \in Seq(S) /\ Len(First(s, n)) = IF n < Len(s) THEN n ELSE Len(s)
         /\ \A i \in DOMAIN First(s, n) : i \in DOMAIN s /\ First(s, n)[i] = s[i]
         /\ (OwnIds(s) => OwnIds(First(s, n))) /\ (InPriority(s) => InPriority(First(s, n)))
<1> DEFINE m == IF n < Len(s) THEN n ELSE Len(s)
           t == First(s, n)
<1>1. m \in Nat /\ m <= Len(s) /\ Len(s) \in Nat /\ DOMAIN s = 1..Len(s)
  OBVIOUS
<1>2. t = SubSeq(s, 1, m)
  BY DEF First
<1> HIDE DEF m, t
<1>3. t \in Seq(S) /\ Len(t) = m /\ \A i \in 1..m : t[i] = s[i]
  <2>1. \A i \in 1..m : s[i] \in S
    BY <1>1
  <2>2. SubSeq(s, 1, m) \in Seq(S) /\ Len(SubSeq(s, 1, m)) = m /\ \A i \in 1..m : SubSeq(s, 1, m)[i] = s[i]
    BY <1>1, <2>1, SubSeqProperties
  <2> QED BY <1>2, <2>2
<1>4. \A i \in DOMAIN t : i \in DOMAIN s /\ t[i] = s[i]
  BY <1>1, <1>3
<1>5. (OwnIds(s) => OwnIds(t)) /\ (InPriority(s) => InPriority(t))
  BY <1>4 DEF OwnIds, InPriority
<1> QED BY <1>3, <1>4, <1>5 DEF m, t

LEMMA OnlySafeKeeps ==
  ASSUME NEW S, \A c \in S : c.priority \in Int, NEW s \in Seq(S), NEW d, NEW allowed
  PROVE  /\ OnlySafe(d, allowed, s) \in Seq(S) /\ Range(OnlySafe(d, allowed, s)) \subseteq Range(s)
         /\ (OwnIds(s) => OwnIds(OnlySafe(d, allowed, s)))
<1> DEFINE at == {i \in DOMAIN s : s[i].kind \in NonSubmitting}
<1>1. at \subseteq DOMAIN s /\ {s[i] : i \in at} \subseteq Range(s)
  BY DEF Range
<1>2. OnlySafe(d, allowed, s) = IF d.destructive /\ ~allowed THEN Filtered(s, at) ELSE s
  BY DEF OnlySafe
<1> HIDE DEF at
<1> QED BY <1>1, <1>2, FilteredCases

\* What planCases() plans: cases with one fault each, no two the same, the most urgent first and no
\* more than allowed.
LEMMA PlanCasesAreProper ==
  ASSUME NEW d \in FormType, NEW allowed
  PROVE  /\ PlanCases(d, allowed) \in Seq(PlannedCases(d)) /\ Len(PlanCases(d, allowed)) <= MaxCases
         /\ OwnIds(PlanCases(d, allowed)) /\ InPriority(PlanCases(d, allowed))
<1> DEFINE V == PlannedLists(d)
           candidates == Candidates(d)
           N == Len(candidates)
           out[n \in 0..N] == IF n = 0 THEN <<>> ELSE Add(d, Fillable(d), out[n - 1], candidates[n])
           T == [n \in 1..N |-> [v \in V |-> Add(d, Fillable(d), v, candidates[n])]]
           safe == OnlySafe(d, allowed, out[N])
<1>0. PlanCases(d, allowed) = First(ByPriority(safe), MaxCases)
  BY DEF PlanCases
<1>1. N \in Nat /\ \A n \in 1..N : candidates[n] \in ProperCandidates(d)
  BY CandidatesAreProper
<1>2. <<>> \in V
  <2>1. <<>> \in Seq(PlannedCases(d)) /\ Len(<<>>) = 0
    BY EmptySeq
  <2> QED BY <2>1 DEF PlannedLists, OwnIds
<1> HIDE DEF N, V, candidates
<1>3. T \in [1..N -> [V -> V]]
  BY <1>1, AddIsProper DEF V
<1>4. PICK g : IsBuilt(g, N, V, <<>>, T)
  <2> HIDE DEF T
  <2> QED BY <1>1, <1>2, <1>3, Built
<1>5. g = [n \in 0..N |-> IF n = 0 THEN <<>> ELSE Add(d, Fillable(d), g[n - 1], candidates[n])]
  <2>1. g \in [0..N -> V] /\ g[0] = <<>> /\ \A n \in 1..N : g[n] = T[n][g[n - 1]]
    <3> HIDE DEF T
    <3> QED BY <1>4 DEF IsBuilt
  <2>2. ASSUME NEW n \in 1..N PROVE g[n] = Add(d, Fillable(d), g[n - 1], candidates[n])
    <3>1. n - 1 \in 0..N
      BY <1>1
    <3>2. g[n - 1] \in V
      BY <2>1, <3>1
    <3> QED BY <2>1, <3>2
  <2>3. \A n \in 0..N : n = 0 \/ n \in 1..N
    BY <1>1
  <2>4. \A n \in 0..N : g[n] = IF n = 0 THEN <<>> ELSE Add(d, Fillable(d), g[n - 1], candidates[n])
    BY <2>1, <2>2, <2>3
  <2> QED BY <2>1, <2>4
<1>6. out = [n \in 0..N |-> IF n = 0 THEN <<>> ELSE Add(d, Fillable(d), out[n - 1], candidates[n])]
  BY <1>5
<1> HIDE DEF out, T
<1>7. out[0] = <<>>
  BY <1>1, <1>6
<1>8. ASSUME NEW n \in 1..N, out[n - 1] \in V PROVE out[n] \in V
  <2>1. n \in 0..N /\ n # 0
    BY <1>1
  <2>2. out[n] = Add(d, Fillable(d), out[n - 1], candidates[n])
    BY <1>6, <2>1
  <2> QED BY <1>1, <1>8, <2>2, AddIsProper DEF V
<1>9. out[N] \in V
  <2>1. out[0] \in V
    BY <1>2, <1>7
  <2>2. \A n \in 0..N : out[n] \in V
    BY <1>1, <1>8, <2>1, BuiltIn
  <2> QED BY <1>1, <2>2
<1>10. out[N] \in Seq(PlannedCases(d)) /\ OwnIds(out[N])
  BY <1>9 DEF V, PlannedLists
<1>11. \A c \in PlannedCases(d) : c.priority \in Int
  BY DEF PlannedCases, ProperCases, CaseType
<1>12. safe \in Seq(PlannedCases(d)) /\ OwnIds(safe)
  BY <1>10, <1>11, OnlySafeKeeps
<1> HIDE DEF safe
<1>13. ByPriority(safe) \in Seq(PlannedCases(d)) /\ OwnIds(ByPriority(safe)) /\ InPriority(ByPriority(safe))
  BY <1>11, <1>12, ByPriorityKeeps
<1>14. MaxCases \in Nat /\ Len(ByPriority(safe)) \in Nat
  BY <1>13, CasePlanningAssumption
<1> QED BY <1>0, <1>13, <1>14, FirstCases

-----------------------------------------------------------------------------
(* Gemini's plan. *)

\* What a field takes depends on its limits and on what it is for.
LEMMA AlikeFields ==
  ASSUME NEW f, NEW g, g.type = f.type, g.semantic = f.semantic, g.required = f.required,
         g.min = f.min, g.max = f.max, g.step = f.step, g.maxLength = f.maxLength
  PROVE  /\ Clear(f) <=> Clear(g)
         /\ \A v : (Fine(f, v) <=> Fine(g, v)) /\ (Slips(f, v) <=> Slips(g, v))
         /\ \A kind, v : Wrong(kind, f, v) <=> Wrong(kind, g, v)
<1>1. \A n : OnStep(f, n) = OnStep(g, n)
  BY DEF OnStep
<1>2. IsInteger(f) = IsInteger(g)
  BY DEF IsInteger
<1>3. \A n : Number(f, n) = Number(g, n)
  BY <1>2 DEF Number
<1>4. \A v : Fine(f, v) <=> Fine(g, v)
  BY <1>1 DEF Fine
<1>5. \A v : Slips(f, v) <=> Slips(g, v)
  BY <1>1 DEF Slips
<1>6. ASSUME NEW kind, NEW v PROVE Wrong(kind, f, v) <=> Wrong(kind, g, v)
  BY <1>4 DEF Wrong
<1>7. Clear(f) <=> Clear(g)
  BY <1>1, <1>2, <1>3 DEF Clear
<1> QED BY <1>4, <1>5, <1>6, <1>7

\* A plan changes nothing of a form that a case can be wrong about.
LEMMA EnrichedIsForm ==
  ASSUME NEW d \in FormType, NEW p \in Plans
  PROVE  /\ Enriched(d, p) \in FormType /\ KeysIn(Enriched(d, p)) = KeysIn(d)
         /\ ClearForm(d) <=> ClearForm(Enriched(d, p))
         /\ \A kind, key, values : DOMAIN values \subseteq KeysIn(d) =>
              /\ Strict(d, kind, key, values) => Strict(Enriched(d, p), kind, key, values)
              /\ Loose(d, kind, key, values) => Loose(Enriched(d, p), kind, key, values)
<1> DEFINE e == Enriched(d, p)
           New(i) == [d.fields[i] EXCEPT !.unique = @ \/ d.fields[i].key \in p.unique]
           fields == [i \in DOMAIN d.fields |-> New(i)]
<1>1. /\ d \in [fields : Seq(FieldType), soft : BOOLEAN, login : BOOLEAN, destructive : BOOLEAN]
      /\ d.fields \in Seq(FieldType) /\ DOMAIN d.fields = 1..Len(d.fields) /\ Len(d.fields) \in Nat
  BY DEF FormType
<1>2. e = [d EXCEPT !.fields = fields, !.destructive = @ \/ p.destructive]
  BY DEF Enriched
<1>3. ASSUME NEW i \in DOMAIN d.fields
      PROVE  /\ New(i) \in FieldType /\ \E u \in BOOLEAN : New(i) = [d.fields[i] EXCEPT !.unique = u]
  <2>1. d.fields[i] \in FieldType
    BY <1>1
  <2>2. PICK u : u = (d.fields[i].unique \/ d.fields[i].key \in p.unique)
    OBVIOUS
  <2>3. u \in BOOLEAN
    BY <2>1, <2>2 DEF FieldType
  <2>4. New(i) = [d.fields[i] EXCEPT !.unique = u]
    BY <2>2
  <2>5. [d.fields[i] EXCEPT !.unique = u] \in FieldType
    BY <2>1, <2>3 DEF FieldType
  <2> QED BY <2>3, <2>4, <2>5
<1> HIDE DEF New
<1>4. fields \in Seq(FieldType) /\ DOMAIN fields = DOMAIN d.fields
  BY <1>1, <1>3, FunctionIsSeq
<1>5. ASSUME NEW i \in DOMAIN d.fields
      PROVE  /\ fields[i].key = d.fields[i].key /\ fields[i].type = d.fields[i].type /\ fields[i].semantic = d.fields[i].semantic
             /\ fields[i].required = d.fields[i].required /\ fields[i].min = d.fields[i].min /\ fields[i].max = d.fields[i].max
             /\ fields[i].step = d.fields[i].step /\ fields[i].maxLength = d.fields[i].maxLength
  <2>1. d.fields[i] \in FieldType /\ fields[i] = New(i)
    BY <1>1
  <2> QED BY <1>3, <2>1 DEF FieldType
<1>6. e.fields = fields
  BY <1>1, <1>2
<1>7. e \in [fields : Seq(FieldType), soft : BOOLEAN, login : BOOLEAN, destructive : BOOLEAN]
  <2>1. p.destructive \in BOOLEAN
    BY PlansAssumption
  <2>2. (d.destructive \/ p.destructive) \in BOOLEAN
    OBVIOUS
  <2> HIDE DEF fields, e
  <2> QED BY <1>1, <1>2, <1>4, <2>2
<1> HIDE DEF e, fields
<1>8. e \in FormType
  <2>1. \A i, k \in DOMAIN fields : fields[i].key = fields[k].key => i = k
    BY <1>4, <1>5 DEF FormType
  <2>2. ASSUME NEW i \in DOMAIN fields
        PROVE  /\ fields[i].key # NoField
               /\ \A limit \in {fields[i].min, fields[i].max, fields[i].step, fields[i].maxLength} : \A m, n \in limit : m = n
    BY <1>4, <1>5, <2>2 DEF FormType
  <2> QED BY <1>6, <1>7, <2>1, <2>2 DEF FormType
<1>9. KeysIn(e) = KeysIn(d)
  <2>1. KeysIn(d) = {d.fields[i].key : i \in DOMAIN d.fields}
    BY DEF KeysIn, KeysOf, Range
  <2>2. KeysIn(e) = {fields[i].key : i \in DOMAIN fields}
    BY <1>6 DEF KeysIn, KeysOf, Range
  <2> QED BY <1>4, <1>5, <2>1, <2>2
<1>10. ASSUME NEW i \in DOMAIN d.fields
       PROVE  /\ Clear(d.fields[i]) <=> Clear(fields[i])
              /\ \A v : (Fine(d.fields[i], v) <=> Fine(fields[i], v)) /\ (Slips(d.fields[i], v) <=> Slips(fields[i], v))
              /\ \A kind, v : Wrong(kind, d.fields[i], v) <=> Wrong(kind, fields[i], v)
  <2> DEFINE f == d.fields[i]
             g == fields[i]
  <2>1. /\ g.type = f.type /\ g.semantic = f.semantic /\ g.required = f.required
        /\ g.min = f.min /\ g.max = f.max /\ g.step = f.step /\ g.maxLength = f.maxLength
    BY <1>5
  <2> HIDE DEF f, g
  <2> QED BY <2>1, AlikeFields DEF f, g
<1>11. ClearForm(d) <=> ClearForm(e)
  BY <1>4, <1>6, <1>10 DEF ClearForm, Range
<1>12. ASSUME NEW k \in KeysIn(d)
       PROVE  /\ FieldOf(d, k).semantic = FieldOf(e, k).semantic
              /\ \A v : (Fine(FieldOf(d, k), v) <=> Fine(FieldOf(e, k), v)) /\ (Slips(FieldOf(d, k), v) <=> Slips(FieldOf(e, k), v))
              /\ \A kind, v : Wrong(kind, FieldOf(d, k), v) <=> Wrong(kind, FieldOf(e, k), v)
  <2>1. PICK i \in DOMAIN d.fields : d.fields[i].key = k
    BY DEF KeysIn, KeysOf, Range
  <2>2. FieldOf(d, k) = d.fields[i]
    BY <2>1, FieldIsOne DEF Range
  <2>3. FieldOf(e, k) = fields[i]
    <3>1. fields[i] \in Range(e.fields) /\ fields[i].key = k
      BY <1>4, <1>5, <1>6, <2>1 DEF Range
    <3> QED BY <1>8, <3>1, FieldIsOne
  <2> QED BY <1>5, <1>10, <2>2, <2>3
<1>13. ASSUME NEW kind, NEW key, NEW values, DOMAIN values \subseteq KeysIn(d)
       PROVE  /\ Strict(d, kind, key, values) => Strict(e, kind, key, values)
              /\ Loose(d, kind, key, values) => Loose(e, kind, key, values)
  <2>1. \A k : OtherDates(d, k, values) = OtherDates(e, k, values)
    BY <1>12, <1>13 DEF OtherDates
  <2>2. \A k : (Reversed(d, k, values) <=> Reversed(e, k, values)) /\ (Moved(d, k, values) <=> Moved(e, k, values))
    BY <2>1 DEF Reversed, Moved
  <2>3. Strict(d, kind, key, values) => Strict(e, kind, key, values)
    BY <1>12, <1>13, <2>2 DEF Strict, OneFault
  <2>4. Loose(d, kind, key, values) => Loose(e, kind, key, values)
    BY <1>12, <1>13, <2>2 DEF Loose, OneFault
  <2> QED BY <2>3, <2>4
<1> QED BY <1>8, <1>9, <1>11, <1>13 DEF e

LEMMA EnrichedKeepsCases ==
  ASSUME NEW d \in FormType, NEW p \in Plans, NEW c \in PlannedCases(d)
  PROVE  c \in PlannedCases(Enriched(d, p))
BY EnrichedIsForm DEF PlannedCases, ProperCases

\* The plan's values are what the fields take, and a case keeps its fault.
LEMMA BetterIsProper ==
  ASSUME NEW d \in FormType, NEW p \in Plans, NEW c \in PlannedCases(d)
  PROVE  /\ BetterValues(d, p, c) \in ProperCases(d)
         /\ BetterValues(d, p, c).id = c.id /\ BetterValues(d, p, c).priority = c.priority
<1> DEFINE keys == KeysOf({f \in Accepted(d, p) : ~f.unique /\ c.kind # "context"}) \ {c.key}
           offered == [k \in keys |-> p.values[k]]
           values == Over(offered, c.values)
           new == BetterValues(d, p, c)
<1>1. new = [c EXCEPT !.values = values]
  BY DEF BetterValues
<1>2. /\ c \in CaseType /\ c.values \in Maps /\ DOMAIN c.values \subseteq KeysIn(d) /\ c \in ProperCases(d)
      /\ ClearForm(d) => Strict(d, c.kind, c.key, c.values)
  BY DEF PlannedCases, ProperCases, CaseType
<1>3. DOMAIN p.values \subseteq STRING /\ \A k \in DOMAIN p.values : p.values[k] \in Value /\ p.values[k] # Empty
  BY PlansAssumption DEF Empty, Val
<1>4. ASSUME NEW k \in keys
      PROVE  k \in KeysIn(d) /\ k # c.key /\ k \in DOMAIN p.values
             /\ (Fine(FieldOf(d, k), p.values[k]) \/ Slips(FieldOf(d, k), p.values[k]))
  <2>1. PICK f \in Accepted(d, p) : f.key = k
    BY DEF KeysOf
  <2>2. f \in Range(d.fields) /\ k \in DOMAIN p.values /\ SatisfiesConstraints(f, p.values[k])
    BY <2>1 DEF Accepted
  <2>3. FieldOf(d, k) = f /\ k \in KeysIn(d)
    BY <2>1, <2>2, FieldIsOne
  <2>4. Fine(f, p.values[k]) \/ Slips(f, p.values[k])
    <3>1. p.values[k] \in Value /\ p.values[k] # Empty
      BY <1>3, <2>2
    <3> QED BY <2>2, <3>1 DEF SatisfiesConstraints, Fine, Slips
  <2> QED BY <2>1, <2>2, <2>3, <2>4
<1> HIDE DEF keys
<1>5. offered \in Maps /\ DOMAIN offered = keys
  <2>1. offered \in [keys -> Value] /\ keys \in SUBSET STRING
    BY <1>3, <1>4
  <2> HIDE DEF offered
  <2> QED BY <2>1 DEF Maps
<1>6. \A k \in keys : offered[k] = p.values[k]
  OBVIOUS
<1> HIDE DEF offered
<1>7. values \in Maps
  BY <1>2, <1>5, OverIsMap
<1>8. DOMAIN values = keys \cup DOMAIN c.values
  BY <1>2, <1>5, OverIsMap
<1>9. \A k \in keys \cup DOMAIN c.values : values[k] = IF k \in keys THEN p.values[k] ELSE c.values[k]
  <2>1. \A k \in DOMAIN offered \cup DOMAIN c.values : values[k] = IF k \in DOMAIN offered THEN offered[k] ELSE c.values[k]
    BY <1>2, <1>5, OverIsMap
  <2> HIDE DEF values
  <2> QED BY <1>5, <1>6, <2>1
<1> HIDE DEF values, new
<1>10. new \in CaseType /\ new.id = c.id /\ new.kind = c.kind /\ new.key = c.key /\ new.values = values /\ new.priority = c.priority
  BY <1>1, <1>2, <1>7 DEF CaseType
<1>11. ASSUME Strict(d, c.kind, c.key, c.values) PROVE Loose(d, c.kind, c.key, values)
  <2>1. ASSUME c.key \in DOMAIN c.values, Reversed(d, c.key, c.values)
        PROVE  Reversed(d, c.key, values) \/ Moved(d, c.key, values)
    <3>1. PICK g \in OtherDates(d, c.key, c.values) : c.values[g].sort = "date" /\ c.values[c.key].n < c.values[g].n
      BY <2>1 DEF Reversed
    <3>2. g \in OtherDates(d, c.key, values) /\ g \in DOMAIN c.values /\ g # c.key
      BY <1>8 DEF OtherDates
    <3>3. values[c.key] = c.values[c.key] /\ c.values[c.key].sort = "date" /\ c.values[c.key].n < Today
      BY <1>4, <1>9, <2>1 DEF Reversed
    <3>4. CASE values[g] = Val("date", Today)
      <4>1. values[g].sort = "date" /\ values[g].n = Today
        BY <3>4 DEF Val
      <4> QED BY <3>2, <3>3, <4>1 DEF Reversed
    <3>5. CASE values[g] # Val("date", Today)
      BY <3>2, <3>5 DEF Moved
    <3> QED BY <3>4, <3>5
  <2> QED BY <1>4, <1>8, <1>9, <1>11, <2>1 DEF Strict, Loose, OneFault
<1>12. new \in ProperCases(d)
  BY <1>2, <1>4, <1>8, <1>10, <1>11 DEF ProperCases
<1> QED BY <1>10, <1>12 DEF new

\* What the merge has so far: the cases there were, each in its place, and the plan's own.
Longer(d, better) ==
    {s \in Seq(ProperCases(d)) :
       OwnIds(s) /\ Len(better) <= Len(s) /\ \A i \in DOMAIN better : s[i] = better[i]}

\* What the happy case fills in, when there is one.
LEMMA HappyValuesFit ==
  ASSUME NEW d, NEW s \in Seq(ProperCases(d))
  PROVE  HappyValues(s) \in Maps /\ DOMAIN HappyValues(s) \subseteq KeysIn(d)
<1> DEFINE at == {i \in DOMAIN s : s[i].kind = "happy"}
<1>1. HappyValues(s) = IF at = {} THEN <<>> ELSE s[Min(at)].values
  BY DEF HappyValues
<1>2. at \subseteq Nat /\ at \subseteq DOMAIN s
  OBVIOUS
<1>3. \A i \in DOMAIN s : s[i] \in ProperCases(d)
  OBVIOUS
<1> HIDE DEF at
<1>4. CASE at = {}
  BY <1>1, <1>4, NothingIsMap
<1>5. CASE at # {}
  <2>1. Min(at) \in at
    BY <1>2, <1>5, FirstPlace
  <2>2. s[Min(at)] \in ProperCases(d)
    BY <1>2, <1>3, <2>1
  <2> QED BY <1>1, <1>5, <2>2 DEF ProperCases, CaseType
<1> QED BY <1>4, <1>5

\* A case of the plan's own is a case of the form, and there is no other with its id.
LEMMA ContextIsProper ==
  ASSUME NEW d \in FormType, NEW p \in Plans, NEW better \in Seq(ProperCases(d)), NEW happy \in Maps,
         DOMAIN happy \subseteq KeysIn(d), NEW out \in Longer(d, better), NEW n \in DOMAIN p.contexts
  PROVE  AddContext(d, happy, out, p.contexts[n]) \in Longer(d, better)
<1> DEFINE x == p.contexts[n]
           keys == KeysOf(Range(d.fields))
           over == [k \in DOMAIN x.over \cap keys |-> x.over[k]]
           values == Over(over, happy)
           key == IF x.key \in keys THEN x.key ELSE NoField
           priority == 100 * Priority["context"]
           new == [id |-> <<"context", x.title>>, kind |-> "context", key |-> key, values |-> values,
                   expect |-> x.expect, priority |-> priority]
<1>1. /\ x.title \in STRING /\ x.key \in STRING /\ x.expect \in Verdicts
      /\ DOMAIN x.over \subseteq STRING /\ \A k \in DOMAIN x.over : x.over[k] \in Value
  BY PlansAssumption DEF Verdicts
<1>2. AddContext(d, happy, out, x) = IF DOMAIN over = {} \/ \E c \in Range(out) : c.id = <<"context", x.title>> THEN out ELSE Append(out, new)
  BY DEF AddContext
<1>3. keys = KeysIn(d)
  BY DEF KeysIn
<1>4. over \in Maps /\ DOMAIN over = DOMAIN x.over \cap keys
  <2>1. over \in [DOMAIN x.over \cap keys -> Value] /\ DOMAIN x.over \cap keys \in SUBSET STRING
    BY <1>1
  <2> HIDE DEF over, keys
  <2> QED BY <2>1 DEF Maps
<1> HIDE DEF over, x
<1>5. values \in Maps /\ DOMAIN values \subseteq KeysIn(d)
  <2>1. values \in Maps
    BY <1>4, OverIsMap
  <2>2. DOMAIN values = DOMAIN over \cup DOMAIN happy
    BY <1>4, OverIsMap
  <2> HIDE DEF values
  <2> QED BY <1>3, <1>4, <2>1, <2>2
<1>6. key \in STRING /\ key \in KeysIn(d) \cup {NoField}
  BY <1>1, <1>3, CasePlanningAssumption
<1>7. "context" \in Kinds /\ priority \in Int
  <2>1. "context" \in Kinds
    BY DEF Kinds, Priority
  <2>2. Priority["context"] \in Int
    BY <2>1, PriorityIsInt
  <2> QED BY <2>1, <2>2
<1> HIDE DEF values, key, priority
<1>8. new \in ProperCases(d) /\ new.id = <<"context", x.title>>
  <2>1. new \in CaseType
    BY <1>1, <1>5, <1>6, <1>7 DEF CaseType
  <2> QED BY <1>5, <1>6, <2>1 DEF ProperCases
<1> HIDE DEF new
<1>9. CASE DOMAIN over = {} \/ \E c \in Range(out) : c.id = <<"context", x.title>>
  BY <1>2, <1>9 DEF x
<1>10. CASE ~(DOMAIN over = {} \/ \E c \in Range(out) : c.id = <<"context", x.title>>)
  <2>1. AddContext(d, happy, out, x) = Append(out, new)
    BY <1>2, <1>10
  <2>2. out \in Seq(ProperCases(d)) /\ OwnIds(out) /\ Len(better) <= Len(out) /\ \A i \in DOMAIN better : out[i] = better[i]
    BY DEF Longer
  <2>3. Append(out, new) \in Seq(ProperCases(d)) /\ OwnIds(Append(out, new))
    BY <1>8, <1>10, <2>2, AppendOwnId
  <2>4. Len(Append(out, new)) = Len(out) + 1 /\ \A i \in 1..Len(out) : Append(out, new)[i] = out[i]
    BY <1>8, <2>2, AppendProperties
  <2>5. Len(better) \in Nat /\ Len(out) \in Nat /\ DOMAIN better = 1..Len(better)
    BY <2>2
  <2>6. Len(better) <= Len(Append(out, new)) /\ \A i \in DOMAIN better : Append(out, new)[i] = better[i]
    BY <2>2, <2>4, <2>5
  <2>7. Append(out, new) \in Longer(d, better)
    BY <2>3, <2>6 DEF Longer
  <2> QED BY <2>1, <2>7 DEF x
<1> QED BY <1>9, <1>10

\* "Keep every already-executed case; cap the rest": nothing that has run goes, and nothing goes that
\* is more urgent than what waits.
LEMMA CappedKeeps ==
  ASSUME NEW S, \A c \in S : c.priority \in Int, NEW s \in Seq(S), OwnIds(s), NEW ran
  PROVE  /\ Capped(s, ran) \in Seq(S) /\ OwnIds(Capped(s, ran)) /\ InPriority(Capped(s, ran))
         /\ \A c \in Range(s) : c.id \in ran => c \in Range(Capped(s, ran))
         /\ \A c \in Range(s), k \in Range(Capped(s, ran)) :
              c \notin Range(Capped(s, ran)) /\ k.id \notin ran => k.priority <= c.priority
         /\ \E done \in Seq(S) :
              /\ OwnIds(done) /\ \A i \in DOMAIN done : done[i].id \in ran /\ done[i] \in Range(s)
              /\ Len(done) <= MaxCases => Len(Capped(s, ran)) <= MaxCases
<1> DEFINE sorted == ByPriority(s)
           atDone == {i \in DOMAIN sorted : sorted[i].id \in ran}
           atPending == {i \in DOMAIN sorted : sorted[i].id \notin ran}
           done == Filtered(sorted, atDone)
           pending == Filtered(sorted, atPending)
           room == IF Len(done) < MaxCases THEN MaxCases - Len(done) ELSE 0
           rest == First(pending, room)
           both == done \o rest
           t == ByPriority(both)
<1>1. Capped(s, ran) = t
  BY DEF Capped
<1>2. sorted \in Seq(S) /\ Range(sorted) = Range(s) /\ InPriority(sorted) /\ OwnIds(sorted)
  BY ByPriorityKeeps
<1> HIDE DEF sorted
<1>3. atDone \subseteq DOMAIN sorted /\ atPending \subseteq DOMAIN sorted
  OBVIOUS
<1>4. /\ {sorted[i] : i \in atDone} = {c \in Range(s) : c.id \in ran}
      /\ {sorted[i] : i \in atPending} = {c \in Range(s) : c.id \notin ran}
  BY <1>2 DEF Range
<1> HIDE DEF atDone, atPending
<1>5. done \in Seq(S) /\ OwnIds(done) /\ Range(done) = {c \in Range(s) : c.id \in ran}
  BY <1>2, <1>3, <1>4, FilteredCases
<1>6. pending \in Seq(S) /\ OwnIds(pending) /\ InPriority(pending) /\ Range(pending) = {c \in Range(s) : c.id \notin ran}
  BY <1>2, <1>3, <1>4, FilteredCases
<1> HIDE DEF done, pending
<1>7. MaxCases \in Nat /\ Len(done) \in Nat /\ Len(pending) \in Nat /\ room \in Nat
  BY <1>5, <1>6, CasePlanningAssumption
<1>8. /\ rest \in Seq(S) /\ OwnIds(rest) /\ Len(rest) = IF room < Len(pending) THEN room ELSE Len(pending)
      /\ \A i \in DOMAIN rest : i \in DOMAIN pending /\ rest[i] = pending[i]
  <2> HIDE DEF room
  <2> QED BY <1>6, <1>7, FirstCases
<1>9. Len(done) <= MaxCases => Len(done) + Len(rest) <= MaxCases
  BY <1>7, <1>8
<1> HIDE DEF room, rest
<1>10. /\ both \in Seq(S) /\ Len(both) = Len(done) + Len(rest)
       /\ \A i \in 1..Len(done) + Len(rest) : both[i] = IF i <= Len(done) THEN done[i] ELSE rest[i - Len(done)]
  BY <1>5, <1>8, ConcatProperties
<1>11. Len(done) \in Nat /\ Len(rest) \in Nat /\ DOMAIN done = 1..Len(done) /\ DOMAIN rest = 1..Len(rest)
  BY <1>5, <1>8
<1> HIDE DEF both
<1>12. DOMAIN both = 1..(Len(done) + Len(rest))
  BY <1>10, <1>11
<1>13. Range(both) = Range(done) \cup Range(rest)
  <2>1. ASSUME NEW i \in DOMAIN both PROVE both[i] \in Range(done) \cup Range(rest)
    <3>1. CASE i <= Len(done)
      BY <1>10, <1>11, <1>12, <3>1 DEF Range
    <3>2. CASE i > Len(done)
      <4>1. i - Len(done) \in DOMAIN rest /\ both[i] = rest[i - Len(done)]
        BY <1>10, <1>11, <1>12, <3>2
      <4> QED BY <4>1 DEF Range
    <3> QED BY <1>11, <1>12, <3>1, <3>2
  <2>2. ASSUME NEW i \in DOMAIN done PROVE done[i] \in Range(both)
    BY <1>10, <1>11, <1>12 DEF Range
  <2>3. ASSUME NEW i \in DOMAIN rest PROVE rest[i] \in Range(both)
    <3>1. i + Len(done) \in DOMAIN both /\ both[i + Len(done)] = rest[i]
      BY <1>10, <1>11, <1>12
    <3> QED BY <3>1 DEF Range
  <2> QED BY <2>1, <2>2, <2>3 DEF Range
<1>14. (\A i \in DOMAIN done : done[i].id \in ran) /\ (\A i \in DOMAIN rest : rest[i].id \notin ran)
  BY <1>5, <1>6, <1>8 DEF Range
<1>15. OwnIds(both)
  <2> SUFFICES ASSUME NEW i \in DOMAIN both, NEW k \in DOMAIN both, both[i].id = both[k].id PROVE i = k
    BY DEF OwnIds
  <2>1. \A j \in DOMAIN both : \/ j \in DOMAIN done /\ both[j] = done[j]
                               \/ j - Len(done) \in DOMAIN rest /\ both[j] = rest[j - Len(done)]
    BY <1>10, <1>11, <1>12
  <2>2. CASE i \in DOMAIN done /\ both[i] = done[i] /\ k \in DOMAIN done /\ both[k] = done[k]
    BY <1>5, <2>2 DEF OwnIds
  <2>3. CASE i - Len(done) \in DOMAIN rest /\ both[i] = rest[i - Len(done)] /\ k - Len(done) \in DOMAIN rest /\ both[k] = rest[k - Len(done)]
    <3>1. i - Len(done) = k - Len(done)
      BY <1>8, <2>3 DEF OwnIds
    <3> QED BY <1>11, <1>12, <3>1
  <2> QED BY <1>14, <2>1, <2>2, <2>3
<1>16. t \in Seq(S) /\ Len(t) = Len(both) /\ Range(t) = Range(both) /\ InPriority(t) /\ OwnIds(t)
  BY <1>10, <1>15, ByPriorityKeeps
<1> HIDE DEF t
<1>17. \A c \in Range(s) : c.id \in ran => c \in Range(t)
  BY <1>5, <1>13, <1>16
<1>18. ASSUME NEW c \in Range(s), NEW k \in Range(t), c \notin Range(t), k.id \notin ran PROVE k.priority <= c.priority
  <2>1. c.id \notin ran /\ c \in Range(pending) /\ c \notin Range(rest)
    BY <1>6, <1>13, <1>16, <1>17, <1>18
  <2>2. k \in Range(rest)
    BY <1>5, <1>13, <1>16, <1>18
  <2>3. PICK i \in DOMAIN pending : c = pending[i]
    BY <2>1 DEF Range
  <2>4. PICK j \in DOMAIN rest : k = rest[j]
    BY <2>2 DEF Range
  <2>5. i \notin DOMAIN rest
    BY <1>8, <2>1, <2>3 DEF Range
  <2>6. j < i /\ j \in DOMAIN pending /\ k = pending[j]
    <3>1. i \in 1..Len(pending) /\ j \in 1..Len(rest)
      BY <1>6, <1>11, <2>3, <2>4
    <3> QED BY <1>8, <1>11, <2>4, <2>5, <3>1
  <2> QED BY <1>6, <2>3, <2>6 DEF InPriority
<1>19. \A i \in DOMAIN done : done[i].id \in ran /\ done[i] \in Range(s)
  BY <1>5 DEF Range
<1>20. Len(done) <= MaxCases => Len(t) <= MaxCases
  BY <1>9, <1>10, <1>16
<1>21. \E q \in Seq(S) : /\ OwnIds(q) /\ \A i \in DOMAIN q : q[i].id \in ran /\ q[i] \in Range(s)
                         /\ Len(q) <= MaxCases => Len(t) <= MaxCases
  BY <1>5, <1>19, <1>20
<1> QED BY <1>1, <1>16, <1>17, <1>18, <1>21

\* Cases with ids of their own, all of which other cases have, are no more than those.
LEMMA NoMoreThan ==
  ASSUME NEW S, NEW q \in Seq(S), OwnIds(q), NEW R, NEW s \in Seq(R),
         \A i \in DOMAIN q : \E j \in DOMAIN s : s[j].id = q[i].id
  PROVE  Len(q) <= Len(s)
<1> DEFINE f == [i \in 1..Len(q) |-> CHOOSE j \in 1..Len(s) : s[j].id = q[i].id]
<1>1. Len(q) \in Nat /\ Len(s) \in Nat /\ DOMAIN q = 1..Len(q) /\ DOMAIN s = 1..Len(s)
  OBVIOUS
<1>2. ASSUME NEW i \in 1..Len(q) PROVE f[i] \in 1..Len(s) /\ s[f[i]].id = q[i].id
  <2>1. \E j \in 1..Len(s) : s[j].id = q[i].id
    BY <1>1
  <2> QED BY <2>1
<1>3. f \in [1..Len(q) -> 1..Len(s)]
  BY <1>2
<1> HIDE DEF f
<1>4. \A i, k \in 1..Len(q) : f[i] = f[k] => i = k
  <2> TAKE i, k \in 1..Len(q)
  <2>1. s[f[i]].id = q[i].id /\ s[f[k]].id = q[k].id
    BY <1>2
  <2>2. q[i].id = q[k].id => i = k
    BY <1>1 DEF OwnIds
  <2> QED BY <2>1, <2>2
<1>5. f \in Injection(1..Len(q), 1..Len(s))
  BY <1>3, <1>4 DEF Injection, IsInjective
<1>6. IsFiniteSet(1..Len(s)) /\ Cardinality(1..Len(s)) = Len(s) /\ Cardinality(1..Len(q)) = Len(q)
  <2>1. ASSUME NEW n \in Nat PROVE IsFiniteSet(1..n) /\ Cardinality(1..n) = n
    <3>1. IsFiniteSet(1..n) /\ Cardinality(1..n) = IF 1 > n THEN 0 ELSE n - 1 + 1
      BY FS_Interval
    <3> QED BY <3>1
  <2> HIDE DEF f
  <2> QED BY <1>1, <2>1
<1>7. Cardinality(1..Len(q)) <= Cardinality(1..Len(s))
  BY <1>5, <1>6, FS_Injection
<1> QED BY <1>6, <1>7

\* What is true of a merge: the cases have one fault each and are sorted, no two are the same; nothing
\* that has run goes, nor anything more urgent than what waits, unless the form turned out destructive.
LEMMA MergeIsProper ==
  ASSUME NEW d \in FormType, NEW p \in Plans, NEW s \in Seq(PlannedCases(d)), OwnIds(s), NEW ran, NEW allowed
  PROVE  LET t == MergedCases(d, p, s, ran, allowed) IN
         /\ t \in Seq(ProperCases(d)) /\ OwnIds(t) /\ InPriority(t)
         /\ Len(s) <= MaxCases /\ (\A x \in ran : \E j \in DOMAIN s : s[j].id = x) => Len(t) <= MaxCases
         /\ ~(d.destructive /\ ~allowed) =>
              /\ \A c \in Range(s) : c.id \in ran => c \in Range(t)
              /\ \A c \in Range(s), k \in Range(t) :
                   c.id \notin {e.id : e \in Range(t)} /\ k.id \notin ran => k.priority <= c.priority
<1> DEFINE better == [i \in DOMAIN s |-> IF s[i].id \in ran THEN s[i] ELSE BetterValues(d, p, s[i])]
           happy == HappyValues(better)
           N == Len(p.contexts)
           V == Longer(d, better)
           out[n \in 0..N] == IF n = 0 THEN better ELSE AddContext(d, happy, out[n - 1], p.contexts[n])
           T == [n \in 1..N |-> [v \in V |-> AddContext(d, happy, v, p.contexts[n])]]
           safe == OnlySafe(d, allowed, out[N])
           t == MergedCases(d, p, s, ran, allowed)
<1>0. t = Capped(safe, ran)
  BY DEF MergedCases
<1>1. N \in Nat /\ DOMAIN p.contexts = 1..N
  BY PlansAssumption
<1>2. ASSUME NEW i \in DOMAIN s
      PROVE  /\ better[i] \in ProperCases(d) /\ better[i].id = s[i].id /\ better[i].priority = s[i].priority
             /\ s[i].id \in ran => better[i] = s[i]
  <2>1. s[i] \in PlannedCases(d)
    OBVIOUS
  <2>2. s[i] \in ProperCases(d)
    BY <2>1 DEF PlannedCases
  <2>3. BetterValues(d, p, s[i]) \in ProperCases(d) /\ BetterValues(d, p, s[i]).id = s[i].id /\ BetterValues(d, p, s[i]).priority = s[i].priority
    BY <2>1, BetterIsProper
  <2> QED BY <2>2, <2>3
<1>3. DOMAIN s = 1..Len(s) /\ Len(s) \in Nat
  OBVIOUS
<1>4. DOMAIN better = DOMAIN s
  OBVIOUS
<1>5. better \in Seq(ProperCases(d)) /\ Len(better) = Len(s)
  <2>1. better \in [1..Len(s) -> ProperCases(d)]
    BY <1>2, <1>3
  <2> HIDE DEF better
  <2> QED BY <1>3, <2>1, FunctionIsSeq
<1> HIDE DEF better, N
<1>6. happy \in Maps /\ DOMAIN happy \subseteq KeysIn(d)
  BY <1>5, HappyValuesFit
<1>7. better \in V
  <2>1. OwnIds(better)
    BY <1>2, <1>4 DEF OwnIds
  <2> QED BY <1>5, <2>1 DEF Longer
<1> HIDE DEF V, happy
<1>8. \A n \in 1..N, v \in V : AddContext(d, happy, v, p.contexts[n]) \in V
  BY <1>1, <1>5, <1>6, ContextIsProper DEF V
<1>9. T \in [1..N -> [V -> V]]
  BY <1>8
<1>10. PICK g : IsBuilt(g, N, V, better, T)
  <2> HIDE DEF T
  <2> QED BY <1>1, <1>7, <1>9, Built
<1>11. g = [n \in 0..N |-> IF n = 0 THEN better ELSE AddContext(d, happy, g[n - 1], p.contexts[n])]
  <2>1. g \in [0..N -> V] /\ g[0] = better /\ \A n \in 1..N : g[n] = T[n][g[n - 1]]
    <3> HIDE DEF T
    <3> QED BY <1>10 DEF IsBuilt
  <2>2. ASSUME NEW n \in 1..N PROVE g[n] = AddContext(d, happy, g[n - 1], p.contexts[n])
    <3>1. n - 1 \in 0..N
      BY <1>1
    <3>2. g[n - 1] \in V
      BY <2>1, <3>1
    <3> QED BY <2>1, <3>2
  <2>3. \A n \in 0..N : n = 0 \/ n \in 1..N
    BY <1>1
  <2>4. \A n \in 0..N : g[n] = IF n = 0 THEN better ELSE AddContext(d, happy, g[n - 1], p.contexts[n])
    BY <2>1, <2>2, <2>3
  <2> QED BY <2>1, <2>4
<1>12. out = [n \in 0..N |-> IF n = 0 THEN better ELSE AddContext(d, happy, out[n - 1], p.contexts[n])]
  BY <1>11
<1> HIDE DEF out, T
<1>13. out[0] = better
  BY <1>1, <1>12
<1>14. ASSUME NEW n \in 1..N, out[n - 1] \in V PROVE out[n] \in V
  <2>1. n \in 0..N /\ n # 0
    BY <1>1
  <2>2. out[n] = AddContext(d, happy, out[n - 1], p.contexts[n])
    BY <1>12, <2>1
  <2> QED BY <1>8, <1>14, <2>2
<1>15. out[N] \in V
  <2>1. out[0] \in V
    BY <1>7, <1>13
  <2>2. \A n \in 0..N : out[n] \in V
    BY <1>1, <1>14, <2>1, BuiltIn
  <2> QED BY <1>1, <2>2
<1>16. out[N] \in Seq(ProperCases(d)) /\ OwnIds(out[N]) /\ Len(better) <= Len(out[N]) /\ \A i \in DOMAIN better : out[N][i] = better[i]
  BY <1>15 DEF V, Longer
<1>17. \A i \in DOMAIN s : better[i] \in Range(out[N])
  <2>1. DOMAIN out[N] = 1..Len(out[N]) /\ Len(out[N]) \in Nat
    BY <1>16
  <2> QED BY <1>3, <1>4, <1>5, <1>16, <2>1 DEF Range
<1>18. \A c \in ProperCases(d) : c.priority \in Int
  BY DEF ProperCases, CaseType
<1>19. safe \in Seq(ProperCases(d)) /\ OwnIds(safe)
  BY <1>16, <1>18, OnlySafeKeeps
<1>20. ~(d.destructive /\ ~allowed) => safe = out[N]
  BY DEF OnlySafe
<1> HIDE DEF safe, t
<1>21. /\ t \in Seq(ProperCases(d)) /\ OwnIds(t) /\ InPriority(t)
       /\ \A c \in Range(safe) : c.id \in ran => c \in Range(t)
       /\ \A c \in Range(safe), k \in Range(t) : c \notin Range(t) /\ k.id \notin ran => k.priority <= c.priority
  BY <1>0, <1>18, <1>19, CappedKeeps
<1>22. ASSUME Len(s) <= MaxCases, \A x \in ran : \E j \in DOMAIN s : s[j].id = x PROVE Len(t) <= MaxCases
  <2>1. PICK done \in Seq(ProperCases(d)) :
               /\ OwnIds(done) /\ \A i \in DOMAIN done : done[i].id \in ran /\ done[i] \in Range(safe)
               /\ Len(done) <= MaxCases => Len(t) <= MaxCases
    BY <1>0, <1>18, <1>19, CappedKeeps
  <2>2. \A i \in DOMAIN done : \E j \in DOMAIN s : s[j].id = done[i].id
    BY <1>22, <2>1
  <2>3. Len(done) <= Len(s)
    BY <2>1, <2>2, NoMoreThan
  <2>4. Len(done) \in Nat /\ MaxCases \in Nat
    BY <2>1, CasePlanningAssumption
  <2> QED BY <1>3, <1>22, <2>1, <2>3, <2>4
<1>23. ASSUME ~(d.destructive /\ ~allowed), NEW c \in Range(s), c.id \in ran PROVE c \in Range(t)
  <2>1. PICK i \in DOMAIN s : c = s[i]
    BY DEF Range
  <2>2. c \in Range(safe)
    BY <1>2, <1>17, <1>20, <1>23, <2>1
  <2> QED BY <1>21, <1>23, <2>2
<1>24. ASSUME ~(d.destructive /\ ~allowed), NEW c \in Range(s), NEW k \in Range(t),
              c.id \notin {e.id : e \in Range(t)}, k.id \notin ran
       PROVE  k.priority <= c.priority
  <2>1. PICK i \in DOMAIN s : c = s[i]
    BY DEF Range
  <2>2. better[i] \in Range(safe) /\ better[i].id = c.id /\ better[i].priority = c.priority
    BY <1>2, <1>17, <1>20, <1>24, <2>1
  <2>3. better[i] \notin Range(t)
    BY <1>24, <2>2
  <2> QED BY <1>21, <1>24, <2>2, <2>3
<1> QED BY <1>21, <1>22, <1>23, <1>24 DEF t

-----------------------------------------------------------------------------
(* The life of a form. *)

\* The cases of a form: one fault each, no two the same, sorted and no more than allowed; and until the
\* plan has come what has run is among them.
PlanInv ==
    /\ allow \in BOOLEAN /\ merged \in BOOLEAN
    /\ form \in FormType /\ (ClearFields => ClearForm(form))
    /\ cases \in Seq(ProperCases(form)) /\ OwnIds(cases) /\ InPriority(cases) /\ Len(cases) <= MaxCases
    /\ ~merged => cases \in Seq(PlannedCases(form)) /\ \A x \in executed : \E j \in DOMAIN cases : cases[j].id = x

\* What the merge does to the cases of a form.
MergedRight ==
    \/ form'.destructive /\ ~allow
    \/ /\ \A c \in Range(cases) : c.id \in executed => c \in Range(cases')
       /\ \A c \in Range(cases), k \in Range(cases') :
            c.id \notin {e.id : e \in Range(cases')} /\ k.id \notin executed => k.priority <= c.priority

LEMMA PlanInvInit == Init => PlanInv
<1> SUFFICES ASSUME Init PROVE PlanInv
  OBVIOUS
<1>1. form \in FormType /\ (ClearFields => ClearForm(form)) /\ allow \in BOOLEAN /\ merged = FALSE /\ executed = {}
  BY FormsAssumption DEF Init, ClearFields, ClearForm
<1>2. cases = PlanCases(form, allow)
  BY DEF Init
<1>3. cases \in Seq(PlannedCases(form)) /\ Len(cases) <= MaxCases /\ OwnIds(cases) /\ InPriority(cases)
  BY <1>1, <1>2, PlanCasesAreProper
<1>4. PlannedCases(form) \subseteq ProperCases(form)
  BY DEF PlannedCases
<1>5. cases \in Seq(ProperCases(form))
  BY <1>3, <1>4, SeqMonotonic
<1> QED BY <1>1, <1>3, <1>5 DEF PlanInv

LEMMA PlanArrivesRight ==
  ASSUME PlanInv, PlanArrives
  PROVE  PlanInv' /\ MergedRight
<1>1. PICK p \in Plans : form' = Enriched(form, p) /\ cases' = MergedCases(form', p, cases, executed, allow)
  BY DEF PlanArrives
<1>2. ~merged /\ merged' = TRUE /\ allow' = allow /\ executed' = executed
  BY DEF PlanArrives
<1>3. form' \in FormType /\ (ClearForm(form) <=> ClearForm(form'))
  BY <1>1, EnrichedIsForm DEF PlanInv
<1>4. cases \in Seq(PlannedCases(form'))
  <2>1. PlannedCases(form) \subseteq PlannedCases(form')
    BY <1>1, EnrichedKeepsCases DEF PlanInv
  <2> QED BY <1>2, <2>1, SeqMonotonic DEF PlanInv
<1>5. OwnIds(cases) /\ Len(cases) <= MaxCases /\ \A x \in executed : \E j \in DOMAIN cases : cases[j].id = x
  BY <1>2 DEF PlanInv
<1> DEFINE d == form'
           t == cases'
<1>6. t = MergedCases(d, p, cases, executed, allow)
  BY <1>1
<1> HIDE DEF d, t
<1>7. d \in FormType /\ cases \in Seq(PlannedCases(d))
  BY <1>3, <1>4 DEF d
<1>8. /\ t \in Seq(ProperCases(d)) /\ OwnIds(t) /\ InPriority(t) /\ Len(t) <= MaxCases
      /\ ~(d.destructive /\ ~allow) =>
           /\ \A c \in Range(cases) : c.id \in executed => c \in Range(t)
           /\ \A c \in Range(cases), k \in Range(t) :
                c.id \notin {e.id : e \in Range(t)} /\ k.id \notin executed => k.priority <= c.priority
  BY <1>5, <1>6, <1>7, MergeIsProper
<1>9. PlanInv'
  <2>1. cases' \in Seq(ProperCases(form')) /\ OwnIds(cases') /\ InPriority(cases') /\ Len(cases') <= MaxCases
    BY <1>8 DEF d, t
  <2>2. ClearFields => ClearForm(form')
    BY <1>3 DEF PlanInv
  <2> QED BY <1>2, <1>3, <2>1, <2>2 DEF PlanInv, ProperCases, OwnIds, InPriority, ClearForm, KeysIn
<1>10. MergedRight
  BY <1>8 DEF MergedRight, d, t
<1> QED BY <1>9, <1>10

LEMMA PlanInvStep == PlanInv /\ [Next]_vars => PlanInv' /\ (merged' # merged => MergedRight)
<1> SUFFICES ASSUME PlanInv, [Next]_vars PROVE PlanInv' /\ (merged' # merged => MergedRight)
  OBVIOUS
<1>1. CASE RunNext
  <2>1. PICK i \in DOMAIN cases : executed' = executed \cup {cases[i].id}
    BY <1>1 DEF RunNext
  <2>2. form' = form /\ allow' = allow /\ cases' = cases /\ merged' = merged
    BY <1>1 DEF RunNext
  <2>3. ~merged => \A x \in executed' : \E j \in DOMAIN cases : cases[j].id = x
    BY <2>1 DEF PlanInv
  <2> QED BY <2>2, <2>3 DEF PlanInv
<1>2. CASE PlanArrives
  BY <1>2, PlanArrivesRight
<1>3. CASE SettingChanges
  BY <1>3 DEF SettingChanges, PlanInv
<1>4. CASE UNCHANGED vars
  BY <1>4 DEF vars, PlanInv
<1> QED BY <1>1, <1>2, <1>3, <1>4 DEF Next

\* Every variable keeps the shape the source gives it, whatever the form and the plan: the cases have
\* distinct ids, are sorted, and are never more than the settings allow.
THEOREM PlanningType == Spec => []TypeOK
<1>1. PlanInv => TypeOK
  <2> SUFFICES ASSUME PlanInv PROVE TypeOK
    OBVIOUS
  <2>1. DOMAIN cases = 1..Len(cases) /\ Len(cases) \in Nat
    BY DEF PlanInv
  <2>2. \A i, k \in DOMAIN cases : i < k => cases[i].id # cases[k].id /\ cases[i].priority <= cases[k].priority
    BY <2>1 DEF PlanInv, OwnIds, InPriority
  <2>3. \A c \in Range(cases) : c \in ProperCases(form)
    BY <2>1 DEF PlanInv, Range
  <2>4. \A c \in Range(cases) : DOMAIN c.values \subseteq KeysIn(form) /\ c.key \in KeysIn(form) \cup {NoField}
    BY <2>3 DEF ProperCases
  <2> QED BY <2>2, <2>4 DEF TypeOK, PlanInv
<1> QED BY <1>1, PlanInvInit, PlanInvStep, PTL DEF Spec

\* When every field is clear about what it takes, every case tests one thing: the field under test
\* holds what the case is about and every other one a value that it takes, also after a plan has
\* rewritten the values of what waits, but for what OneFaultEach says a plan can spoil.
THEOREM PlanningOneFault == ClearFields => (Spec => []OneFaultEach)
<1> SUFFICES ASSUME ClearFields PROVE Spec => []OneFaultEach
  OBVIOUS
<1>1. PlanInv => OneFaultEach
  <2> SUFFICES ASSUME PlanInv, NEW c \in Range(cases), c.kind # "context"
               PROVE  OneFault(form, merged, c.kind, c.key, c.values)
    BY DEF OneFaultEach
  <2>1. ClearForm(form) /\ merged \in BOOLEAN
    BY DEF PlanInv
  <2>2. CASE merged
    <3>1. c \in ProperCases(form)
      BY DEF PlanInv, Range
    <3>2. Loose(form, c.kind, c.key, c.values)
      BY <2>1, <3>1 DEF ProperCases
    <3>3. merged = TRUE
      BY <2>1, <2>2
    <3> QED BY <3>2, <3>3 DEF Loose
  <2>3. CASE ~merged
    <3>1. c \in PlannedCases(form)
      BY <2>3 DEF PlanInv, Range
    <3>2. Strict(form, c.kind, c.key, c.values)
      BY <2>1, <3>1 DEF PlannedCases
    <3>3. merged = FALSE
      BY <2>1, <2>3
    <3> QED BY <3>2, <3>3 DEF Strict
  <2> QED BY <2>2, <2>3
<1> QED BY <1>1, PlanInvInit, PlanInvStep, PTL DEF Spec

\* The plan takes away no case that has run and changes none, unless it finds the form destructive,
\* and what it cuts is never more urgent than what waits.
THEOREM PlanningMerge == Spec => MergeKeepsBest
<1>1. PlanInv /\ [Next]_vars =>
        [merged' # merged =>
           \/ form'.destructive /\ ~allow
           \/ LET kept == {c.id : c \in Range(cases')} IN
              /\ \A c \in Range(cases) : c.id \in executed => c \in Range(cases')
              /\ \A c \in Range(cases), k \in Range(cases') :
                   c.id \notin kept /\ k.id \notin executed => k.priority <= c.priority]_vars
  BY PlanInvStep DEF MergedRight
<1> QED BY <1>1, PlanInvInit, PlanInvStep, PTL DEF Spec, MergeKeepsBest

-----------------------------------------------------------------------------
(* The order of a form's controls. *)

\* Two lists one after the other in places: what is a list of all of R stays one, whatever its order.
LEMMA Reordered ==
  ASSUME NEW N, NEW R, NEW items \in Bijection(1..N, R), NEW place \in Bijection(1..N, 1..N)
  PROVE  [n \in 1..N |-> items[place[n]]] \in Bijection(1..N, R)
<1> DEFINE list == [n \in 1..N |-> items[place[n]]]
<1>1. \A n \in 1..N : place[n] \in 1..N /\ items[n] \in R
  BY DEF Bijection, Injection
<1>2. list \in [1..N -> R]
  BY <1>1
<1>3. \A m, n \in 1..N : list[m] = list[n] => m = n
  <2> TAKE m, n \in 1..N
  <2>1. items[place[m]] = items[place[n]] => place[m] = place[n]
    BY <1>1 DEF Bijection, Injection, IsInjective
  <2>2. place[m] = place[n] => m = n
    BY DEF Bijection, Injection, IsInjective
  <2> QED BY <2>1, <2>2
<1>4. \A x \in R : \E n \in 1..N : list[n] = x
  <2> TAKE x \in R
  <2>1. PICK k \in 1..N : items[k] = x
    BY DEF Bijection, Surjection
  <2>2. PICK n \in 1..N : place[n] = k
    BY DEF Bijection, Surjection
  <2> QED BY <2>1, <2>2
<1>5. list \in Bijection(1..N, R)
  <2> HIDE DEF list
  <2> QED BY <1>2, <1>3, <1>4 DEF Bijection, Injection, Surjection, IsInjective
<1> QED BY <1>5

\* Tab goes through all controls that it is told of.
LEMMA SequentialIsAll ==
  ASSUME NEW controls \in Seq(ControlType), NEW N \in Nat, NEW R \in SUBSET DOMAIN controls,
         NEW items \in Bijection(1..N, R)
  PROVE  SequentialOrder(controls, items) \in Bijection(1..N, R)
<1> DEFINE key == [n \in DOMAIN items |-> IF controls[items[n]].tabindex > 0 THEN controls[items[n]].tabindex ELSE MaxIndex]
<1>1. DOMAIN items = 1..N /\ \A n \in 1..N : items[n] \in R
  BY DEF Bijection, Injection
<1>2. \A n \in 1..N : controls[items[n]] \in ControlType
  BY <1>1
<1>3. \A n \in 1..N : controls[items[n]].tabindex \in Int
  BY <1>2 DEF ControlType
<1>4. key \in [1..N -> Int]
  BY <1>1, <1>3 DEF MaxIndex
<1>5. SequentialOrder(controls, items) = Sorted(items, key)
  BY DEF SequentialOrder
<1> HIDE DEF key
<1>6. PICK place : Sorts(place, items, key, Sorted(items, key))
  BY <1>1, <1>4, SortedSorts
<1>7. place \in Bijection(1..N, 1..N) /\ Sorted(items, key) = [n \in 1..N |-> items[place[n]]]
  BY <1>1, <1>6 DEF Sorts
<1> QED BY <1>5, <1>7, Reordered

\* How a grid is read.
Reads(controls, a, b) ==
    \/ Row(controls[a]) < Row(controls[b])
    \/ Row(controls[a]) = Row(controls[b]) /\ controls[a].left < controls[b].left

\* What visualOrder() takes for a row is one, on a grid.
LEMMA RowsApart ==
  ASSUME NEW a \in ControlType, a.top % 40 <= 4, a.height <= 40, NEW b \in ControlType, b.top % 40 <= 4
  PROVE  /\ Row(a) \in Int /\ Row(b) \in Int
         /\ Row(a) = Row(b) => b.top <= a.top + RowSlack(a.height)
         /\ Row(a) < Row(b) => b.top > a.top + RowSlack(a.height)
         /\ a.top <= b.top => Row(a) <= Row(b)
<1> DEFINE s == RowSlack(a.height)
<1>1. a.top \in Int /\ b.top \in Int /\ a.height \in Nat
  BY DEF ControlType
<1>2. s \in Int /\ s >= 4 /\ s <= 20
  BY <1>1 DEF RowSlack
<1> HIDE DEF s
<1>3. Row(a) \in Int /\ a.top = 40 * Row(a) + (a.top % 40) /\ a.top % 40 >= 0
  BY <1>1 DEF Row
<1>4. Row(b) \in Int /\ b.top = 40 * Row(b) + (b.top % 40) /\ b.top % 40 >= 0
  BY <1>1 DEF Row
<1> QED BY <1>1, <1>2, <1>3, <1>4 DEF s

\* On a grid, visualOrder() goes through all controls as the grid is read.
LEMMA VisualReads ==
  ASSUME NEW controls \in Seq(ControlType), OnGrid(controls), NEW N \in Nat, NEW R \in SUBSET DOMAIN controls,
         NEW items \in Bijection(1..N, R)
  PROVE  /\ VisualOrder(controls, items) \in Bijection(1..N, R)
         /\ \A m, n \in 1..N : m < n => Reads(controls, VisualOrder(controls, items)[m], VisualOrder(controls, items)[n])
<1> DEFINE Higher(i, k) ==
             \/ controls[items[i]].top < controls[items[k]].top
             \/ controls[items[i]].top = controls[items[k]].top /\ controls[items[i]].left < controls[items[k]].left
             \/ controls[items[i]].top = controls[items[k]].top /\ controls[items[i]].left = controls[items[k]].left /\ i < k
           higher == [k \in 1..N |-> {i \in 1..N : Higher(i, k)}]
           byTop == InOrder(higher)
           At(n) == controls[items[byTop[n]]]
           first[n \in 0..N] == IF n = 0 THEN 0
                                ELSE IF first[n - 1] # 0 /\ At(n).top <= At(first[n - 1]).top + RowSlack(At(first[n - 1]).height)
                                     THEN first[n - 1] ELSE n
           Earlier(m, n) == \/ first[m] < first[n]
                            \/ first[m] = first[n] /\ (At(m).left < At(n).left \/ (At(m).left = At(n).left /\ m < n))
           earlier == [n \in 1..N |-> {m \in 1..N : Earlier(m, n)}]
           read == InOrder(earlier)
           list == [n \in 1..N |-> items[byTop[read[n]]]]
<1>1. /\ DOMAIN items = 1..N /\ Len(items) = N /\ IsFiniteSet(1..N) /\ Cardinality(1..N) = N
      /\ \A n \in 1..N : items[n] \in R
  <2>1. items \in [1..N -> R]
    BY DEF Bijection, Injection
  <2>2. DOMAIN items = 1..N /\ Len(items) = N
    BY <2>1, FunctionIsSeq
  <2>3. IsFiniteSet(1..N) /\ Cardinality(1..N) = N
    BY FS_Interval
  <2> QED BY <2>1, <2>2, <2>3
<1>2. VisualOrder(controls, items) = list
  BY <1>1 DEF VisualOrder
<1>3. \A n \in 1..N : controls[items[n]] \in ControlType /\ controls[items[n]].top \in Int /\ controls[items[n]].left \in Int
  <2> TAKE n \in 1..N
  <2>1. controls[items[n]] \in ControlType
    BY <1>1
  <2> QED BY <2>1 DEF ControlType
<1>4. Orders(higher, 1..N)
  <2> DEFINE t == [n \in 1..N |-> controls[items[n]].top]
             l == [n \in 1..N |-> controls[items[n]].left]
             Sooner(i, k) == t[i] < t[k] \/ (t[i] = t[k] /\ l[i] < l[k]) \/ (t[i] = t[k] /\ l[i] = l[k] /\ i < k)
  <2>1. t \in [1..N -> Int] /\ l \in [1..N -> Int]
    BY <1>3
  <2>2. \A i, k \in 1..N : Higher(i, k) <=> Sooner(i, k)
    OBVIOUS
  <2> HIDE DEF t, l
  <2>3. \A i \in 1..N : ~Sooner(i, i)
    BY <2>1
  <2>4. \A i, k \in 1..N : i # k => Sooner(i, k) \/ Sooner(k, i)
    BY <2>1
  <2>5. \A h, i, k \in 1..N : Sooner(h, i) /\ Sooner(i, k) => Sooner(h, k)
    BY <2>1
  <2> HIDE DEF Higher, Sooner
  <2>6. /\ higher \in [1..N -> SUBSET (1..N)]
        /\ \A i, k \in 1..N : i \in higher[k] <=> Sooner(i, k)
    BY <2>2
  <2> HIDE DEF higher
  <2> QED BY <2>3, <2>4, <2>5, <2>6 DEF Orders
<1>5. byTop \in Bijection(1..N, 1..N) /\ \A m, n \in 1..N : m < n <=> byTop[m] \in higher[byTop[n]]
  <2> HIDE DEF higher
  <2> QED BY <1>1, <1>4, InOrderIsOrder
<1> HIDE DEF byTop
<1>6. \A n \in 1..N : byTop[n] \in 1..N
  BY <1>5 DEF Bijection, Injection
<1>7. \A m, n \in 1..N : m < n => At(m).top <= At(n).top
  <2> TAKE m, n \in 1..N
  <2>1. byTop[m] \in 1..N /\ byTop[n] \in 1..N
    BY <1>6
  <2>2. m < n => Higher(byTop[m], byTop[n])
    BY <1>5, <2>1
  <2> QED BY <1>3, <2>1, <2>2
<1>8. \A n \in 1..N : /\ At(n) \in ControlType /\ At(n).top \in Int /\ At(n).left \in Int
                      /\ At(n).top % 40 <= 4 /\ At(n).height <= 40
  BY <1>1, <1>3, <1>6 DEF OnGrid
<1>9. \A m, n \in 1..N : m # n => Row(At(m)) # Row(At(n)) \/ At(m).left # At(n).left
  <2> TAKE m, n \in 1..N
  <2>1. m # n => byTop[m] # byTop[n]
    BY <1>5 DEF Bijection, Injection, IsInjective
  <2>2. byTop[m] # byTop[n] => items[byTop[m]] # items[byTop[n]]
    BY <1>6 DEF Bijection, Injection, IsInjective
  <2>3. items[byTop[m]] \in DOMAIN controls /\ items[byTop[n]] \in DOMAIN controls
    BY <1>1, <1>6
  <2> QED BY <2>1, <2>2, <2>3 DEF OnGrid
<1>10. \A m, n \in 1..N : /\ Row(At(m)) \in Int
                          /\ Row(At(m)) = Row(At(n)) => At(n).top <= At(m).top + RowSlack(At(m).height)
                          /\ Row(At(m)) < Row(At(n)) => At(n).top > At(m).top + RowSlack(At(m).height)
                          /\ m < n => Row(At(m)) <= Row(At(n))
  <2> TAKE m, n \in 1..N
  <2>1. At(m) \in ControlType /\ At(n) \in ControlType /\ (m < n => At(m).top <= At(n).top)
        /\ At(m).top % 40 <= 4 /\ At(m).height <= 40 /\ At(n).top % 40 <= 4
    BY <1>7, <1>8
  <2> HIDE DEF At
  <2> QED BY <2>1, RowsApart
<1> HIDE DEF At
<1>11. /\ first[0] = 0
       /\ \A n \in 1..N : first[n] = IF first[n - 1] # 0 /\ At(n).top <= At(first[n - 1]).top + RowSlack(At(first[n - 1]).height)
                                      THEN first[n - 1] ELSE n
  <2> DEFINE F(n, f) == IF f # 0 /\ At(n).top <= At(f).top + RowSlack(At(f).height) THEN f ELSE n
             T == [n \in 1..N |-> [f \in 0..N |-> F(n, f)]]
  <2>1. \A n \in 1..N : \A f \in 0..N : F(n, f) \in 0..N
    OBVIOUS
  <2> HIDE DEF F
  <2>2. T \in [1..N -> [0..N -> 0..N]]
    BY <2>1
  <2>3. PICK g : IsBuilt(g, N, 0..N, 0, T)
    <3> DEFINE V == 0..N
    <3>1. 0 \in V /\ T \in [1..N -> [V -> V]]
      BY <2>2
    <3> HIDE DEF T, V
    <3>2. \E g : IsBuilt(g, N, V, 0, T)
      BY <3>1, Built
    <3> QED BY <3>2 DEF V
  <2>4. g \in [0..N -> 0..N] /\ g[0] = 0 /\ \A n \in 1..N : g[n] = T[n][g[n - 1]]
    BY <2>3 DEF IsBuilt
  <2>5. \A n \in 1..N : g[n] = F(n, g[n - 1])
    <3> TAKE n \in 1..N
    <3>1. n - 1 \in 0..N
      OBVIOUS
    <3>2. g[n - 1] \in 0..N
      BY <2>4, <3>1
    <3> QED BY <2>4, <3>2
  <2>6. g = [n \in 0..N |-> IF n = 0 THEN 0 ELSE F(n, g[n - 1])]
    <3>1. \A n \in 0..N : n = 0 \/ n \in 1..N
      OBVIOUS
    <3>2. \A n \in 0..N : g[n] = IF n = 0 THEN 0 ELSE F(n, g[n - 1])
      BY <2>4, <2>5, <3>1
    <3> QED BY <2>4, <3>2
  <2>7. first = [n \in 0..N |-> IF n = 0 THEN 0 ELSE F(n, first[n - 1])]
    <3>1. \E h : h = [n \in 0..N |-> IF n = 0 THEN 0 ELSE F(n, h[n - 1])]
      BY <2>6
    <3> QED BY <3>1 DEF F
  <2> HIDE DEF first
  <2>8. first[0] = 0
    BY <2>7
  <2>9. \A n \in 1..N : first[n] = F(n, first[n - 1])
    <3> TAKE n \in 1..N
    <3>1. n \in 0..N /\ n # 0
      OBVIOUS
    <3> QED BY <2>7, <3>1
  <2> QED BY <2>8, <2>9 DEF F
<1> HIDE DEF first
<1> DEFINE Begins(n) == /\ first[n] \in 1..n /\ Row(At(first[n])) = Row(At(n))
                        /\ \A k \in 1..N : Row(At(k)) = Row(At(n)) => first[n] <= k
           Good == {n \in 0..N : n = 0 \/ Begins(n)}
<1>12. ASSUME NEW n \in 1..N, n - 1 \in Good PROVE n \in Good
  <2>1. CASE n = 1
    <3>1. first[n] = 1
      BY <1>11, <2>1
    <3> QED BY <2>1, <3>1
  <2>2. CASE n # 1 /\ Row(At(n)) = Row(At(n - 1))
    <3>1. n - 1 \in 1..N /\ Begins(n - 1)
      BY <1>12, <2>2
    <3>2. first[n - 1] \in 1..N /\ first[n - 1] # 0 /\ Row(At(first[n - 1])) = Row(At(n))
      BY <2>2, <3>1
    <3>3. first[n] = first[n - 1]
      BY <1>10, <1>11, <3>2
    <3> QED BY <2>2, <3>1, <3>2, <3>3
  <2>3. CASE n # 1 /\ Row(At(n)) # Row(At(n - 1))
    <3>1. n - 1 \in 1..N /\ Begins(n - 1)
      BY <1>12, <2>3
    <3>2. first[n - 1] \in 1..N /\ Row(At(first[n - 1])) = Row(At(n - 1)) /\ Row(At(n - 1)) < Row(At(n))
      <4>1. Row(At(n - 1)) <= Row(At(n)) /\ Row(At(n - 1)) \in Int /\ Row(At(n)) \in Int
        BY <1>10, <3>1
      <4> QED BY <2>3, <3>1, <4>1
    <3>3. At(n).top > At(first[n - 1]).top + RowSlack(At(first[n - 1]).height)
      BY <1>10, <3>2
    <3>4. At(n).top \in Int /\ At(first[n - 1]).top \in Int /\ RowSlack(At(first[n - 1]).height) \in Int
      <4>1. At(first[n - 1]) \in ControlType
        BY <1>8, <3>2
      <4>2. At(first[n - 1]).height \in Nat
        BY <4>1 DEF ControlType
      <4> QED BY <1>8, <3>2, <4>2 DEF RowSlack
    <3>5. first[n] = n
      BY <1>11, <3>3, <3>4
    <3>6. ASSUME NEW k \in 1..N, k < n PROVE Row(At(k)) # Row(At(n))
      <4>1. k = n - 1 \/ k < n - 1
        BY <3>6
      <4>2. Row(At(k)) <= Row(At(n - 1)) /\ Row(At(k)) \in Int /\ Row(At(n - 1)) \in Int /\ Row(At(n)) \in Int
        BY <1>10, <3>1, <4>1
      <4> QED BY <3>2, <4>2
    <3> QED BY <3>5, <3>6
  <2> QED BY <2>1, <2>2, <2>3
<1>13. \A n \in 1..N : Begins(n)
  <2>1. 0 \in Good
    OBVIOUS
  <2> HIDE DEF Begins
  <2>2. \A n \in 0..N : n \in Good
    <3> HIDE DEF Good
    <3> QED BY <1>12, <2>1, UpTo
  <2>3. \A n \in 1..N : n \in 0..N /\ n # 0
    OBVIOUS
  <2> QED BY <2>2, <2>3
<1> HIDE DEF Good
<1>14. \A m, n \in 1..N : /\ first[m] \in 1..N
                          /\ Row(At(m)) = Row(At(n)) <=> first[m] = first[n]
                          /\ Row(At(m)) < Row(At(n)) <=> first[m] < first[n]
  <2> TAKE m, n \in 1..N
  <2>1. Begins(m) /\ Begins(n)
    BY <1>13
  <2>2. first[m] \in 1..N /\ first[n] \in 1..N /\ Row(At(m)) \in Int /\ Row(At(n)) \in Int
    BY <1>10, <2>1
  <2>3. Row(At(first[m])) = Row(At(m)) /\ Row(At(first[n])) = Row(At(n))
    BY <2>1
  <2>4. Row(At(m)) = Row(At(n)) => first[m] = first[n]
    BY <2>1, <2>2, <2>3
  <2>5. first[m] = first[n] => Row(At(m)) = Row(At(n))
    BY <2>3
  <2>6. first[m] < first[n] => Row(At(m)) <= Row(At(n))
    BY <1>10, <2>2, <2>3
  <2>7. first[n] < first[m] => Row(At(n)) <= Row(At(m))
    BY <1>10, <2>2, <2>3
  <2>8. Row(At(m)) < Row(At(n)) => first[m] < first[n]
    BY <2>2, <2>5, <2>7
  <2>9. first[m] < first[n] => Row(At(m)) < Row(At(n))
    BY <2>2, <2>4, <2>6
  <2> QED BY <2>2, <2>4, <2>5, <2>8, <2>9
<1>15. Orders(earlier, 1..N)
  <2>1. \A n \in 1..N : first[n] \in Int /\ At(n).left \in Int
    BY <1>8, <1>14
  <2>2. \A n \in 1..N : ~Earlier(n, n)
    BY <2>1
  <2>3. \A m, n \in 1..N : m # n => Earlier(m, n) \/ Earlier(n, m)
    BY <2>1
  <2>4. \A k, m, n \in 1..N : Earlier(k, m) /\ Earlier(m, n) => Earlier(k, n)
    BY <2>1
  <2> HIDE DEF Earlier
  <2>5. \A n \in 1..N : earlier[n] = {m \in 1..N : Earlier(m, n)}
    OBVIOUS
  <2>6. earlier \in [1..N -> SUBSET (1..N)]
    OBVIOUS
  <2> HIDE DEF earlier
  <2> QED BY <2>2, <2>3, <2>4, <2>5, <2>6 DEF Orders
<1>16. read \in Bijection(1..N, 1..N) /\ \A m, n \in 1..N : m < n <=> read[m] \in earlier[read[n]]
  <2> HIDE DEF earlier
  <2> QED BY <1>1, <1>15, InOrderIsOrder
<1> HIDE DEF read
<1>17. \A n \in 1..N : read[n] \in 1..N
  BY <1>16 DEF Bijection, Injection
<1>18. \A m, n \in 1..N : m < n => \/ Row(At(read[m])) < Row(At(read[n]))
                                   \/ Row(At(read[m])) = Row(At(read[n])) /\ At(read[m]).left < At(read[n]).left
  <2> SUFFICES ASSUME NEW m \in 1..N, NEW n \in 1..N, m < n
               PROVE  \/ Row(At(read[m])) < Row(At(read[n]))
                      \/ Row(At(read[m])) = Row(At(read[n])) /\ At(read[m]).left < At(read[n]).left
    OBVIOUS
  <2> DEFINE a == read[m]  b == read[n]
  <2>1. a \in 1..N /\ b \in 1..N /\ a \in earlier[b]
    BY <1>16, <1>17
  <2>2. Earlier(a, b)
    BY <2>1
  <2>3. a # b
    BY <1>16 DEF Bijection, Injection, IsInjective
  <2> HIDE DEF a, b
  <2>4. Row(At(a)) # Row(At(b)) \/ At(a).left # At(b).left
    BY <1>9, <2>1, <2>3
  <2>5. /\ Row(At(a)) = Row(At(b)) <=> first[a] = first[b]
        /\ Row(At(a)) < Row(At(b)) <=> first[a] < first[b]
    BY <1>14, <2>1
  <2>6. At(a).left \in Int /\ At(b).left \in Int
    BY <1>8, <2>1
  <2>7. Row(At(a)) < Row(At(b)) \/ (Row(At(a)) = Row(At(b)) /\ At(a).left < At(b).left)
    BY <2>2, <2>4, <2>5, <2>6
  <2> QED BY <2>7 DEF a, b
<1>19. [n \in 1..N |-> byTop[read[n]]] \in Bijection(1..N, 1..N)
  BY <1>5, <1>16, Reordered
<1>20. list \in Bijection(1..N, R)
  <2> DEFINE place == [n \in 1..N |-> byTop[read[n]]]
  <2>1. [n \in 1..N |-> items[place[n]]] \in Bijection(1..N, R)
    <3> HIDE DEF place
    <3> QED BY <1>19, Reordered DEF place
  <2> QED BY <2>1
<1>21. \A n \in 1..N : controls[list[n]] = At(read[n])
  BY DEF At
<1> HIDE DEF list
<1>22. \A m, n \in 1..N : m < n => Reads(controls, list[m], list[n])
  BY <1>18, <1>21 DEF Reads
<1> QED BY <1>2, <1>20, <1>22

\* On a grid, of two controls one is read before the other.
LEMMA ReadsOrders ==
  ASSUME NEW controls \in Seq(ControlType), OnGrid(controls), NEW a \in DOMAIN controls, NEW b \in DOMAIN controls
  PROVE  /\ ~(Reads(controls, a, b) /\ Reads(controls, b, a))
         /\ a # b => Reads(controls, a, b) \/ Reads(controls, b, a)
<1>1. controls[a] \in ControlType /\ controls[b] \in ControlType
  OBVIOUS
<1>2. controls[a].left \in Int /\ controls[b].left \in Int /\ controls[a].top \in Int /\ controls[b].top \in Int
  BY <1>1 DEF ControlType
<1>3. Row(controls[a]) \in Int /\ Row(controls[b]) \in Int
  BY <1>2 DEF Row
<1>4. a # b => Row(controls[a]) # Row(controls[b]) \/ controls[a].left # controls[b].left
  BY DEF OnGrid
<1> QED BY <1>2, <1>3, <1>4 DEF Reads

\* The order on the screen is another than that of Tab exactly when Tab goes backwards somewhere.
LEMMA TabJumps ==
  ASSUME NEW controls \in Seq(ControlType), OnGrid(controls), NEW N \in Nat, NEW R \in SUBSET DOMAIN controls,
         NEW tab \in Bijection(1..N, R)
  PROVE  VisualOrder(controls, tab) # tab <=> \E i, j \in 1..N : i < j /\ Reads(controls, tab[j], tab[i])
<1> DEFINE V == VisualOrder(controls, tab)
           Back == \E i, j \in 1..N : i < j /\ Reads(controls, tab[j], tab[i])
<1>1. V \in Bijection(1..N, R) /\ \A m, n \in 1..N : m < n => Reads(controls, V[m], V[n])
  BY VisualReads
<1> HIDE DEF V
<1>2. \A n \in 1..N : tab[n] \in R /\ V[n] \in R /\ tab[n] \in DOMAIN controls /\ V[n] \in DOMAIN controls
  BY <1>1 DEF Bijection, Injection
<1>3. ASSUME V = tab, Back PROVE FALSE
  <2>1. PICK i \in 1..N, j \in 1..N : i < j /\ Reads(controls, tab[j], tab[i])
    BY <1>3
  <2>2. Reads(controls, tab[i], tab[j])
    BY <1>1, <1>3, <2>1
  <2> QED BY <1>2, <2>1, <2>2, ReadsOrders
<1>4. ASSUME ~Back PROVE V = tab
  <2> DEFINE Good == {n \in 0..N : \A m \in 1..n : V[m] = tab[m]}
  <2>1. ASSUME NEW n \in 1..N, n - 1 \in Good, V[n] # tab[n] PROVE FALSE
    <3>1. PICK p \in 1..N : V[p] = tab[n]
      BY <1>1, <1>2 DEF Bijection, Surjection
    <3>2. PICK q \in 1..N : tab[q] = V[n]
      BY <1>2 DEF Bijection, Surjection
    <3>3. \A m \in 1..N : m < n => V[m] = tab[m]
      BY <2>1
    <3>4. ~(p < n) /\ p # n
      <4>1. p < n => tab[p] = tab[n]
        BY <3>1, <3>3
      <4>2. tab[p] = tab[n] => p = n
        BY DEF Bijection, Injection, IsInjective
      <4> QED BY <2>1, <3>1, <4>1, <4>2
    <3>5. ~(q < n) /\ q # n
      <4>1. q < n => V[q] = V[n]
        BY <3>2, <3>3
      <4>2. V[q] = V[n] => q = n
        BY <1>1 DEF Bijection, Injection, IsInjective
      <4> QED BY <2>1, <3>2, <4>1, <4>2
    <3>6. n < p /\ n < q
      BY <3>4, <3>5
    <3>7. Reads(controls, V[n], V[p])
      BY <1>1, <3>6
    <3>8. Reads(controls, tab[q], tab[n])
      BY <3>1, <3>2, <3>7
    <3> QED BY <1>4, <3>6, <3>8
  <2>2. \A n \in 1..N : n - 1 \in Good => n \in Good
    <3> TAKE n \in 1..N
    <3> SUFFICES ASSUME n - 1 \in Good PROVE n \in Good
      OBVIOUS
    <3>1. V[n] = tab[n]
      BY <2>1
    <3>2. \A m \in 1..n : m = n \/ m \in 1..(n - 1)
      OBVIOUS
    <3> QED BY <3>1, <3>2
  <2>3. 0 \in Good
    OBVIOUS
  <2>4. N \in Good
    <3>1. N \in 0..N
      OBVIOUS
    <3> HIDE DEF Good
    <3> QED BY <2>2, <2>3, <3>1, UpTo
  <2>5. \A n \in 1..N : V[n] = tab[n]
    BY <2>4
  <2>6. V \in [1..N -> R] /\ tab \in [1..N -> R]
    BY <1>1 DEF Bijection, Injection
  <2> QED BY <2>5, <2>6
<1> QED BY <1>3, <1>4 DEF V

\* What is said of a walk of a form on a grid.
LEMMA WalkOfGrid ==
  ASSUME NEW controls \in Seq(ControlType), OnGrid(controls)
  PROVE  LET w == KeyboardWalk(controls) IN
         /\ Range(w.order) = DOMAIN controls /\ Len(w.order) = Len(controls)
         /\ (<<"order", 0>> \in w.issues) <=>
              \E i, j \in DOMAIN w.order :
                i < j /\ Tabbable(controls, w.order[i]) /\ Tabbable(controls, w.order[j]) /\ Reads(controls, w.order[j], w.order[i])
<1> DEFINE K == Len(controls)
           reached == {c \in DOMAIN controls : Tabbable(controls, c)}
           missed == DOMAIN controls \ reached
           N == Cardinality(reached)
           M == Cardinality(missed)
           tab == SequentialOrder(controls, Ascending(reached))
           rest == Ascending(missed)
           w == KeyboardWalk(controls)
           order == tab \o rest
<1>1. K \in Nat /\ DOMAIN controls = 1..K /\ IsFiniteSet(1..K) /\ Cardinality(1..K) = K
  <2>1. K \in Nat /\ DOMAIN controls = 1..K
    OBVIOUS
  <2> HIDE DEF K
  <2>2. IsFiniteSet(1..K) /\ Cardinality(1..K) = IF 1 > K THEN 0 ELSE K - 1 + 1
    BY <2>1, FS_Interval
  <2> QED BY <2>1, <2>2
<1>2. /\ reached \in SUBSET Int /\ IsFiniteSet(reached) /\ missed \in SUBSET Int /\ IsFiniteSet(missed)
      /\ reached \in SUBSET DOMAIN controls /\ reached \cup missed = DOMAIN controls /\ reached \cap missed = {}
  <2>1. reached \in SUBSET DOMAIN controls /\ missed \in SUBSET DOMAIN controls /\ DOMAIN controls \in SUBSET Int
    BY <1>1
  <2>2. reached \cup missed = DOMAIN controls /\ reached \cap missed = {}
    OBVIOUS
  <2> HIDE DEF reached, missed
  <2> QED BY <1>1, <2>1, <2>2, FS_Subset
<1>3. \A c \in reached : Tabbable(controls, c)
  OBVIOUS
<1>4. \A c \in missed : ~Tabbable(controls, c)
  OBVIOUS
<1>5. w.order = order /\ (<<"order", 0>> \in w.issues <=> VisualOrder(controls, tab) # tab)
  <2>1. w.order = order
    BY DEF KeyboardWalk
  <2>2. w.issues = {<<"positive", c>> : c \in {c \in DOMAIN controls : controls[c].tabindex > 0}}
              \cup {<<"unreachable", c>> : c \in {c \in missed : controls[c].required \/ (controls[c].shown /\ ~controls[c].off)}}
              \cup (IF VisualOrder(controls, tab) # tab THEN {<<"order", 0>>} ELSE {})
    BY DEF KeyboardWalk
  <2> HIDE DEF w, tab, missed
  <2> QED BY <2>1, <2>2
<1> HIDE DEF reached, missed, w
<1>6. N \in Nat /\ M \in Nat /\ Ascending(reached) \in Bijection(1..N, reached) /\ rest \in Bijection(1..M, missed)
  BY <1>2, AscendingRises
<1>7. tab \in Bijection(1..N, reached)
  BY <1>2, <1>6, SequentialIsAll
<1>8. VisualOrder(controls, tab) # tab <=> \E i, j \in 1..N : i < j /\ Reads(controls, tab[j], tab[i])
  <2> HIDE DEF tab, N
  <2> QED BY <1>2, <1>6, <1>7, TabJumps
<1>9. N + M = K
  <2>1. Cardinality(reached \cup missed) = N + M - Cardinality(reached \cap missed)
    BY <1>2, FS_Union
  <2>2. Cardinality({}) = 0
    BY FS_EmptySet
  <2>3. Cardinality(reached \cup missed) = K
    BY <1>1, <1>2
  <2>4. Cardinality(reached \cap missed) = 0
    BY <1>2, <2>2
  <2>5. N \in Nat /\ M \in Nat
    BY <1>6
  <2> HIDE DEF N, M, K
  <2> QED BY <2>1, <2>3, <2>4, <2>5
<1> HIDE DEF tab, rest, N, M
<1>10. tab \in [1..N -> reached] /\ rest \in [1..M -> missed]
  BY <1>6, <1>7 DEF Bijection, Injection
<1>11. /\ tab \in Seq(DOMAIN controls) /\ rest \in Seq(DOMAIN controls) /\ Len(tab) = N /\ Len(rest) = M
  <2>1. tab \in [1..N -> DOMAIN controls] /\ rest \in [1..M -> DOMAIN controls]
    BY <1>2, <1>10
  <2> QED BY <1>6, <2>1, FunctionIsSeq
<1>12. /\ order \in Seq(DOMAIN controls) /\ Len(order) = K /\ DOMAIN order = 1..K
       /\ \A i \in 1..K : order[i] = IF i <= N THEN tab[i] ELSE rest[i - N]
  BY <1>6, <1>9, <1>11, ConcatProperties
<1> HIDE DEF order
<1>13. Range(order) = DOMAIN controls
  <2>1. \A c \in reached : \E i \in 1..N : tab[i] = c
    BY <1>7 DEF Bijection, Surjection
  <2>2. \A c \in missed : \E i \in 1..M : rest[i] = c
    BY <1>6 DEF Bijection, Surjection
  <2>3. ASSUME NEW c \in DOMAIN controls PROVE \E i \in 1..K : order[i] = c
    <3>1. CASE c \in reached
      <4>1. PICK i \in 1..N : tab[i] = c
        BY <2>1, <3>1
      <4>2. i \in 1..K /\ i <= N
        BY <1>6, <1>9
      <4> QED BY <1>12, <4>1, <4>2
    <3>2. CASE c \in missed
      <4>1. PICK i \in 1..M : rest[i] = c
        BY <2>2, <3>2
      <4>2. i + N \in 1..K /\ ~(i + N <= N) /\ (i + N) - N = i
        BY <1>6, <1>9
      <4> QED BY <1>12, <4>1, <4>2
    <3> QED BY <1>2, <3>1, <3>2
  <2>4. \A i \in 1..K : order[i] \in DOMAIN controls
    BY <1>12
  <2> QED BY <1>12, <2>3, <2>4 DEF Range
<1>14. \A i \in 1..K : Tabbable(controls, order[i]) <=> i <= N
  <2> TAKE i \in 1..K
  <2>1. i <= N => order[i] \in reached
    <3>1. i <= N => i \in 1..N
      BY <1>6
    <3>2. \A n \in 1..N : tab[n] \in reached
      BY <1>10
    <3> QED BY <1>12, <3>1, <3>2
  <2>2. ~(i <= N) => order[i] \in missed
    <3>1. ~(i <= N) => i - N \in 1..M
      BY <1>6, <1>9
    <3> QED BY <1>10, <1>12, <3>1
  <2> QED BY <1>3, <1>4, <2>1, <2>2
<1>15. (\E i, j \in 1..N : i < j /\ Reads(controls, tab[j], tab[i])) <=>
         \E i, j \in 1..K :
            i < j /\ Tabbable(controls, order[i]) /\ Tabbable(controls, order[j]) /\ Reads(controls, order[j], order[i])
  <2>1. \A i \in 1..N : i \in 1..K /\ i <= N /\ order[i] = tab[i]
    <3>1. \A i \in 1..N : i \in 1..K /\ i <= N
      BY <1>6, <1>9
    <3> QED BY <1>12, <3>1
  <2>2. \A i \in 1..K : i <= N => i \in 1..N
    BY <1>6
  <2> QED BY <1>14, <2>1, <2>2
<1> QED BY <1>5, <1>8, <1>12, <1>13, <1>15 DEF w

\* What is answered about a screen: the walk of its form, or the report of its page.
HealthInv ==
    /\ screen \in Screens
    /\ walk # NoWalk => walk = KeyboardWalk(layout)
    /\ health # NoWalk => \E broken \in 0..7, after \in 0..MaxPerKind : health = RunHealthChecks(screen, broken, after)

LEMMA HealthInvHolds == HealthSpec => []HealthInv
<1>1. HealthInit => HealthInv
  BY DEF HealthInit, HealthInv
<1>2. HealthInv /\ [HealthNext]_healthVars => HealthInv'
  <2> SUFFICES ASSUME HealthInv, [HealthNext]_healthVars PROVE HealthInv'
    OBVIOUS
  <2>1. CASE Walk
    BY <2>1 DEF Walk, HealthInv, layout, NoWalk
  <2>2. CASE CheckHealth
    BY <2>2 DEF CheckHealth, HealthInv, layout, NoWalk
  <2>3. CASE UNCHANGED healthVars
    BY <2>3 DEF healthVars, HealthInv, layout
  <2> QED BY <2>1, <2>2, <2>3 DEF HealthNext
<1> QED BY <1>1, <1>2, PTL DEF HealthSpec

\* The walk of any form on a grid names every field once, and says that Tab jumps about exactly when
\* there are two fields that Tab reaches in the wrong order: rows a few pixels off the line are rows.
THEOREM HealthWalk == (\A s \in Screens : OnGrid(s.form)) => (HealthSpec => []WalkIsRight)
<1> SUFFICES ASSUME \A s \in Screens : OnGrid(s.form) PROVE HealthSpec => []WalkIsRight
  OBVIOUS
<1>1. HealthInv => WalkIsRight
  <2> SUFFICES ASSUME HealthInv, walk # NoWalk
               PROVE  /\ Range(walk.order) = DOMAIN layout /\ Len(walk.order) = Len(layout)
                      /\ (<<"order", 0>> \in walk.issues) <=>
                           \E i, j \in DOMAIN walk.order :
                              /\ i < j /\ Tabbable(layout, walk.order[i]) /\ Tabbable(layout, walk.order[j])
                              /\ ReadsBefore(walk.order[j], walk.order[i])
    BY DEF WalkIsRight
  <2>1. layout \in Seq(ControlType) /\ OnGrid(layout) /\ walk = KeyboardWalk(layout)
    BY HealthAssumption DEF HealthInv, layout
  <2>2. \A a, b : ReadsBefore(a, b) <=> Reads(layout, a, b)
    BY DEF ReadsBefore, Reads
  <2> QED BY <2>1, <2>2, WalkOfGrid
<1> QED BY <1>1, HealthInvHolds, PTL

-----------------------------------------------------------------------------
(* The report of a page. *)

\* Of a set of numbers no more than n have fewer than n before them.
LEMMA FirstFew ==
  ASSUME NEW S \in SUBSET Int, IsFiniteSet(S), NEW n \in Nat
  PROVE  LET few == {x \in S : Cardinality({y \in S : y < x}) < n} IN IsFiniteSet(few) /\ Cardinality(few) <= n
<1> DEFINE before == [x \in S |-> {y \in S : y < x}]
           few == {x \in S : Cardinality({y \in S : y < x}) < n}
           rank == [x \in S |-> Cardinality(before[x]) + 1]
           short == [x \in few |-> rank[x]]
<1>1. Orders(before, S)
  <2>1. before \in [S -> SUBSET S] /\ \A x \in S : x \notin before[x]
    OBVIOUS
  <2>2. \A x, y \in S : x # y => x \in before[y] \/ y \in before[x]
    OBVIOUS
  <2>3. ASSUME NEW x \in S, NEW y \in S, x \in before[y] PROVE before[x] \subseteq before[y]
    <3>1. x < y /\ \A z \in S : z \in Int
      BY <2>3
    <3>2. \A z \in S : z < x => z < y
      BY <3>1
    <3> QED BY <3>2
  <2> QED BY <2>1, <2>2, <2>3 DEF Orders
<1>2. \A x \in S : Cardinality(before[x]) \in Nat
  <2> TAKE x \in S
  <2>1. before[x] \subseteq S
    OBVIOUS
  <2> QED BY <2>1, FS_Subset, FS_CardinalityType
<1>3. rank \in Bijection(S, 1..Cardinality(S))
  BY <1>1, RankIsPlace
<1>4. few \subseteq S /\ \A x \in few : rank[x] \in 1..n
  BY <1>2
<1>5. short \in Injection(few, 1..n)
  <2>1. short \in [few -> 1..n]
    BY <1>4
  <2>2. \A x, y \in few : short[x] = short[y] => x = y
    <3>1. \A x, y \in S : rank[x] = rank[y] => x = y
      <4> HIDE DEF rank
      <4> QED BY <1>3 DEF Bijection, Injection, IsInjective
    <3> QED BY <1>4, <3>1
  <2> HIDE DEF short, few
  <2> QED BY <2>1, <2>2 DEF Injection, IsInjective
<1>6. IsFiniteSet(1..n) /\ Cardinality(1..n) = n
  BY FS_Interval
<1>7. IsFiniteSet(few) /\ Cardinality(few) <= n
  <2>1. IsFiniteSet(few)
    BY <1>4, FS_Subset
  <2> HIDE DEF short, few
  <2> QED BY <1>5, <1>6, <2>1, FS_Injection
<1> QED BY <1>7

\* Which findings are kept.
Early(found) == {i \in DOMAIN found : Cardinality({k \in 1..(i - 1) : found[k].kind = found[i].kind}) < MaxPerKind}

\* Of a kind no more than MaxPerKind findings are kept.
LEMMA KeptFew ==
  ASSUME NEW S, NEW found \in Seq(S), NEW kind
  PROVE  Cardinality({i \in DOMAIN Kept(found) : Kept(found)[i].kind = kind}) <= MaxPerKind
<1> DEFINE K == Len(found)
           T == {i \in 1..K : found[i].kind = kind}
           few == {x \in T : Cardinality({y \in T : y < x}) < MaxPerKind}
           kept == Kept(found)
           A == {i \in DOMAIN kept : kept[i].kind = kind}
<1>1. K \in Nat /\ DOMAIN found = 1..K /\ Early(found) \subseteq 1..K
  BY DEF Early
<1>2. PICK place : Keeps(place, found, Early(found), kept)
  BY <1>1, FilteredKeeps DEF Kept, Early
<1>3. MaxPerKind \in Nat
  BY LimitsAssumption
<1>4. T \in SUBSET Int /\ IsFiniteSet(T)
  <2>1. IsFiniteSet(1..K)
    BY <1>1, FS_Interval
  <2>2. T \subseteq 1..K /\ T \in SUBSET Int
    BY <1>1
  <2> HIDE DEF T, K
  <2> QED BY <2>1, <2>2, FS_Subset
<1>5. IsFiniteSet(few) /\ Cardinality(few) <= MaxPerKind
  <2> HIDE DEF T
  <2> QED BY <1>3, <1>4, FirstFew
<1> HIDE DEF kept
<1>6. /\ DOMAIN kept = 1..Cardinality(Early(found))
      /\ \A i \in DOMAIN kept : place[i] \in Early(found) /\ kept[i] = found[place[i]]
      /\ \A i, k \in DOMAIN kept : place[i] = place[k] => i = k
  BY <1>2 DEF Keeps, Bijection, Injection, IsInjective
<1>7. ASSUME NEW i \in A PROVE place[i] \in few
  <2> DEFINE x == place[i]
  <2>1. x \in Early(found) /\ found[x].kind = kind
    BY <1>6
  <2>2. x \in 1..K /\ Cardinality({k \in 1..(x - 1) : found[k].kind = found[x].kind}) < MaxPerKind
    BY <1>1, <2>1 DEF Early
  <2> HIDE DEF x
  <2>3. {k \in 1..(x - 1) : found[k].kind = found[x].kind} = {y \in T : y < x}
    BY <1>1, <2>1, <2>2
  <2>4. x \in T
    BY <2>1, <2>2
  <2>5. x \in few
    BY <2>2, <2>3, <2>4
  <2> QED BY <2>5 DEF x
<1> DEFINE f == [i \in A |-> place[i]]
<1>8. f \in Injection(A, few)
  <2>1. f \in [A -> few]
    BY <1>7
  <2>2. \A i, k \in A : f[i] = f[k] => i = k
    BY <1>6
  <2> HIDE DEF f, A, few
  <2> QED BY <2>1, <2>2 DEF Injection, IsInjective
<1>9. Cardinality(A) <= Cardinality(few)
  <2> HIDE DEF f, A, few
  <2> QED BY <1>5, <1>8, FS_Injection
<1>10. Cardinality(A) \in Nat /\ Cardinality(few) \in Nat
  <2> HIDE DEF f, A, few
  <2>1. IsFiniteSet(A)
    BY <1>5, <1>8, FS_Injection
  <2> QED BY <1>5, <2>1, FS_CardinalityType
<1>11. Cardinality(A) <= MaxPerKind
  <2> HIDE DEF f, A, few
  <2> QED BY <1>3, <1>5, <1>9, <1>10
<1> QED BY <1>11 DEF kept

\* A list has a finding of a kind.
Has(found, kind) == \E i \in DOMAIN found : found[i].kind = kind

\* A kind that is found is kept.
LEMMA KeptHas ==
  ASSUME NEW S, NEW found \in Seq(S), NEW kind, Has(found, kind)
  PROVE  Has(Kept(found), kind)
<1> DEFINE K == Len(found)
           T == {i \in 1..K : found[i].kind = kind}
           kept == Kept(found)
<1>1. K \in Nat /\ DOMAIN found = 1..K /\ Early(found) \subseteq 1..K
  BY DEF Early
<1>2. PICK place : Keeps(place, found, Early(found), kept)
  BY <1>1, FilteredKeeps DEF Kept, Early
<1>3. T # {} /\ T \subseteq 1..K
  BY <1>1 DEF Has
<1>4. PICK x \in T : \A y \in T : x <= y
  <2>1. T \subseteq Nat
    BY <1>1, <1>3
  <2> HIDE DEF T
  <2> QED BY <1>3, <2>1, FirstPlace
<1>5. {k \in 1..(x - 1) : found[k].kind = found[x].kind} = {}
  BY <1>1, <1>4
<1>6. x \in Early(found)
  <2>1. x \in DOMAIN found
    BY <1>1, <1>4
  <2>2. MaxPerKind \in Nat /\ MaxPerKind > 0
    BY LimitsAssumption
  <2>3. Cardinality({k \in 1..(x - 1) : found[k].kind = found[x].kind}) < MaxPerKind
    BY <1>5, <2>2, FS_EmptySet
  <2> QED BY <2>1, <2>3 DEF Early
<1> HIDE DEF kept
<1>7. PICK i \in 1..Cardinality(Early(found)) : place[i] = x
  BY <1>2, <1>6 DEF Keeps, Bijection, Surjection
<1>8. i \in DOMAIN kept /\ kept[i] = found[x]
  BY <1>2, <1>7 DEF Keeps
<1> QED BY <1>4, <1>8 DEF Has, kept

\* The findings of a page, and what is true of a list of them: for its scrolling sideways the culprit is
\* named, what is said to be covered is, a field without a label is one, and no field is reported twice for
\* that.
HealthKinds ==
    {"broken_image", "horizontal_overflow", "overlapping_elements", "cut_off_text", "missing_label", "unclear_button",
     "missing_alt", "missing_lang", "missing_title", "duplicate_id", "keyboard_order", "slow_page"}
Severities == {"low", "medium", "high"}
FindingType(p) ==
    {f \in [kind : HealthKinds, severity : Severities, at : Nat \cup {Culprit(p)}] :
        f.kind = "horizontal_overflow" => f.at = Culprit(p) /\ p.scroll > p.width + 1}
Sound(p, found) ==
    /\ found \in Seq(FindingType(p))
    /\ \A i \in DOMAIN found : found[i].kind = "overlapping_elements" => Covered(p, found[i].at)
    /\ \A i \in DOMAIN found : found[i].kind = "missing_label" => found[i].at \in Unlabelled(p)
    /\ \A i, k \in DOMAIN found :
         found[i].kind = "missing_label" /\ found[k].kind = "missing_label" /\ found[i].at = found[k].at => i = k

-----------------------------------------------------------------------------
(* What is blamed for a page that scrolls sideways. *)

\* The elements of a page hang on earlier ones.
Rooted(p, N) ==
    /\ DOMAIN p.elements = 1..N /\ Len(p.elements) = N
    /\ \A e \in 1..N : p.elements[e].up \in 0..(e - 1)

LEMMA AroundIs ==
  ASSUME NEW p, NEW N \in Nat, Rooted(p, N)
  PROVE  /\ Around(p, 0) = {} /\ \A e \in 1..N : Around(p, e) = {e} \cup Around(p, p.elements[e].up)
         /\ \A e \in 0..N : Around(p, e) \subseteq 1..e
<1> DEFINE V == SUBSET (1..N)
           up == [n \in 1..N |-> p.elements[n].up]
           T == [n \in 1..N |-> [S \in V |-> {n} \cup S]]
           g == CHOOSE f : f = [n \in 0..N |-> IF n = 0 THEN {} ELSE {n} \cup f[p.elements[n].up]]
<1>1. \A n \in 1..N : up[n] \in 0..(n - 1)
  BY DEF Rooted
<1>2. T \in [1..N -> [V -> V]] /\ {} \in V
  OBVIOUS
<1>3. PICK h : IsGrown(h, N, V, {}, T, up)
  <2> HIDE DEF V, up, T
  <2> QED BY <1>1, <1>2, Grown
<1>4. h \in [0..N -> V] /\ h[0] = {} /\ \A n \in 1..N : h[n] = {n} \cup h[p.elements[n].up]
  <2>1. \A n \in 1..N : p.elements[n].up \in 0..N /\ up[n] = p.elements[n].up
    BY <1>1
  <2>2. h \in [0..N -> V] /\ h[0] = {} /\ \A n \in 1..N : h[n] = T[n][h[up[n]]]
    BY <1>3 DEF IsGrown
  <2>3. \A n \in 1..N, S \in V : T[n][S] = {n} \cup S
    OBVIOUS
  <2> HIDE DEF T, V, up
  <2>4. \A n \in 1..N : h[p.elements[n].up] \in V
    BY <2>1, <2>2
  <2> QED BY <2>1, <2>2, <2>3, <2>4
<1>5. h = [n \in 0..N |-> IF n = 0 THEN {} ELSE {n} \cup h[p.elements[n].up]]
  BY <1>4
<1>6. g = [n \in 0..N |-> IF n = 0 THEN {} ELSE {n} \cup g[p.elements[n].up]]
  <2> HIDE DEF V, up, T
  <2> QED BY <1>5
<1>7. \A e : Around(p, e) = g[e]
  BY DEF Around, Rooted
<1> HIDE DEF g
<1>8. Around(p, 0) = {} /\ \A e \in 1..N : Around(p, e) = {e} \cup Around(p, p.elements[e].up)
  <2>1. \A e \in 1..N : p.elements[e].up \in 0..N /\ e \in 0..N /\ e # 0
    BY <1>1
  <2>2. g[0] = {}
    BY <1>6
  <2>3. \A e \in 1..N : g[e] = {e} \cup g[p.elements[e].up]
    BY <1>6, <2>1
  <2> QED BY <1>7, <2>2, <2>3
<1> DEFINE Good == {e \in 0..N : Around(p, e) \subseteq 1..e}
<1>9. 0 \in Good
  BY <1>8
<1>10. ASSUME NEW n \in 1..N, up[n] \in Good PROVE n \in Good
  BY <1>1, <1>8, <1>10
<1>11. \A e \in 0..N : e \in Good
  <2> HIDE DEF Good, up
  <2> QED BY <1>1, <1>9, <1>10, UpFrom
<1> QED BY <1>8, <1>11

\* What an element is in is less deep than it.
LEMMA Deeper ==
  ASSUME NEW p, NEW N \in Nat, Rooted(p, N)
  PROVE  /\ \A e \in 0..N : Cardinality(Around(p, e)) \in Nat
         /\ \A f \in 0..N : \A e \in Around(p, f) \ {f} : Cardinality(Around(p, e)) < Cardinality(Around(p, f))
<1> DEFINE up == [n \in 1..N |-> p.elements[n].up]
           Good == {f \in 0..N : \A e \in Around(p, f) : Around(p, e) \subseteq Around(p, f)}
<1>1. \A n \in 1..N : up[n] \in 0..(n - 1) /\ up[n] = p.elements[n].up
  BY DEF Rooted
<1>2. /\ Around(p, 0) = {} /\ \A e \in 1..N : Around(p, e) = {e} \cup Around(p, p.elements[e].up)
      /\ \A e \in 0..N : Around(p, e) \subseteq 1..e
  BY AroundIs
<1>3. \A e \in 0..N : IsFiniteSet(Around(p, e)) /\ Cardinality(Around(p, e)) \in Nat
  <2> TAKE e \in 0..N
  <2>1. IsFiniteSet(1..e)
    BY FS_Interval
  <2> QED BY <1>2, <2>1, FS_Subset, FS_CardinalityType
<1>4. 0 \in Good
  BY <1>2
<1>5. ASSUME NEW n \in 1..N, up[n] \in Good PROVE n \in Good
  <2>1. Around(p, n) = {n} \cup Around(p, up[n])
    BY <1>1, <1>2
  <2>2. \A e \in Around(p, up[n]) : Around(p, e) \subseteq Around(p, up[n])
    BY <1>5
  <2> QED BY <2>1, <2>2
<1>6. \A f \in 0..N : f \in Good
  <2> HIDE DEF Good, up
  <2> QED BY <1>1, <1>4, <1>5, UpFrom
<1>7. ASSUME NEW f \in 0..N, NEW e \in Around(p, f) \ {f} PROVE Cardinality(Around(p, e)) < Cardinality(Around(p, f))
  <2>1. e \in 1..f /\ e # f /\ f \in 1..N /\ e \in 0..N
    BY <1>2
  <2>2. Around(p, e) \subseteq Around(p, f) /\ f \in Around(p, f)
    BY <1>2, <1>6, <2>1
  <2>3. f \notin Around(p, e)
    BY <1>2, <2>1
  <2>4. Cardinality(Around(p, e) \cup {f}) = Cardinality(Around(p, e)) + 1
    BY <1>3, <2>1, <2>3, FS_AddElement
  <2>5. Cardinality(Around(p, e) \cup {f}) <= Cardinality(Around(p, f))
    BY <1>3, <2>2, FS_Subset
  <2> QED BY <1>3, <2>1, <2>4, <2>5
<1> QED BY <1>3, <1>7

\* The reasons an offender has, as numbers: a better cause, being deeper, being wider, coming first.
LEMMA LikelierIs ==
  ASSUME NEW p, NEW a \in Int, NEW b \in Int, Cause(p, a) \in Int, Cause(p, b) \in Int,
         Cardinality(Around(p, a)) \in Int, Cardinality(Around(p, b)) \in Int,
         p.elements[a].width \in Int, p.elements[b].width \in Int
  PROVE  Likelier(p, a, b) <=>
           \/ Cause(p, a) > Cause(p, b)
           \/ /\ Cause(p, a) = Cause(p, b)
              /\ \/ Cardinality(Around(p, a)) > Cardinality(Around(p, b))
                 \/ /\ Cardinality(Around(p, a)) = Cardinality(Around(p, b))
                    /\ \/ p.elements[a].width > p.elements[b].width
                       \/ p.elements[a].width = p.elements[b].width /\ a < b
<1> DEFINE x == <<Cause(p, a), Cardinality(Around(p, a)), p.elements[a].width, -a>>
           y == <<Cause(p, b), Cardinality(Around(p, b)), p.elements[b].width, -b>>
<1>1. Likelier(p, a, b) <=> \E i \in 1..4 : x[i] > y[i] /\ \A k \in 1..(i - 1) : x[k] = y[k]
  BY DEF Likelier
<1>2. /\ x[1] = Cause(p, a) /\ x[2] = Cardinality(Around(p, a)) /\ x[3] = p.elements[a].width /\ x[4] = -a
      /\ y[1] = Cause(p, b) /\ y[2] = Cardinality(Around(p, b)) /\ y[3] = p.elements[b].width /\ y[4] = -b
  OBVIOUS
<1> HIDE DEF x, y
<1>3. (\E i \in 1..4 : x[i] > y[i] /\ \A k \in 1..(i - 1) : x[k] = y[k]) <=>
        \/ x[1] > y[1]
        \/ x[1] = y[1] /\ x[2] > y[2]
        \/ x[1] = y[1] /\ x[2] = y[2] /\ x[3] > y[3]
        \/ x[1] = y[1] /\ x[2] = y[2] /\ x[3] = y[3] /\ x[4] > y[4]
  <2>1. 1..4 = {1, 2, 3, 4} /\ 1..(1 - 1) = {} /\ 1..(2 - 1) = {1} /\ 1..(3 - 1) = {1, 2} /\ 1..(4 - 1) = {1, 2, 3}
    OBVIOUS
  <2> QED BY <2>1
<1> QED BY <1>1, <1>2, <1>3

\* Sets of elements are finite, and so are sets of controls.
LEMMA ScreenSets ==
  ASSUME NEW s \in Screens
  PROVE  /\ \A set : set \subseteq DOMAIN s.page.elements => set \in SUBSET Nat /\ IsFiniteSet(set)
         /\ \A set : set \subseteq DOMAIN s.form => set \in SUBSET Nat /\ IsFiniteSet(set)
<1>1. ASSUME NEW S, NEW q \in Seq(S), NEW set, set \subseteq DOMAIN q PROVE set \in SUBSET Nat /\ IsFiniteSet(set)
  <2>1. Len(q) \in Nat /\ DOMAIN q = 1..Len(q)
    OBVIOUS
  <2>2. IsFiniteSet(1..Len(q))
    BY <2>1, FS_Interval
  <2>3. IsFiniteSet(set)
    BY <1>1, <2>1, <2>2, FS_Subset
  <2>4. set \in SUBSET Nat
    BY <1>1, <2>1
  <2> QED BY <2>3, <2>4
<1>2. s.page.elements \in Seq(ElementType) /\ s.form \in Seq(ControlType)
  BY HealthAssumption
<1> QED BY <1>1, <1>2

\* On a page that is laid out as it should be, the one that is blamed is wide by itself: the offenders
\* are ordered, so that one is likelier than all others, and what is stretched or fills is not that one.
LEMMA CulpritIsWide ==
  ASSUME NEW s \in Screens, Stretches(s.page), s.page.scroll > s.page.width + 1
  PROVE  Culprit(s.page) \in s.page.wide
<1> DEFINE p == s.page
           N == Len(p.elements)
           loose == Offenders(p) \ OfKind(p, {"cell"})
           before == [e \in loose |-> {f \in loose : Likelier(p, f, e)}]
           depth(e) == Cardinality(Around(p, e))
<1>1. p.elements \in Seq(ElementType) /\ N \in Nat /\ DOMAIN p.elements = 1..N
  BY HealthAssumption
<1>2. \A e \in 1..N : p.elements[e] \in ElementType
  BY <1>1
<1>3. Rooted(p, N)
  <2>1. \A e \in 1..N : p.elements[e].up \in Nat /\ p.elements[e].up < e
    BY <1>1, <1>2, HealthAssumption DEF ElementType
  <2> QED BY <1>1, <2>1 DEF Rooted
<1>4. loose \subseteq 1..N /\ IsFiniteSet(loose) /\ loose # {}
  <2>1. loose \subseteq DOMAIN p.elements
    BY DEF Offenders
  <2>2. loose # {}
    BY DEF Stretches
  <2> QED BY <1>1, <2>1, <2>2, ScreenSets
<1>5. ASSUME NEW e \in 1..N
      PROVE  Cause(p, e) \in Int /\ depth(e) \in Nat /\ p.elements[e].width \in Int
  <2>1. depth(e) \in Nat
    BY <1>1, <1>3, Deeper
  <2>2. p.elements[e].width \in Int
    BY <1>2 DEF ElementType
  <2>3. Cause(p, e) \in Int
    BY DEF Cause
  <2> QED BY <2>1, <2>2, <2>3
<1> DEFINE Prior(a, b) ==
             \/ Cause(p, a) > Cause(p, b)
             \/ /\ Cause(p, a) = Cause(p, b)
                /\ \/ depth(a) > depth(b)
                   \/ /\ depth(a) = depth(b)
                      /\ \/ p.elements[a].width > p.elements[b].width
                         \/ p.elements[a].width = p.elements[b].width /\ a < b
<1>6. \A a, b \in 1..N : Likelier(p, a, b) <=> Prior(a, b)
  <2> TAKE a, b \in 1..N
  <2>1. a \in Int /\ b \in Int
    OBVIOUS
  <2>2. depth(a) \in Int /\ depth(b) \in Int /\ Cause(p, a) \in Int /\ Cause(p, b) \in Int
        /\ p.elements[a].width \in Int /\ p.elements[b].width \in Int
    BY <1>5
  <2> QED BY <2>1, <2>2, LikelierIs
<1>7. Orders(before, loose)
  <2> DEFINE c == [e \in 1..N |-> Cause(p, e)]
             d == [e \in 1..N |-> depth(e)]
             w == [e \in 1..N |-> p.elements[e].width]
             Num(a, b) == c[a] > c[b] \/ (c[a] = c[b] /\ (d[a] > d[b] \/ (d[a] = d[b] /\ (w[a] > w[b] \/ (w[a] = w[b] /\ a < b)))))
  <2>1. c \in [1..N -> Int] /\ d \in [1..N -> Int] /\ w \in [1..N -> Int]
    BY <1>5
  <2>2. \A a, b \in loose : Likelier(p, a, b) <=> Num(a, b)
    <3> HIDE DEF depth, loose
    <3> QED BY <1>4, <1>6
  <2> HIDE DEF c, d, w, loose
  <2>3. \A a \in loose : ~Num(a, a)
    <3>1. \A i \in loose : i \in Int /\ c[i] \in Int /\ d[i] \in Int /\ w[i] \in Int
      BY <1>4, <2>1
    <3> QED BY <3>1
  <2>4. \A a, b \in loose : a # b => Num(a, b) \/ Num(b, a)
    <3>1. \A i \in loose : i \in Int /\ c[i] \in Int /\ d[i] \in Int /\ w[i] \in Int
      BY <1>4, <2>1
    <3> QED BY <3>1
  <2>5. ASSUME NEW x \in loose, NEW y \in loose, NEW z \in loose, Num(x, y), Num(y, z) PROVE Num(x, z)
    <3>1. \A i \in loose : i \in Int /\ c[i] \in Int /\ d[i] \in Int /\ w[i] \in Int
      <4>1. \A i \in loose : i \in 1..N
        BY <1>4
      <4> QED BY <2>1, <4>1
    <3>2. c[x] >= c[y] /\ c[y] >= c[z]
      BY <2>5, <3>1
    <3>3. CASE c[x] > c[z]
      BY <3>3
    <3>4. CASE c[x] = c[y] /\ c[y] = c[z]
      <4>1. d[x] >= d[y] /\ d[y] >= d[z]
        BY <2>5, <3>1, <3>4
      <4>2. CASE d[x] > d[z]
        BY <3>4, <4>2
      <4>3. CASE d[x] = d[y] /\ d[y] = d[z]
        BY <2>5, <3>1, <3>4, <4>3
      <4> QED BY <3>1, <4>1, <4>2, <4>3
    <3> QED BY <3>1, <3>2, <3>3, <3>4
  <2> HIDE DEF Num
  <2>6. /\ before \in [loose -> SUBSET loose]
        /\ \A a, b \in loose : a \in before[b] <=> Num(a, b)
    BY <2>2
  <2> HIDE DEF before
  <2> QED BY <2>3, <2>4, <2>5, <2>6 DEF Orders
<1> DEFINE M == Cardinality(loose)
           order == InOrder(before)
<1>8. M \in Nat /\ 1 \in 1..M
  <2>1. M \in Nat /\ M # 0
    BY <1>4, FS_CardinalityType, FS_EmptySet
  <2> QED BY <2>1
<1>9. order \in Bijection(1..M, loose) /\ \A m, n \in 1..M : m < n <=> order[m] \in before[order[n]]
  <2> HIDE DEF before, loose
  <2> QED BY <1>4, <1>7, InOrderIsOrder
<1> HIDE DEF M, order
<1>10. order[1] \in loose /\ \A f \in loose \ {order[1]} : Likelier(p, order[1], f)
  <2>1. order[1] \in loose
    BY <1>8, <1>9 DEF Bijection, Injection
  <2>2. ASSUME NEW f \in loose \ {order[1]} PROVE Likelier(p, order[1], f)
    <3>1. PICK n \in 1..M : order[n] = f
      BY <1>9 DEF Bijection, Surjection
    <3>2. 1 < n
      BY <1>8, <3>1
    <3>3. order[1] \in before[order[n]]
      BY <1>8, <1>9, <3>2
    <3> QED BY <3>1, <3>3
  <2> QED BY <2>1, <2>2
<1> DEFINE e == Culprit(p)
<1>11. e \in loose /\ \A f \in loose \ {e} : Likelier(p, e, f)
  <2>1. e = CHOOSE x \in loose : \A f \in loose \ {x} : Likelier(p, x, f)
    BY <1>4 DEF Culprit
  <2> HIDE DEF loose, e
  <2> QED BY <1>10, <2>1
<1> HIDE DEF e, before
<1> SUFFICES ASSUME e \notin p.wide PROVE FALSE
  BY DEF e
<1>12. PICK f \in loose :
         \/ e # f /\ e \in Around(p, f) /\ Cause(p, e) <= Cause(p, f)
         \/ Cause(p, e) < Cause(p, f)
  <2> DEFINE Firm(x) == p.elements[x].needs > p.width \/ p.elements[x].kind \in {"table", "img", "pre"}
             Lifted(x) == \E f \in loose \cap p.wide : f # x /\ x \in Around(p, f) /\ Firm(f)
             Fills(x) == Fits(p, x) /\ ~Firm(x)
                           /\ \E f \in loose \ {x} : f \in Around(p, x) /\ (f \in p.wide \/ Lifted(f))
  <2>1. /\ \A x \in loose \cap p.wide : Firm(x) \/ ~Fits(p, x)
        /\ \A x \in loose \ p.wide : p.elements[x].needs <= p.width /\ (Lifted(x) \/ Fills(x))
    BY DEF Stretches
  <2>2. e \in loose \ p.wide
    BY <1>11
  <2>3. \A x \in loose : p.elements[x].kind # "cell" /\ p.elements[x].needs \in Nat /\ p.width \in Nat
    <3>1. \A x \in loose : p.elements[x].kind # "cell"
      BY DEF OfKind, Offenders
    <3>2. p.width \in Nat
      BY HealthAssumption
    <3>3. \A x \in 1..N : p.elements[x].needs \in Nat
      BY <1>2 DEF ElementType
    <3> HIDE DEF p, N, loose
    <3> QED BY <1>4, <3>1, <3>2, <3>3
  <2>4. \A x \in loose : Firm(x) => Cause(p, x) >= 2
    <3> HIDE DEF p, loose
    <3> QED BY <2>3 DEF Cause
  <2>5. \A x \in loose : ~Fits(p, x) => Cause(p, x) >= 1
    <3> HIDE DEF p, loose
    <3> QED BY <2>3 DEF Cause
  <2>6. \A x \in loose : p.elements[x].needs <= p.width => Cause(p, x) <= 2
    <3> HIDE DEF p, loose
    <3> QED BY <2>3 DEF Cause
  <2>7. \A x \in loose : Fits(p, x) /\ ~Firm(x) => Cause(p, x) = 0
    <3> HIDE DEF p, loose
    <3> QED BY <2>3 DEF Cause
  <2>8. \A x \in loose : Cause(p, x) \in Int
    BY <1>4, <1>5
  <2>9. CASE Lifted(e)
    <3>1. PICK f \in loose \cap p.wide : f # e /\ e \in Around(p, f) /\ Firm(f)
      BY <2>9
    <3>2. Cause(p, f) >= 2 /\ Cause(p, e) <= 2
      <4> HIDE DEF p, loose, Firm, Lifted, Fills
      <4> QED BY <2>1, <2>2, <2>4, <2>6, <3>1
    <3> HIDE DEF p, loose, Firm
    <3> QED BY <2>2, <2>8, <3>1, <3>2
  <2>10. CASE Fills(e)
    <3>1. PICK f \in loose \ {e} : f \in Around(p, e) /\ (f \in p.wide \/ Lifted(f))
      BY <2>10
    <3>2. Cause(p, e) = 0
      <4>1. Fits(p, e) /\ ~Firm(e)
        BY <2>10
      <4> HIDE DEF p, loose, Firm, Lifted, Fills
      <4> QED BY <2>2, <2>7, <4>1
    <3>3. CASE f \in p.wide
      <4>1. Cause(p, f) >= 1
        <5> HIDE DEF p, loose, Firm, Lifted, Fills
        <5> QED BY <2>1, <2>4, <2>5, <2>8, <3>1, <3>3
      <4> HIDE DEF p, loose, Firm, Lifted, Fills
      <4> QED BY <2>8, <3>1, <3>2, <4>1
    <3>4. CASE Lifted(f)
      <4>1. PICK g \in loose \cap p.wide : g # f /\ f \in Around(p, g) /\ Firm(g)
        BY <3>4
      <4>2. Cause(p, g) >= 2
        <5> HIDE DEF p, loose, Firm, Lifted, Fills
        <5> QED BY <2>4, <4>1
      <4> HIDE DEF p, loose, Firm, Lifted, Fills
      <4> QED BY <2>8, <3>2, <4>1, <4>2
    <3> QED BY <3>1, <3>3, <3>4
  <2> HIDE DEF loose, p, Firm, Lifted, Fills
  <2> QED BY <2>1, <2>2, <2>9, <2>10
<1> HIDE DEF loose
<1>13. e \in 1..N /\ f \in 1..N /\ e \in 0..N /\ f \in 0..N
  BY <1>4, <1>11
<1>14. Cause(p, e) \in Int /\ Cause(p, f) \in Int /\ depth(e) \in Nat /\ depth(f) \in Nat
  BY <1>5, <1>13
<1>15. e # f
  BY <1>12, <1>14
<1>16. Prior(e, f)
  BY <1>6, <1>11, <1>13, <1>15
<1>17. CASE e \in Around(p, f) /\ Cause(p, e) <= Cause(p, f)
  <2>1. depth(e) < depth(f)
    BY <1>1, <1>3, <1>13, <1>15, <1>17, Deeper
  <2> HIDE DEF depth
  <2> QED BY <1>14, <1>16, <1>17, <2>1
<1>18. CASE Cause(p, e) < Cause(p, f)
  <2> HIDE DEF depth
  <2> QED BY <1>14, <1>16, <1>18
<1> QED BY <1>12, <1>17, <1>18

\* Part of a sound list, in whatever order, is sound.
LEMMA SoundPart ==
  ASSUME NEW p, NEW found, Sound(p, found), NEW n \in Nat, NEW place, \A i \in 1..n : place[i] \in DOMAIN found,
         \A i, k \in 1..n : place[i] = place[k] => i = k
  PROVE  /\ Sound(p, [i \in 1..n |-> found[place[i]]])
         /\ \A kind : Has([i \in 1..n |-> found[place[i]]], kind) => Has(found, kind)
<1> DEFINE part == [i \in 1..n |-> found[place[i]]]
<1>1. found \in Seq(FindingType(p)) /\ \A i \in DOMAIN found : found[i] \in FindingType(p)
  BY DEF Sound
<1>2. part \in [1..n -> FindingType(p)] /\ DOMAIN part = 1..n /\ \A i \in 1..n : part[i] = found[place[i]]
  BY <1>1
<1> HIDE DEF part
<1>3. part \in Seq(FindingType(p))
  BY <1>2, FunctionIsSeq
<1>4. \A i \in DOMAIN part : part[i].kind = "overlapping_elements" => Covered(p, part[i].at)
  BY <1>2 DEF Sound
<1>5. \A i \in DOMAIN part : part[i].kind = "missing_label" => part[i].at \in Unlabelled(p)
  BY <1>2 DEF Sound
<1>6. \A i, k \in DOMAIN part :
        part[i].kind = "missing_label" /\ part[k].kind = "missing_label" /\ part[i].at = part[k].at => i = k
  <2> TAKE i, k \in DOMAIN part
  <2>1. part[i] = found[place[i]] /\ part[k] = found[place[k]] /\ place[i] \in DOMAIN found /\ place[k] \in DOMAIN found
    BY <1>2
  <2>2. place[i] = place[k] => i = k
    BY <1>2
  <2> QED BY <2>1, <2>2 DEF Sound
<1>7. \A kind : Has(part, kind) => Has(found, kind)
  BY <1>2 DEF Has
<1>8. Sound(p, part)
  BY <1>3, <1>4, <1>5, <1>6 DEF Sound
<1> QED BY <1>7, <1>8 DEF part

\* Two sound lists, one of which has no fields without a label.
LEMMA SoundConcat ==
  ASSUME NEW p, NEW s, Sound(p, s), NEW t, Sound(p, t), ~Has(s, "missing_label") \/ ~Has(t, "missing_label")
  PROVE  Sound(p, s \o t)
<1> DEFINE m == Len(s)  n == Len(t)  q == s \o t
<1>1. /\ q \in Seq(FindingType(p)) /\ m \in Nat /\ n \in Nat /\ DOMAIN s = 1..m /\ DOMAIN t = 1..n /\ DOMAIN q = 1..(m + n)
      /\ \A i \in 1..(m + n) : q[i] = IF i <= m THEN s[i] ELSE t[i - m]
  BY ConcatProperties DEF Sound
<1> HIDE DEF q, m, n
<1>2. ASSUME NEW i \in 1..(m + n)
      PROVE  (i <= m /\ i \in DOMAIN s /\ q[i] = s[i]) \/ (i > m /\ i - m \in DOMAIN t /\ q[i] = t[i - m])
  BY <1>1
<1>3. \A i \in DOMAIN q : q[i].kind = "overlapping_elements" => Covered(p, q[i].at)
  BY <1>1, <1>2 DEF Sound
<1>4. \A i \in DOMAIN q : q[i].kind = "missing_label" => q[i].at \in Unlabelled(p)
  BY <1>1, <1>2 DEF Sound
<1>5. ASSUME NEW i \in 1..(m + n), NEW k \in 1..(m + n), q[i].kind = "missing_label", q[k].kind = "missing_label", q[i].at = q[k].at
      PROVE  i = k
  <2>1. CASE i <= m /\ k <= m
    <3>1. i \in DOMAIN s /\ k \in DOMAIN s /\ q[i] = s[i] /\ q[k] = s[k]
      BY <1>1, <2>1
    <3> QED BY <1>5, <3>1 DEF Sound
  <2>2. CASE i > m /\ k > m
    <3>1. i - m \in DOMAIN t /\ k - m \in DOMAIN t /\ q[i] = t[i - m] /\ q[k] = t[k - m]
      BY <1>1, <2>2
    <3>2. i - m = k - m
      BY <1>5, <3>1 DEF Sound
    <3> QED BY <1>1, <3>2
  <2>3. CASE (i <= m /\ k > m) \/ (i > m /\ k <= m)
    <3>1. \A x \in {i, k} : x <= m => Has(s, "missing_label")
      <4> TAKE x \in {i, k}
      <4>1. x <= m => x \in DOMAIN s /\ q[x] = s[x]
        BY <1>1
      <4>2. q[x].kind = "missing_label"
        BY <1>5
      <4> QED BY <4>1, <4>2 DEF Has
    <3>2. \A x \in {i, k} : x > m => Has(t, "missing_label")
      <4> TAKE x \in {i, k}
      <4>1. x > m => x - m \in DOMAIN t /\ q[x] = t[x - m]
        BY <1>1
      <4>2. q[x].kind = "missing_label"
        BY <1>5
      <4> QED BY <4>1, <4>2 DEF Has
    <3> QED BY <2>3, <3>1, <3>2
  <2> QED BY <1>1, <2>1, <2>2, <2>3
<1> QED BY <1>1, <1>3, <1>4, <1>5 DEF Sound, q

\* What two lists have, together.
LEMMA HasConcat ==
  ASSUME NEW S, NEW s \in Seq(S), NEW t \in Seq(S), NEW kind
  PROVE  Has(s \o t, kind) <=> Has(s, kind) \/ Has(t, kind)
<1> DEFINE m == Len(s)  n == Len(t)  q == s \o t
<1>1. /\ m \in Nat /\ n \in Nat /\ DOMAIN s = 1..m /\ DOMAIN t = 1..n /\ DOMAIN q = 1..(m + n)
      /\ \A i \in 1..(m + n) : q[i] = IF i <= m THEN s[i] ELSE t[i - m]
  BY ConcatProperties
<1> HIDE DEF q, m, n
<1>2. ASSUME Has(q, kind) PROVE Has(s, kind) \/ Has(t, kind)
  <2>1. PICK i \in 1..(m + n) : q[i].kind = kind
    BY <1>1, <1>2 DEF Has
  <2>2. (i \in 1..m /\ q[i] = s[i]) \/ (i - m \in 1..n /\ q[i] = t[i - m])
    BY <1>1
  <2> QED BY <1>1, <2>1, <2>2 DEF Has
<1>3. ASSUME Has(s, kind) PROVE Has(q, kind)
  <2>1. PICK i \in 1..m : s[i].kind = kind
    BY <1>1, <1>3 DEF Has
  <2>2. i \in 1..(m + n) /\ q[i] = s[i]
    BY <1>1
  <2> QED BY <1>1, <2>1, <2>2 DEF Has
<1>4. ASSUME Has(t, kind) PROVE Has(q, kind)
  <2>1. PICK i \in 1..n : t[i].kind = kind
    BY <1>1, <1>4 DEF Has
  <2>2. m + i \in 1..(m + n) /\ ~(m + i <= m) /\ (m + i) - m = i
    BY <1>1
  <2>3. q[m + i] = t[i]
    BY <1>1, <2>2
  <2> QED BY <1>1, <2>1, <2>2, <2>3 DEF Has
<1> QED BY <1>2, <1>3, <1>4 DEF q

\* Elements that may be reported for something.
FaultySet(p, kind, set) ==
    /\ kind \in HealthKinds /\ kind # "horizontal_overflow"
    /\ set \in SUBSET Nat /\ IsFiniteSet(set)
    /\ kind = "overlapping_elements" => \A e \in set : Covered(p, e)
    /\ kind = "missing_label" => set \subseteq Unlabelled(p)

\* The findings of one kind at the elements of a set.
LEMMA SetIsSound ==
  ASSUME NEW p, NEW kind, NEW set, FaultySet(p, kind, set), NEW severity, \A i \in DOMAIN Ascending(set) : severity[i] \in Severities
  PROVE  LET list == [i \in DOMAIN Ascending(set) |-> Finding(kind, severity[i], Ascending(set)[i])]
         IN  Sound(p, list) /\ \A other : Has(list, other) => other = kind
<1> DEFINE at == Ascending(set)
           N == Cardinality(set)
           list == [i \in DOMAIN at |-> Finding(kind, severity[i], at[i])]
<1>1. N \in Nat /\ at \in Bijection(1..N, set)
  <2>1. set \in SUBSET Int /\ IsFiniteSet(set)
    BY DEF FaultySet
  <2> QED BY <2>1, AscendingRises
<1> HIDE DEF at, N
<1>2. DOMAIN at = 1..N /\ (\A i \in 1..N : at[i] \in set) /\ \A i, k \in 1..N : at[i] = at[k] => i = k
  BY <1>1 DEF Bijection, Injection, IsInjective
<1>3. \A i \in 1..N : list[i] = Finding(kind, severity[i], at[i]) /\ severity[i] \in Severities /\ at[i] \in Nat
  BY <1>2 DEF at, FaultySet
<1>4. DOMAIN list = 1..N /\ \A i \in 1..N : list[i] \in FindingType(p) /\ list[i].kind = kind /\ list[i].at = at[i]
  BY <1>2, <1>3 DEF Finding, FindingType, FaultySet
<1>5. list \in [1..N -> FindingType(p)]
  BY <1>2, <1>4
<1> HIDE DEF list
<1>6. list \in Seq(FindingType(p))
  BY <1>1, <1>5, FunctionIsSeq
<1>7. Sound(p, list)
  <2>1. \A i \in DOMAIN list : list[i].kind = kind /\ list[i].at \in set
    BY <1>2, <1>4
  <2>2. \A i \in DOMAIN list : list[i].kind = "overlapping_elements" => Covered(p, list[i].at)
    BY <2>1 DEF FaultySet
  <2>3. \A i \in DOMAIN list : list[i].kind = "missing_label" => list[i].at \in Unlabelled(p)
    BY <2>1 DEF FaultySet
  <2>4. \A i, k \in DOMAIN list : list[i].at = list[k].at => i = k
    BY <1>2, <1>4
  <2> QED BY <1>6, <2>2, <2>3, <2>4 DEF Sound
<1>8. \A other : Has(list, other) => other = kind
  BY <1>4 DEF Has
<1> QED BY <1>7, <1>8 DEF list, at

LEMMA FoundIsSound ==
  ASSUME NEW p, NEW kind, NEW severity \in Severities, NEW set, FaultySet(p, kind, set)
  PROVE  Sound(p, Found(kind, severity, set)) /\ \A other : Has(Found(kind, severity, set), other) => other = kind
<1> DEFINE sev == [i \in DOMAIN Ascending(set) |-> severity]
           list == [i \in DOMAIN Ascending(set) |-> Finding(kind, sev[i], Ascending(set)[i])]
<1>1. \A i \in DOMAIN Ascending(set) : sev[i] = severity /\ sev[i] \in Severities
  OBVIOUS
<1>2. Found(kind, severity, set) = list
  BY <1>1 DEF Found
<1> HIDE DEF sev
<1>3. Sound(p, list) /\ \A other : Has(list, other) => other = kind
  BY <1>1, SetIsSound
<1> QED BY <1>2, <1>3

\* No finding, or one that no element has to answer for.
LEMMA OneIsSound ==
  ASSUME NEW p
  PROVE  /\ Sound(p, <<>>) /\ \A other : ~Has(<<>>, other)
         /\ \A kind \in HealthKinds \ {"overlapping_elements", "missing_label"}, severity \in Severities, at \in {0, Culprit(p)} :
              (kind = "horizontal_overflow" => at = Culprit(p) /\ p.scroll > p.width + 1) =>
              /\ Sound(p, <<Finding(kind, severity, at)>>)
              /\ \A other : Has(<<Finding(kind, severity, at)>>, other) => other = kind
<1>1. Sound(p, <<>>) /\ \A other : ~Has(<<>>, other)
  BY DEF Sound, Has
<1>2. ASSUME NEW kind \in HealthKinds \ {"overlapping_elements", "missing_label"}, NEW severity \in Severities, NEW at \in {0, Culprit(p)},
             kind = "horizontal_overflow" => at = Culprit(p) /\ p.scroll > p.width + 1
      PROVE  /\ Sound(p, <<Finding(kind, severity, at)>>)
             /\ \A other : Has(<<Finding(kind, severity, at)>>, other) => other = kind
  <2> DEFINE f == Finding(kind, severity, at)
  <2>1. f \in FindingType(p) /\ f.kind = kind
    BY <1>2 DEF Finding, FindingType
  <2> HIDE DEF f
  <2>2. <<f>> \in Seq(FindingType(p)) /\ DOMAIN <<f>> = {1} /\ <<f>>[1] = f
    BY <2>1
  <2>3. \A i \in DOMAIN <<f>> : <<f>>[i].kind = kind /\ i = 1
    BY <2>1, <2>2
  <2>4. Sound(p, <<f>>)
    BY <2>2, <2>3 DEF Sound
  <2>5. \A other : Has(<<f>>, other) => other = kind
    BY <2>3 DEF Has
  <2> QED BY <2>4, <2>5 DEF f
<1> QED BY <1>1, <1>2

\* The kinds that a list has are among these.
Only(found, kinds) == \A kind : Has(found, kind) => kind \in kinds

\* Two sound lists make one, with the kinds of both.
LEMMA SoundBoth ==
  ASSUME NEW p, NEW s, Sound(p, s), NEW t, Sound(p, t), NEW K, NEW L, Only(s, K), Only(t, L),
         "missing_label" \notin K \/ "missing_label" \notin L
  PROVE  Sound(p, s \o t) /\ Only(s \o t, K \cup L) /\ \A kind : Has(s \o t, kind) <=> Has(s, kind) \/ Has(t, kind)
<1>1. s \in Seq(FindingType(p)) /\ t \in Seq(FindingType(p))
  BY DEF Sound
<1>2. \A kind : Has(s \o t, kind) <=> Has(s, kind) \/ Has(t, kind)
  BY <1>1, HasConcat
<1>3. ~Has(s, "missing_label") \/ ~Has(t, "missing_label")
  BY DEF Only
<1>4. Sound(p, s \o t)
  BY <1>3, SoundConcat
<1> QED BY <1>2, <1>4 DEF Only

\* Every check's findings are sound and of its kinds.
LEMMA ChecksAreSound ==
  ASSUME NEW s \in Screens
  PROVE  /\ Sound(s.page, BrokenImages(s.page)) /\ Only(BrokenImages(s.page), {"broken_image"})
         /\ Sound(s.page, HorizontalOverflow(s.page)) /\ Only(HorizontalOverflow(s.page), {"horizontal_overflow"})
         /\ Sound(s.page, Overlaps(s.page)) /\ Only(Overlaps(s.page), {"overlapping_elements"})
         /\ Sound(s.page, CutOffText(s.page)) /\ Only(CutOffText(s.page), {"cut_off_text"})
         /\ Sound(s.page, Labels(s.page)) /\ Only(Labels(s.page), {"missing_label", "unclear_button", "missing_alt"})
         /\ Sound(s.page, Markup(s.page)) /\ Only(Markup(s.page), {"missing_lang", "missing_title", "duplicate_id"})
         /\ Sound(s.page, KeyboardOrder(s.form)) /\ Only(KeyboardOrder(s.form), {"keyboard_order"})
         /\ Sound(s.page, SlowPage(s.page)) /\ Only(SlowPage(s.page), {"slow_page"})
<1> DEFINE p == s.page
<1>0. "low" \in Severities /\ "medium" \in Severities /\ "high" \in Severities
  BY DEF Severities
<1>1. Sound(p, BrokenImages(p)) /\ Only(BrokenImages(p), {"broken_image"})
  <2> DEFINE set == {e \in OfKind(p, {"img"}) : p.elements[e].source = "broken"}
  <2>1. set \subseteq DOMAIN p.elements
    BY DEF OfKind
  <2>2. set \in SUBSET Nat /\ IsFiniteSet(set)
    BY <2>1, ScreenSets
  <2>3. "broken_image" \in HealthKinds
    BY DEF HealthKinds
  <2> HIDE DEF set
  <2>4. Sound(p, Found("broken_image", "medium", set)) /\ Only(Found("broken_image", "medium", set), {"broken_image"})
    BY <1>0, <2>2, <2>3, FoundIsSound DEF Only, FaultySet
  <2> QED BY <2>4 DEF BrokenImages, set
<1>2. Sound(p, HorizontalOverflow(p)) /\ Only(HorizontalOverflow(p), {"horizontal_overflow"})
  <2>1. "horizontal_overflow" \in HealthKinds \ {"overlapping_elements", "missing_label"}
    BY DEF HealthKinds
  <2>2. CASE p.scroll <= p.width + 1
    BY <2>2, OneIsSound DEF HorizontalOverflow, Only
  <2>3. CASE ~(p.scroll <= p.width + 1)
    <3>1. p.scroll > p.width + 1
      <4>1. p.scroll \in Nat /\ p.width \in Nat
        BY HealthAssumption
      <4> QED BY <2>3, <4>1
    <3>2. HorizontalOverflow(p) = <<Finding("horizontal_overflow", "medium", Culprit(p))>>
      BY <2>3 DEF HorizontalOverflow
    <3>3. "medium" \in Severities
      BY DEF Severities
    <3>4. /\ Sound(p, <<Finding("horizontal_overflow", "medium", Culprit(p))>>)
          /\ \A other : Has(<<Finding("horizontal_overflow", "medium", Culprit(p))>>, other) => other = "horizontal_overflow"
      <4> HIDE DEF p
      <4> QED BY <2>1, <3>1, <3>3, OneIsSound
    <3> QED BY <3>2, <3>4 DEF Only
  <2> QED BY <2>2, <2>3
<1>3. Sound(p, Overlaps(p)) /\ Only(Overlaps(p), {"overlapping_elements"})
  <2> DEFINE set == {e \in Sampled(Pressable(p), MaxOverlapSamples) : Covered(p, e)}
  <2>1. set \subseteq DOMAIN p.elements /\ \A e \in set : Covered(p, e)
    BY DEF OfKind, Pressable, Sampled
  <2>2. set \in SUBSET Nat /\ IsFiniteSet(set)
    BY <2>1, ScreenSets
  <2>3. "overlapping_elements" \in HealthKinds
    BY DEF HealthKinds
  <2> HIDE DEF set
  <2>4. Sound(p, Found("overlapping_elements", "medium", set))
        /\ Only(Found("overlapping_elements", "medium", set), {"overlapping_elements"})
    BY <1>0, <2>1, <2>2, <2>3, FoundIsSound DEF Only, FaultySet
  <2> QED BY <2>4 DEF Overlaps, set
<1>4. Sound(p, CutOffText(p)) /\ Only(CutOffText(p), {"cut_off_text"})
  <2> DEFINE set == {e \in Sampled(Cut(p), MaxCutoffSamples) : p.elements[e].clip # "ellipsis" /\ p.elements[e].shown}
             sev == [i \in DOMAIN Ascending(set) |-> IF p.elements[Ascending(set)[i]].kind = "button" THEN "medium" ELSE "low"]
             list == [i \in DOMAIN Ascending(set) |-> Finding("cut_off_text", sev[i], Ascending(set)[i])]
  <2>1. set \subseteq DOMAIN p.elements
    BY DEF Cut, Sampled
  <2>2. set \in SUBSET Nat /\ IsFiniteSet(set)
    BY <2>1, ScreenSets
  <2>3. "cut_off_text" \in HealthKinds
    BY DEF HealthKinds
  <2> HIDE DEF set
  <2>4. \A i \in DOMAIN Ascending(set) : sev[i] \in Severities
    BY <1>0
  <2>5. CutOffText(p) = list
    BY DEF CutOffText, set
  <2> HIDE DEF sev
  <2>6. Sound(p, list) /\ Only(list, {"cut_off_text"})
    <3>1. FaultySet(p, "cut_off_text", set)
      BY <2>2, <2>3 DEF FaultySet
    <3> QED BY <2>4, <3>1, SetIsSound DEF Only
  <2> QED BY <2>5, <2>6
<1>5. Sound(p, Labels(p)) /\ Only(Labels(p), {"missing_label", "unclear_button", "missing_alt"})
  <2> DEFINE mute == {e \in {e \in OfKind(p, {"button"}) : ~p.elements[e].said} : p.elements[e].shown}
             blank == {e \in OfKind(p, {"img"}) : ~p.elements[e].said}
             l == Found("missing_label", "medium", Unlabelled(p))
             b == Found("unclear_button", "medium", mute)
             a == Found("missing_alt", "low", blank)
  <2>1. Unlabelled(p) \subseteq DOMAIN p.elements /\ mute \subseteq DOMAIN p.elements /\ blank \subseteq DOMAIN p.elements
    BY DEF OfKind, Unlabelled
  <2>2. /\ Unlabelled(p) \in SUBSET Nat /\ IsFiniteSet(Unlabelled(p))
        /\ mute \in SUBSET Nat /\ IsFiniteSet(mute) /\ blank \in SUBSET Nat /\ IsFiniteSet(blank)
    <3> HIDE DEF mute, blank
    <3>1. \A set : set \subseteq DOMAIN p.elements => set \in SUBSET Nat /\ IsFiniteSet(set)
      BY ScreenSets
    <3> QED BY <2>1, <3>1
  <2>3. "missing_label" \in HealthKinds /\ "unclear_button" \in HealthKinds /\ "missing_alt" \in HealthKinds
    BY DEF HealthKinds
  <2>4. Labels(p) = l \o b \o a
    BY DEF Labels
  <2> HIDE DEF mute, blank
  <2>5. Sound(p, l) /\ Only(l, {"missing_label"})
    BY <1>0, <2>2, <2>3, FoundIsSound DEF Only, FaultySet
  <2>6. Sound(p, b) /\ Only(b, {"unclear_button"})
    BY <1>0, <2>2, <2>3, FoundIsSound DEF Only, FaultySet
  <2>7. Sound(p, a) /\ Only(a, {"missing_alt"})
    BY <1>0, <2>2, <2>3, FoundIsSound DEF Only, FaultySet
  <2> HIDE DEF l, b, a
  <2>8. Sound(p, l \o b) /\ Only(l \o b, {"missing_label"} \cup {"unclear_button"})
    BY <2>5, <2>6, SoundBoth
  <2>9. Sound(p, (l \o b) \o a) /\ Only((l \o b) \o a, ({"missing_label"} \cup {"unclear_button"}) \cup {"missing_alt"})
    BY <2>7, <2>8, SoundBoth
  <2>10. ({"missing_label"} \cup {"unclear_button"}) \cup {"missing_alt"} = {"missing_label", "unclear_button", "missing_alt"}
    OBVIOUS
  <2> QED BY <2>4, <2>9, <2>10
<1>6. Sound(p, Markup(p)) /\ Only(Markup(p), {"missing_lang", "missing_title", "duplicate_id"})
  <2> DEFINE twice == {e \in DOMAIN p.elements : Cardinality(Twins(p, e)) > 1 /\ \A f \in Twins(p, e) : e <= f}
             l == IF p.lang THEN <<>> ELSE <<Finding("missing_lang", "low", 0)>>
             t == IF p.title THEN <<>> ELSE <<Finding("missing_title", "low", 0)>>
             d == Found("duplicate_id", "low", twice)
  <2>1. twice \in SUBSET Nat /\ IsFiniteSet(twice)
    <3>1. twice \subseteq DOMAIN p.elements
      OBVIOUS
    <3> QED BY <3>1, ScreenSets
  <2>2. "missing_lang" \in HealthKinds \ {"overlapping_elements", "missing_label"}
        /\ "missing_title" \in HealthKinds \ {"overlapping_elements", "missing_label"} /\ "duplicate_id" \in HealthKinds
    BY DEF HealthKinds
  <2>3. Markup(p) = l \o t \o d
    BY DEF Markup
  <2> HIDE DEF twice
  <2>4. Sound(p, l) /\ Only(l, {"missing_lang"})
    BY <1>0, <2>2, OneIsSound DEF Only
  <2>5. Sound(p, t) /\ Only(t, {"missing_title"})
    BY <1>0, <2>2, OneIsSound DEF Only
  <2>6. Sound(p, d) /\ Only(d, {"duplicate_id"})
    BY <1>0, <2>1, <2>2, FoundIsSound DEF Only, FaultySet
  <2> HIDE DEF l, t, d
  <2>7. Sound(p, l \o t) /\ Only(l \o t, {"missing_lang"} \cup {"missing_title"})
    BY <2>4, <2>5, SoundBoth
  <2>8. Sound(p, (l \o t) \o d) /\ Only((l \o t) \o d, ({"missing_lang"} \cup {"missing_title"}) \cup {"duplicate_id"})
    BY <2>6, <2>7, SoundBoth
  <2>9. ({"missing_lang"} \cup {"missing_title"}) \cup {"duplicate_id"} = {"missing_lang", "missing_title", "duplicate_id"}
    OBVIOUS
  <2> QED BY <2>3, <2>8, <2>9
<1>7. Sound(p, KeyboardOrder(s.form)) /\ Only(KeyboardOrder(s.form), {"keyboard_order"})
  <2> DEFINE positive == {c \in DOMAIN s.form : s.form[c].tabindex > 0 /\ s.form[c].shown}
             f == Found("keyboard_order", "low", positive)
             o == IF OrderFinding(s.form) THEN <<Finding("keyboard_order", "medium", 0)>> ELSE <<>>
  <2>1. positive \in SUBSET Nat /\ IsFiniteSet(positive)
    <3>1. positive \subseteq DOMAIN s.form
      OBVIOUS
    <3> QED BY <3>1, ScreenSets
  <2>2. "keyboard_order" \in HealthKinds \ {"overlapping_elements", "missing_label"}
    BY DEF HealthKinds
  <2>3. KeyboardOrder(s.form) = f \o o
    BY DEF KeyboardOrder
  <2> HIDE DEF positive
  <2>4. Sound(p, f) /\ Only(f, {"keyboard_order"})
    BY <1>0, <2>1, <2>2, FoundIsSound DEF Only, FaultySet
  <2>5. Sound(p, o) /\ Only(o, {"keyboard_order"})
    BY <1>0, <2>2, OneIsSound DEF Only
  <2> HIDE DEF f, o
  <2>6. Sound(p, f \o o) /\ Only(f \o o, {"keyboard_order"} \cup {"keyboard_order"})
    BY <2>4, <2>5, SoundBoth
  <2>7. {"keyboard_order"} \cup {"keyboard_order"} = {"keyboard_order"}
    OBVIOUS
  <2> QED BY <2>3, <2>6, <2>7
<1>8. Sound(p, SlowPage(p)) /\ Only(SlowPage(p), {"slow_page"})
  <2>1. "slow_page" \in HealthKinds \ {"overlapping_elements", "missing_label"}
    BY DEF HealthKinds
  <2>2. (IF p.load > 2 * p.slow THEN "high" ELSE "medium") \in Severities
    BY <1>0
  <2> QED BY <2>1, <2>2, OneIsSound DEF SlowPage, Only
<1> QED BY <1>1, <1>2, <1>3, <1>4, <1>5, <1>6, <1>7, <1>8

\* A check that throws leaves a part of its findings.
LEMMA PrefixIsSound ==
  ASSUME NEW p, NEW s, Sound(p, s), NEW n \in Nat, n < Len(s), NEW K, Only(s, K)
  PROVE  Sound(p, SubSeq(s, 1, n)) /\ Only(SubSeq(s, 1, n), K)
<1> DEFINE place == [i \in 1..n |-> i]
           part == [i \in 1..n |-> s[place[i]]]
<1>1. s \in Seq(FindingType(p)) /\ Len(s) \in Nat /\ DOMAIN s = 1..Len(s)
  BY DEF Sound
<1>2. SubSeq(s, 1, n) = part
  BY <1>1
<1>3. (\A i \in 1..n : place[i] \in DOMAIN s) /\ \A i, k \in 1..n : place[i] = place[k] => i = k
  BY <1>1
<1> HIDE DEF place
<1>4. Sound(p, part) /\ \A kind : Has(part, kind) => Has(s, kind)
  BY <1>3, SoundPart
<1> QED BY <1>2, <1>4 DEF Only

\* What is kept of a sound list is sound.
LEMMA KeptIsSound ==
  ASSUME NEW p, NEW s, Sound(p, s)
  PROVE  Sound(p, Kept(s))
<1>1. s \in Seq(FindingType(p)) /\ Len(s) \in Nat /\ DOMAIN s = 1..Len(s) /\ Early(s) \subseteq 1..Len(s)
  BY DEF Sound, Early
<1>2. PICK place : Keeps(place, s, Early(s), Kept(s))
  BY <1>1, FilteredKeeps DEF Kept, Early
<1> DEFINE n == Cardinality(Early(s))
<1>3. /\ n \in Nat /\ Kept(s) = [i \in 1..n |-> s[place[i]]]
      /\ \A i \in 1..n : place[i] \in DOMAIN s
      /\ \A i, k \in 1..n : place[i] = place[k] => i = k
  BY <1>1, <1>2 DEF Keeps, Bijection, Injection, IsInjective
<1> HIDE DEF n
<1> QED BY <1>3, SoundPart

\* Whichever check throws: the report is sound, has no more than MaxPerKind findings of a kind, and has
\* every kind that another check has found.
LEMMA ReportIsSound ==
  ASSUME NEW s \in Screens, NEW broken \in 0..7, NEW after \in 0..MaxPerKind
  PROVE  LET r == RunHealthChecks(s, broken, after) IN
         /\ r.broken = broken /\ Sound(s.page, r.found)
         /\ \A kind : Cardinality({i \in DOMAIN r.found : r.found[i].kind = kind}) <= MaxPerKind
         /\ \A c \in (1..7) \ {broken} : \A kind : Has(Checks(s)[c], kind) => Has(r.found, kind)
<1> DEFINE p == s.page
           checks == Checks(s)
           N == HealthKinds \ {"missing_label"}
           Of(i) == IF i = broken /\ after < Len(checks[i]) THEN SubSeq(checks[i], 1, after) ELSE checks[i]
           slow == SlowPage(p)
           all == Of(1) \o Of(2) \o Of(3) \o Of(4) \o Of(5) \o Of(6) \o Of(7) \o slow
<1>0. after \in Nat
  BY LimitsAssumption
<1>1. RunHealthChecks(s, broken, after) = [found |-> Kept(all), broken |-> broken]
  BY DEF RunHealthChecks
<1>2. \A i \in {1, 2, 3, 4, 6, 7} : Sound(p, checks[i]) /\ Only(checks[i], N)
  <2>1. /\ checks[1] = BrokenImages(p) /\ checks[2] = HorizontalOverflow(p) /\ checks[3] = Overlaps(p) /\ checks[4] = CutOffText(p)
        /\ checks[6] = Markup(p) /\ checks[7] = KeyboardOrder(s.form)
    BY DEF Checks
  <2>2. /\ {"broken_image"} \subseteq N /\ {"horizontal_overflow"} \subseteq N /\ {"overlapping_elements"} \subseteq N
        /\ {"cut_off_text"} \subseteq N /\ {"missing_lang", "missing_title", "duplicate_id"} \subseteq N /\ {"keyboard_order"} \subseteq N
    BY DEF HealthKinds
  <2>3. \A t, K : Only(t, K) /\ K \subseteq N => Only(t, N)
    BY DEF Only
  <2> HIDE DEF checks, N
  <2> QED BY <2>1, <2>2, <2>3, ChecksAreSound
<1>3. Sound(p, checks[5]) /\ Only(checks[5], HealthKinds)
  <2>1. checks[5] = Labels(p)
    BY DEF Checks
  <2>2. {"missing_label", "unclear_button", "missing_alt"} \subseteq HealthKinds
    BY DEF HealthKinds
  <2> HIDE DEF checks
  <2> QED BY <2>1, <2>2, ChecksAreSound DEF Only
<1>4. Sound(p, slow) /\ Only(slow, N)
  <2>1. {"slow_page"} \subseteq N
    BY DEF HealthKinds
  <2> QED BY <2>1, ChecksAreSound DEF Only
<1> HIDE DEF checks
<1>5. \A i \in {1, 2, 3, 4, 6, 7} : Sound(p, Of(i)) /\ Only(Of(i), N)
  <2> HIDE DEF N
  <2> QED BY <1>0, <1>2, PrefixIsSound
<1>6. Sound(p, Of(5)) /\ Only(Of(5), HealthKinds)
  BY <1>0, <1>3, PrefixIsSound
<1>7. \A c \in (1..7) \ {broken} : Of(c) = checks[c]
  OBVIOUS
<1>8. /\ N \cup N = N /\ N \cup HealthKinds = HealthKinds /\ HealthKinds \cup N = HealthKinds /\ "missing_label" \notin N
  OBVIOUS
<1> HIDE DEF Of, N, slow
<1> DEFINE l2 == Of(1) \o Of(2)
           l3 == l2 \o Of(3)
           l4 == l3 \o Of(4)
           l5 == l4 \o Of(5)
           l6 == l5 \o Of(6)
           l7 == l6 \o Of(7)
           l8 == l7 \o slow
<1>9. all = l8
  OBVIOUS
<1> HIDE DEF all
<1>10. Sound(p, l2) /\ Only(l2, N) /\ \A kind : Has(l2, kind) <=> Has(Of(1), kind) \/ Has(Of(2), kind)
  BY <1>5, <1>8, SoundBoth
<1> HIDE DEF l2
<1>11. Sound(p, l3) /\ Only(l3, N) /\ \A kind : Has(l3, kind) <=> Has(l2, kind) \/ Has(Of(3), kind)
  BY <1>5, <1>8, <1>10, SoundBoth
<1> HIDE DEF l3
<1>12. Sound(p, l4) /\ Only(l4, N) /\ \A kind : Has(l4, kind) <=> Has(l3, kind) \/ Has(Of(4), kind)
  BY <1>5, <1>8, <1>11, SoundBoth
<1> HIDE DEF l4
<1>13. Sound(p, l5) /\ Only(l5, HealthKinds) /\ \A kind : Has(l5, kind) <=> Has(l4, kind) \/ Has(Of(5), kind)
  BY <1>6, <1>8, <1>12, SoundBoth
<1> HIDE DEF l5
<1>14. Sound(p, l6) /\ Only(l6, HealthKinds) /\ \A kind : Has(l6, kind) <=> Has(l5, kind) \/ Has(Of(6), kind)
  BY <1>5, <1>8, <1>13, SoundBoth
<1> HIDE DEF l6
<1>15. Sound(p, l7) /\ Only(l7, HealthKinds) /\ \A kind : Has(l7, kind) <=> Has(l6, kind) \/ Has(Of(7), kind)
  BY <1>5, <1>8, <1>14, SoundBoth
<1> HIDE DEF l7
<1>16. Sound(p, l8) /\ \A kind : Has(l8, kind) <=> Has(l7, kind) \/ Has(slow, kind)
  BY <1>4, <1>8, <1>15, SoundBoth
<1>17. \A c \in (1..7) \ {broken} : \A kind : Has(checks[c], kind) => Has(all, kind)
  <2> SUFFICES ASSUME NEW c \in (1..7) \ {broken}, NEW kind, Has(checks[c], kind) PROVE Has(all, kind)
    OBVIOUS
  <2>1. Has(Of(c), kind)
    BY <1>7
  <2>2. Has(Of(1), kind) \/ Has(Of(2), kind) \/ Has(Of(3), kind) \/ Has(Of(4), kind) \/ Has(Of(5), kind) \/ Has(Of(6), kind) \/ Has(Of(7), kind)
    <3>1. c = 1 \/ c = 2 \/ c = 3 \/ c = 4 \/ c = 5 \/ c = 6 \/ c = 7
      OBVIOUS
    <3> QED BY <2>1, <3>1
  <2> HIDE DEF l8
  <2> QED BY <1>9, <1>10, <1>11, <1>12, <1>13, <1>14, <1>15, <1>16, <2>2
<1>18. Sound(p, all) /\ all \in Seq(FindingType(p))
  BY <1>9, <1>16 DEF Sound
<1>19. Sound(p, Kept(all)) /\ \A kind : Has(all, kind) => Has(Kept(all), kind)
  BY <1>18, KeptHas, KeptIsSound
<1>20. \A kind : Cardinality({i \in DOMAIN Kept(all) : Kept(all)[i].kind = kind}) <= MaxPerKind
  BY <1>18, KeptFew
<1>21. \A c \in (1..7) \ {broken} : \A kind : Has(Checks(s)[c], kind) => Has(Kept(all), kind)
  BY <1>17, <1>19 DEF checks
<1> DEFINE r == RunHealthChecks(s, broken, after)
<1>22. r.broken = broken /\ r.found = Kept(all)
  BY <1>1
<1> HIDE DEF r
<1>23. /\ r.broken = broken /\ Sound(s.page, r.found)
       /\ \A kind : Cardinality({i \in DOMAIN r.found : r.found[i].kind = kind}) <= MaxPerKind
       /\ \A c \in (1..7) \ {broken} : \A kind : Has(Checks(s)[c], kind) => Has(r.found, kind)
  BY <1>19, <1>20, <1>21, <1>22 DEF p
<1> QED BY <1>23 DEF r

\* Whatever is wrong with a page and whichever check throws, the report neither drowns nor invents: of a
\* kind at most MaxPerKind are reported, none is missing that a check has found, a control that is said to
\* be covered cannot be pressed at its centre, and a group of radios is reported once.
THEOREM HealthReport == HealthSpec => []ReportIsRight
<1>1. HealthInv => ReportIsRight
  <2> SUFFICES ASSUME HealthInv, health # NoWalk PROVE ReportIsRight
    BY DEF ReportIsRight
  <2> DEFINE p == screen.page
             Of(kind) == {i \in DOMAIN health.found : health.found[i].kind = kind}
  <2>1. PICK broken \in 0..7, after \in 0..MaxPerKind : health = RunHealthChecks(screen, broken, after)
    BY DEF HealthInv
  <2>2. screen \in Screens
    BY DEF HealthInv
  <2>3. /\ health.broken = broken /\ Sound(p, health.found)
        /\ \A kind : Cardinality(Of(kind)) <= MaxPerKind
        /\ \A c \in (1..7) \ {broken} : \A kind : Has(Checks(screen)[c], kind) => Has(health.found, kind)
    <3> DEFINE r == RunHealthChecks(screen, broken, after)
    <3>1. /\ r.broken = broken /\ Sound(screen.page, r.found)
          /\ \A kind : Cardinality({i \in DOMAIN r.found : r.found[i].kind = kind}) <= MaxPerKind
          /\ \A c \in (1..7) \ {broken} : \A kind : Has(Checks(screen)[c], kind) => Has(r.found, kind)
      BY <2>2, ReportIsSound
    <3>2. health = r
      BY <2>1
    <3> HIDE DEF r
    <3> QED BY <3>1, <3>2
  <2>4. DOMAIN KindsOf = 1..7
    BY DEF KindsOf
  <2>5. ASSUME NEW c \in DOMAIN KindsOf \ {health.broken}, NEW kind, Of(kind) = {}, NEW i \in DOMAIN Checks(screen)[c]
        PROVE  Checks(screen)[c][i].kind # kind
    BY <2>3, <2>4, <2>5 DEF Has
  <2>6. \A i \in Of("overlapping_elements") : health.found[i].at \notin Presses(health.found[i].at)
    <3> TAKE i \in Of("overlapping_elements")
    <3>1. Covered(p, health.found[i].at)
      BY <2>3 DEF Sound
    <3> QED BY <3>1 DEF Covered, Related, Presses
  <2>7. ASSUME NEW i \in Of("missing_label"), NEW k \in Of("missing_label"), i # k,
               p.elements[health.found[i].at].kind = "radio", p.elements[health.found[k].at].kind = "radio",
               p.elements[health.found[i].at].group = p.elements[health.found[k].at].group
        PROVE  FALSE
    <3> DEFINE a == health.found[i].at  b == health.found[k].at
    <3>1. a \in Unlabelled(p) /\ b \in Unlabelled(p) /\ a # b
      BY <2>3, <2>7 DEF Sound
    <3>2. a \in Nat /\ b \in Nat
      <4>1. Unlabelled(p) \subseteq DOMAIN p.elements
        BY DEF Unlabelled, OfKind
      <4>2. Unlabelled(p) \in SUBSET Nat
        BY <2>2, <4>1, ScreenSets
      <4> QED BY <3>1, <4>2
    <3>3. a <= b /\ b <= a
      BY <2>7, <3>1 DEF Unlabelled
    <3> QED BY <3>1, <3>2, <3>3
  <2> QED BY <2>3, <2>5, <2>6, <2>7 DEF ReportIsRight
<1> QED BY <1>1, HealthInvHolds, PTL

\* What is blamed for a page that scrolls sideways is wide by itself, on a page whose boxes are stretched
\* only by what has as good a reason to be wide: the comment's "blocks stretched by a wide child" is right.
THEOREM HealthBlame == (\A s \in Screens : Stretches(s.page)) => (HealthSpec => []BlameIsRight)
<1> SUFFICES ASSUME \A s \in Screens : Stretches(s.page) PROVE HealthSpec => []BlameIsRight
  OBVIOUS
<1>1. HealthInv => BlameIsRight
  <2> SUFFICES ASSUME HealthInv, health # NoWalk, NEW i \in DOMAIN health.found,
                      health.found[i].kind = "horizontal_overflow"
               PROVE  health.found[i].at \in screen.page.wide
    BY DEF BlameIsRight
  <2>1. screen \in Screens /\ Stretches(screen.page)
    BY DEF HealthInv
  <2>2. Sound(screen.page, health.found)
    <3>1. PICK broken \in 0..7, after \in 0..MaxPerKind : health = RunHealthChecks(screen, broken, after)
      BY DEF HealthInv
    <3> DEFINE r == RunHealthChecks(screen, broken, after)
    <3>2. Sound(screen.page, r.found)
      BY <2>1, ReportIsSound
    <3>3. health = r
      BY <3>1
    <3> HIDE DEF r
    <3> QED BY <3>2, <3>3
  <2>3. health.found[i].at = Culprit(screen.page) /\ screen.page.scroll > screen.page.width + 1
    <3>1. health.found[i] \in FindingType(screen.page)
      BY <2>2 DEF Sound
    <3> QED BY <3>1 DEF FindingType
  <2> QED BY <2>1, <2>3, CulpritIsWide
<1> QED BY <1>1, HealthInvHolds, PTL

\* Both checks are right, for screens of any size that are laid out as LaidOut says.
THEOREM HealthHolds == LaidOut => (HealthSpec => []HealthIsRight)
<1> SUFFICES ASSUME LaidOut PROVE HealthSpec => []HealthIsRight
  OBVIOUS
<1>1. (\A s \in Screens : OnGrid(s.form)) /\ \A s \in Screens : Stretches(s.page)
  BY DEF LaidOut
<1>2. HealthSpec => []WalkIsRight /\ []ReportIsRight /\ []BlameIsRight
  BY <1>1, HealthWalk, HealthReport, HealthBlame
<1>3. WalkIsRight /\ ReportIsRight /\ BlameIsRight => HealthIsRight
  BY DEF HealthIsRight
<1> QED BY <1>2, <1>3, PTL
-----------------------------------------------------------------------------
(* The content scripts: ContentScript. *)
Copy == [world : Nat, listening : BOOLEAN, timer : BOOLEAN, reason : {"dom", "popstate"},
         overlay : {"hidden", "worker", "watching"}]

Silent(c) == ~c.listening /\ ~c.timer /\ c.overlay = "hidden"

VoiceInv ==
    /\ world \in Nat /\ copies \in Seq(Copy)
    /\ \A i \in DOMAIN copies : copies[i].world <= world /\ (Alive(copies[i]) => copies[i].listening)
    /\ \A i, j \in DOMAIN copies : Alive(copies[i]) /\ Alive(copies[j]) => i = j
    /\ \A i, j \in DOMAIN copies : Alive(copies[i]) /\ ~Alive(copies[j]) => Silent(copies[j])

-----------------------------------------------------------------------------
\* A copy that changes stays what it is: of its world, and silent when it was.
SameVoice(new, old) ==
    /\ new \in Copy /\ new.world = old.world /\ new.listening = old.listening
    /\ Silent(old) => Silent(new)

LEMMA SameVoicesKeep ==
  ASSUME VoiceInv, world' = world, copies' \in Seq(Copy), DOMAIN copies' = DOMAIN copies,
         \A i \in DOMAIN copies : SameVoice(copies'[i], copies[i])
  PROVE  VoiceInv'
BY DEF VoiceInv, SameVoice, Alive

\* What gives every copy a new state gives a sequence of as many copies.
LEMMA MappedCopies ==
  ASSUME NEW s \in Seq(Copy), NEW t, t = [i \in DOMAIN s |-> t[i]], \A i \in DOMAIN s : t[i] \in Copy
  PROVE  t \in Seq(Copy) /\ DOMAIN t = DOMAIN s /\ Len(t) = Len(s)
<1>1. DOMAIN s = 1..Len(s) /\ Len(s) \in Nat
  OBVIOUS
<1>2. t \in [1..Len(s) -> Copy]
  BY <1>1
<1>3. t \in Seq(Copy) /\ DOMAIN t = 1..Len(s)
  BY <1>1, <1>2
<1> QED BY <1>1, <1>3

LEMMA InjectKeeps == ASSUME VoiceInv, Inject PROVE VoiceInv'
<1> DEFINE heard == TakesOver(copies)
           new == [world |-> world, listening |-> TRUE, timer |-> FALSE, reason |-> "dom", overlay |-> "hidden"]
<1>1. \A i \in DOMAIN copies : ~Alive(copies[i])
  BY DEF Inject, AlreadyInjected
<1>2. /\ heard = [i \in DOMAIN copies |-> heard[i]]
      /\ \A i \in DOMAIN copies : heard[i] = TornDown(copies[i])
  BY <1>1 DEF TakesOver
<1>3. \A i \in DOMAIN copies : heard[i] \in Copy /\ Silent(heard[i]) /\ heard[i].world = copies[i].world
  <2> SUFFICES ASSUME NEW i \in DOMAIN copies
               PROVE  heard[i] \in Copy /\ Silent(heard[i]) /\ heard[i].world = copies[i].world
    OBVIOUS
  <2>1. copies[i] \in Copy
    BY DEF VoiceInv
  <2> QED BY <1>2, <2>1 DEF TornDown, Copy, Silent
<1>4. heard \in Seq(Copy) /\ DOMAIN heard = DOMAIN copies /\ Len(heard) = Len(copies)
  <2> HIDE DEF heard
  <2> QED BY <1>2, <1>3, MappedCopies DEF VoiceInv
<1>5. new \in Copy /\ copies' = Append(heard, new) /\ world' = world
  BY DEF Inject, Copy, VoiceInv
<1>6. /\ copies' \in Seq(Copy) /\ DOMAIN copies' = DOMAIN copies \cup {Len(copies) + 1}
      /\ \A i \in DOMAIN copies : copies'[i] = heard[i]
      /\ copies'[Len(copies) + 1] = new
  <2> HIDE DEF heard, new
  <2>1. DOMAIN copies = 1..Len(copies) /\ Len(copies) \in Nat
    BY DEF VoiceInv
  <2> QED BY <1>4, <1>5, <2>1
<1>7. \A i \in DOMAIN copies : copies'[i].world # world /\ copies'[i].world <= world /\ Silent(copies'[i])
  BY <1>1, <1>3, <1>6 DEF Alive, VoiceInv
<1>8. \A i \in DOMAIN copies' : i = Len(copies) + 1 \/ i \in DOMAIN copies
  BY <1>6
<1>9. copies'[Len(copies) + 1].world = world /\ copies'[Len(copies) + 1].listening /\ world \in Nat
  BY <1>6 DEF VoiceInv
<1> HIDE DEF heard, new
<1> QED BY <1>5, <1>6, <1>7, <1>8, <1>9 DEF VoiceInv, Alive

LEMMA ScheduleKeeps ==
  ASSUME VoiceInv, NEW reason \in {"dom", "popstate"}, Schedule(reason), world' = world PROVE VoiceInv'
<1>1. \A i \in DOMAIN copies : SameVoice(copies'[i], copies[i])
  <2> SUFFICES ASSUME NEW i \in DOMAIN copies PROVE SameVoice(copies'[i], copies[i])
    OBVIOUS
  <2>1. copies[i] \in Copy
    BY DEF VoiceInv
  <2>2. copies'[i] = copies[i] \/ (copies[i].listening /\ \E r \in {"dom", "popstate"} :
                                     copies'[i] = [copies[i] EXCEPT !.timer = TRUE, !.reason = r])
    BY <2>1 DEF Schedule, Copy
  <2> QED BY <2>1, <2>2 DEF SameVoice, Silent, Copy
<1>2. copies' = [i \in DOMAIN copies |-> copies'[i]]
  BY DEF Schedule
<1>3. copies' \in Seq(Copy) /\ DOMAIN copies' = DOMAIN copies
  <2>1. copies \in Seq(Copy) /\ \A i \in DOMAIN copies : copies'[i] \in Copy
    BY <1>1 DEF VoiceInv, SameVoice
  <2> QED BY <1>2, <2>1, MappedCopies
<1> QED BY <1>1, <1>3, SameVoicesKeep

\* One copy changes its timer or its overlay.
LEMMA ChangeKeeps ==
  ASSUME VoiceInv, NEW i \in DOMAIN copies, NEW c \in Copy, SameVoice(c, copies[i]),
         copies' = [copies EXCEPT ![i] = c], world' = world
  PROVE  VoiceInv'
<1>1. \A k \in DOMAIN copies : copies[k] \in Copy
  BY DEF VoiceInv
<1>2. \A k \in DOMAIN copies : SameVoice(copies'[k], copies[k])
  BY <1>1 DEF SameVoice
<1>3. copies' \in Seq(Copy) /\ DOMAIN copies' = DOMAIN copies
  BY DEF VoiceInv
<1> QED BY <1>2, <1>3, SameVoicesKeep

LEMMA FlushKeeps == ASSUME VoiceInv, Flush PROVE VoiceInv'
<1>1. PICK i \in DOMAIN copies : copies' = [copies EXCEPT ![i].timer = FALSE, ![i].reason = "dom"] /\ world' = world
  BY DEF Flush
<1> DEFINE c == [copies[i] EXCEPT !.timer = FALSE, !.reason = "dom"]
<1>2. copies[i] \in Copy
  BY DEF VoiceInv
<1>3. c \in Copy /\ SameVoice(c, copies[i])
  BY <1>2 DEF SameVoice, Silent, Copy
<1>4. copies' = [copies EXCEPT ![i] = c]
  BY <1>1, <1>2 DEF VoiceInv, Copy
<1> HIDE DEF c
<1> QED BY <1>1, <1>3, <1>4, ChangeKeeps

LEMMA OverlayKeeps == ASSUME VoiceInv, OverlaySet PROVE VoiceInv'
<1>1. PICK i \in Live, shown \in {"hidden", "worker", "watching"} :
        copies' = [copies EXCEPT ![i].overlay = shown] /\ world' = world
  BY DEF OverlaySet
<1> DEFINE c == [copies[i] EXCEPT !.overlay = shown]
<1>2. i \in DOMAIN copies /\ copies[i] \in Copy /\ copies[i].listening
  BY DEF VoiceInv, Live
<1>3. c \in Copy /\ SameVoice(c, copies[i])
  BY <1>2 DEF SameVoice, Silent, Copy
<1>4. copies' = [copies EXCEPT ![i] = c]
  BY <1>1, <1>2 DEF VoiceInv, Copy
<1> HIDE DEF c
<1> QED BY <1>1, <1>2, <1>3, <1>4, ChangeKeeps

\* With a reload of the extension every copy is an orphan.
LEMMA ReloadKeeps == ASSUME VoiceInv, ReloadExtension PROVE VoiceInv'
<1>1. world' = world + 1 /\ copies' = copies
  BY DEF ReloadExtension
<1>2. ASSUME NEW i \in DOMAIN copies PROVE copies[i].world \in Nat
  <2>1. copies[i] \in Copy
    BY DEF VoiceInv
  <2> QED BY <2>1 DEF Copy
<1> QED BY <1>1, <1>2 DEF VoiceInv, Alive

LEMMA VoiceIsInductive == ASSUME VoiceInv, [ContentNext]_contentVars PROVE VoiceInv'
<1>1. ASSUME UNCHANGED <<world, copies>> PROVE VoiceInv'
  BY <1>1 DEF VoiceInv, Alive
<1>2. CASE NewLoad
  BY <1>2 DEF NewLoad, VoiceInv
<1>3. CASE Discover \/ UNCHANGED contentVars
  BY <1>1, <1>3 DEF Discover, contentVars
<1>4. CASE PopState
  BY <1>4, ScheduleKeeps DEF PopState
<1>5. ASSUME NEW t \in DOMAIN page.toggles, Toggle(t) PROVE VoiceInv'
  BY <1>1, <1>5, ScheduleKeeps DEF Toggle
<1> QED BY <1>2, <1>3, <1>4, <1>5, InjectKeeps, ReloadKeeps, FlushKeeps, OverlayKeeps DEF ContentNext

\* One voice in a page, however often and from wherever the script is injected.
THEOREM OneVoiceSpeaks == ContentInit /\ [][ContentNext]_contentVars => []OneVoice
<1>1. ContentInit => VoiceInv
  BY DEF ContentInit, VoiceInv
<1>2. VoiceInv => OneVoice
  <2> SUFFICES ASSUME VoiceInv PROVE OneVoice
    OBVIOUS
  <2>1. Live = {} \/ \E i \in DOMAIN copies : Live = {i}
    BY DEF VoiceInv, Live
  <2>2. Cardinality(Live) <= 1
    BY <2>1, FS_EmptySet, FS_Singleton
  <2>3. ASSUME Live # {}, NEW j \in DOMAIN copies \ Live PROVE Silent(copies[j])
    <3>1. PICK i \in DOMAIN copies : Alive(copies[i])
      BY <2>3 DEF Live
    <3>2. ~Alive(copies[j])
      BY <2>3 DEF Live, VoiceInv
    <3> QED BY <3>1, <3>2 DEF VoiceInv
  <2> QED BY <2>2, <2>3 DEF OneVoice, Silent
<1> QED BY <1>1, <1>2, VoiceIsInductive, PTL

-----------------------------------------------------------------------------
(* Elements and their names: PageScan. *)

\* The ancestors of an element: in its tree, each before the one below.
LEMMA AboveIs ==
  ASSUME NEW p, WellFormed(p), NEW e \in 0..Len(p)
  PROVE  /\ Above(p, e)[0] = e
         /\ \A k \in 1..Len(p) :
              Above(p, e)[k] = IF Above(p, e)[k - 1] = 0 THEN 0 ELSE p[Above(p, e)[k - 1]].up
         /\ \A k \in 0..Len(p) : /\ Above(p, e)[k] \in 0..Len(p)
                                 /\ Above(p, e)[k] = 0 \/ Above(p, e)[k] + k <= e
                                 /\ Above(p, e)[k] # 0 => p[Above(p, e)[k]].host = p[e].host
<1> DEFINE N == Len(p)
           V == 0..N
           T == [k \in 1..N |-> [n \in V |-> IF n = 0 THEN 0 ELSE p[n].up]]
           g == Above(p, e)
<1>1. N \in Nat /\ DOMAIN p = 1..N
  BY DEF WellFormed
<1>2. \A n \in 1..N : p[n].up \in 0..(n - 1) /\ (p[n].up # 0 => p[p[n].up].host = p[n].host)
  BY <1>1 DEF WellFormed
<1>3. T \in [1..N -> [V -> V]] /\ e \in V
  BY <1>1, <1>2
<1>4. PICK h : IsBuilt(h, N, V, e, T)
  <2> HIDE DEF V, T, N
  <2> QED BY <1>1, <1>3, Built
<1>5. h \in [0..N -> V] /\ h[0] = e /\ \A k \in 1..N : h[k] = T[k][h[k - 1]]
  BY <1>4 DEF IsBuilt
<1>6. \A k \in 1..N, n \in V : T[k][n] = IF n = 0 THEN 0 ELSE p[n].up
  OBVIOUS
<1>7. \A k \in 1..N : h[k] = IF h[k - 1] = 0 THEN 0 ELSE p[h[k - 1]].up
  <2> HIDE DEF V, T, N
  <2> QED BY <1>1, <1>5, <1>6
<1>8. h = [k \in 0..N |-> IF k = 0 THEN e ELSE LET n == h[k - 1] IN IF n = 0 THEN 0 ELSE p[n].up]
  <2> HIDE DEF V, T
  <2> QED BY <1>1, <1>5, <1>7
<1>9. g = [k \in 0..N |-> IF k = 0 THEN e ELSE LET n == g[k - 1] IN IF n = 0 THEN 0 ELSE p[n].up]
  <2> HIDE DEF V, T
  <2> QED BY <1>8 DEF Above
<1> HIDE DEF g, T, N
<1>10. g[0] = e /\ \A k \in 1..N : g[k] = IF g[k - 1] = 0 THEN 0 ELSE p[g[k - 1]].up
  <2>1. 0 \in 0..N /\ \A k \in 1..N : k \in 0..N /\ k # 0
    BY <1>1
  <2> QED BY <1>9, <2>1
<1> DEFINE Good == {k \in 0..N : /\ g[k] \in 0..N /\ (g[k] = 0 \/ g[k] + k <= e)
                                 /\ g[k] # 0 => p[g[k]].host = p[e].host}
<1>11. 0 \in Good
  <2>1. g[0] \in 0..N /\ g[0] + 0 <= e
    BY <1>1, <1>3, <1>10
  <2> QED BY <1>1, <1>10, <2>1
<1>12. ASSUME NEW k \in 1..N, k - 1 \in Good PROVE k \in Good
  <2>1. CASE g[k - 1] = 0
    BY <1>1, <1>10, <2>1
  <2>2. CASE g[k - 1] # 0
    <3>1. g[k] = p[g[k - 1]].up /\ g[k - 1] \in 1..N /\ g[k - 1] + (k - 1) <= e
      BY <1>1, <1>10, <1>12, <2>2
    <3>2. g[k] \in 0..(g[k - 1] - 1) /\ (g[k] # 0 => p[g[k]].host = p[g[k - 1]].host)
      BY <1>2, <3>1
    <3>3. p[g[k - 1]].host = p[e].host
      BY <1>12, <2>2
    <3>4. /\ k \in Int /\ g[k - 1] \in Int /\ g[k] \in Int /\ e \in Int /\ N \in Int
          /\ 0 <= g[k] /\ g[k] <= g[k - 1] - 1 /\ g[k - 1] <= N /\ g[k - 1] + (k - 1) <= e
      <4>1. N \in Int /\ e \in Int /\ k \in Int
        BY <1>1, <1>3
      <4>2. g[k - 1] \in Int /\ g[k - 1] <= N /\ g[k - 1] + (k - 1) <= e
        BY <1>1, <3>1
      <4>3. g[k] \in Int /\ 0 <= g[k] /\ g[k] <= g[k - 1] - 1
        BY <3>2, <4>2
      <4> QED BY <4>1, <4>2, <4>3
    <3>5. g[k] \in 0..N /\ g[k] + k <= e
      BY <3>4
    <3> QED BY <1>1, <3>1, <3>2, <3>3, <3>5
  <2> QED BY <2>1, <2>2
<1>13. \A k \in 0..N : k \in Good
  <2> HIDE DEF Good
  <2> QED BY <1>1, <1>11, <1>12, UpTo
<1> QED BY <1>10, <1>13 DEF g, N

\* Every element is below the top.
LEMMA AboveEnds == ASSUME NEW p, WellFormed(p), NEW e \in DOMAIN p PROVE Above(p, e)[Len(p)] = 0
<1>1. DOMAIN p = 1..Len(p) /\ Len(p) \in Nat
  BY DEF WellFormed
<1>2. /\ Above(p, e)[Len(p)] \in 0..Len(p)
      /\ Above(p, e)[Len(p)] = 0 \/ Above(p, e)[Len(p)] + Len(p) <= e
  BY <1>1, AboveIs
<1> QED BY <1>1, <1>2

\* A selector is that of the host and one part more.
LEMMA SelectorForIs ==
  ASSUME NEW p, WellFormed(p), NEW l
  PROVE  /\ SelectorFor(p, l, 0) = <<>>
         /\ \A e \in DOMAIN p :
              SelectorFor(p, l, e) = Append(SelectorFor(p, l, p[e].host), SelectorInRoot(p, l, e))
         /\ \A e \in 0..Len(p) : SelectorFor(p, l, e) \in Seq({SelectorInRoot(p, l, n) : n \in DOMAIN p})
<1> DEFINE N == Len(p)
           R(n) == SelectorInRoot(p, l, n)
           X == {R(n) : n \in DOMAIN p}
           V == Seq(X)
           up == [n \in 1..N |-> p[n].host]
           T == [n \in 1..N |-> [s \in V |-> Append(s, R(n))]]
           g == CHOOSE f : f = [n \in 0..N |-> IF n = 0 THEN <<>> ELSE Append(f[p[n].host], R(n))]
<1>1. N \in Nat /\ DOMAIN p = 1..N /\ \A n \in 1..N : up[n] \in 0..(n - 1) /\ up[n] = p[n].host
  BY DEF WellFormed
<1>2. \A n \in 1..N : R(n) \in X
  BY <1>1
<1>3. \A n \in 1..N, s \in V : Append(s, R(n)) \in V
  <2> HIDE DEF X, R, N
  <2> QED BY <1>2
<1>4. T \in [1..N -> [V -> V]] /\ <<>> \in V
  <2> HIDE DEF R, X, N
  <2> QED BY <1>3
<1>5. PICK h : IsGrown(h, N, V, <<>>, T, up)
  <2> HIDE DEF V, up, T, N
  <2> QED BY <1>1, <1>4, Grown
<1>6. h \in [0..N -> V] /\ h[0] = <<>> /\ \A n \in 1..N : h[n] = T[n][h[up[n]]]
  BY <1>5 DEF IsGrown
<1>7. \A n \in 1..N : p[n].host \in 0..N /\ h[n] = Append(h[p[n].host], R(n))
  <2>1. \A n \in 1..N : p[n].host \in 0..N
    BY <1>1
  <2>2. \A n \in 1..N, s \in V : T[n][s] = Append(s, R(n))
    OBVIOUS
  <2> HIDE DEF V, T, up, R, N
  <2> QED BY <1>1, <1>6, <2>1, <2>2
<1>8. h = [n \in 0..N |-> IF n = 0 THEN <<>> ELSE Append(h[p[n].host], R(n))]
  <2> HIDE DEF V, T, R, up, N
  <2> QED BY <1>1, <1>6, <1>7
<1>9. g = [n \in 0..N |-> IF n = 0 THEN <<>> ELSE Append(g[p[n].host], R(n))]
  <2> HIDE DEF V, T, up, N, R
  <2> QED BY <1>8
<1>10. \A e : SelectorFor(p, l, e) = g[e]
  BY DEF SelectorFor
<1> HIDE DEF g
<1>11. g[0] = <<>> /\ \A n \in 1..N : g[n] = Append(g[p[n].host], R(n))
  <2> HIDE DEF R, V, T, up, N
  <2>1. 0 \in 0..N /\ \A n \in 1..N : n \in 0..N /\ n # 0
    BY <1>1
  <2> QED BY <1>9, <2>1
<1> DEFINE Good == {n \in 0..N : g[n] \in V}
<1>12. 0 \in Good
  <2>1. 0 \in 0..N /\ g[0] \in V
    <3> HIDE DEF N, X
    <3> QED BY <1>1, <1>4, <1>11
  <2> QED BY <2>1
<1>13. ASSUME NEW n \in 1..N, up[n] \in Good PROVE n \in Good
  <2>1. g[n] = Append(g[p[n].host], R(n)) /\ g[p[n].host] \in V /\ R(n) \in X
    BY <1>1, <1>2, <1>11, <1>13
  <2>2. g[n] \in V
    <3> HIDE DEF R, X
    <3> QED BY <2>1
  <2> QED BY <2>2, <1>1
<1>14. \A n \in 0..N : n \in Good
  <2> HIDE DEF Good, up, N
  <2> QED BY <1>1, <1>12, <1>13, UpFrom
<1> QED BY <1>1, <1>10, <1>11, <1>14

\* What a selector with one part more finds.
LEMMA QueryAllIs ==
  ASSUME NEW p, WellFormed(p), NEW l, NEW X, NEW sel \in Seq(X), NEW part \in X
  PROVE  /\ QueryAll(p, l, <<>>) = {0}
         /\ \A o : o \in QueryAll(p, l, Append(sel, part)) <=>
                   o \in DOMAIN p /\ p[o].host \in QueryAll(p, l, sel) /\ Fulfils(p, l, o, part)
<1> DEFINE V == SUBSET (0..Len(p))
           Reached(S, q) == {e \in DOMAIN p : p[e].host \in S /\ Fulfils(p, l, e, q)}
           F(s) == CHOOSE f : f = [n \in 0..Len(s) |-> IF n = 0 THEN {0} ELSE Reached(f[n - 1], s[n])]
<1>1. DOMAIN p = 1..Len(p) /\ Len(p) \in Nat
  BY DEF WellFormed
<1>2. \A s : QueryAll(p, l, s) = F(s)[Len(s)]
  BY DEF QueryAll
<1>3. ASSUME NEW s \in Seq(X)
      PROVE  F(s) = [n \in 0..Len(s) |-> IF n = 0 THEN {0} ELSE Reached(F(s)[n - 1], s[n])]
  <2> DEFINE T == [n \in 1..Len(s) |-> [S \in V |-> Reached(S, s[n])]]
  <2>1. {0} \in V /\ T \in [1..Len(s) -> [V -> V]] /\ Len(s) \in Nat
    BY <1>1
  <2>2. \A n \in 1..Len(s), S \in V : T[n][S] = Reached(S, s[n])
    OBVIOUS
  <2>3. PICK h : IsBuilt(h, Len(s), V, {0}, T)
    <3> HIDE DEF V, T
    <3> QED BY <2>1, Built
  <2>4. h \in [0..Len(s) -> V] /\ h[0] = {0} /\ \A n \in 1..Len(s) : h[n] = Reached(h[n - 1], s[n])
    <3>1. h \in [0..Len(s) -> V] /\ h[0] = {0} /\ \A n \in 1..Len(s) : h[n] = T[n][h[n - 1]]
      BY <2>3 DEF IsBuilt
    <3>2. \A n \in 1..Len(s) : n - 1 \in 0..Len(s)
      BY <2>1
    <3> HIDE DEF V, T, Reached
    <3> QED BY <2>2, <3>1, <3>2
  <2>5. h = [n \in 0..Len(s) |-> IF n = 0 THEN {0} ELSE Reached(h[n - 1], s[n])]
    <3> HIDE DEF V, T, Reached
    <3> QED BY <2>1, <2>4
  <2> HIDE DEF V, T, Reached
  <2> QED BY <2>5
<1> HIDE DEF F, Reached
<1>4. ASSUME NEW s \in Seq(X)
      PROVE  F(s)[0] = {0} /\ \A n \in 1..Len(s) : F(s)[n] = Reached(F(s)[n - 1], s[n])
  <2>1. Len(s) \in Nat
    OBVIOUS
  <2> QED BY <1>3, <2>1
<1>5. <<>> \in Seq(X) /\ Len(<<>>) = 0
  OBVIOUS
<1>6. QueryAll(p, l, <<>>) = {0}
  BY <1>2, <1>4, <1>5
<1> DEFINE t == Append(sel, part)
<1>7. t \in Seq(X) /\ Len(t) = Len(sel) + 1 /\ t[Len(sel) + 1] = part /\ Len(sel) \in Nat
      /\ \A n \in 1..Len(sel) : t[n] = sel[n]
  OBVIOUS
<1> HIDE DEF t
<1> DEFINE Good == {n \in 0..Len(sel) : F(t)[n] = F(sel)[n]}
<1>8. 0 \in Good
  <2>1. F(t)[0] = {0} /\ F(sel)[0] = {0} /\ 0 \in 0..Len(sel)
    BY <1>4, <1>7
  <2> QED BY <2>1
<1>9. ASSUME NEW n \in 1..Len(sel), n - 1 \in Good PROVE n \in Good
  <2>1. n \in 1..Len(t) /\ t[n] = sel[n]
    BY <1>7
  <2>2. F(t)[n] = Reached(F(t)[n - 1], t[n]) /\ F(sel)[n] = Reached(F(sel)[n - 1], sel[n])
    BY <1>4, <1>7, <2>1
  <2>3. F(t)[n - 1] = F(sel)[n - 1]
    BY <1>9
  <2> QED BY <2>1, <2>2, <2>3
<1>10. F(t)[Len(sel)] = F(sel)[Len(sel)]
  <2>1. \A n \in 0..Len(sel) : n \in Good
    <3> HIDE DEF Good
    <3> QED BY <1>7, <1>8, <1>9, UpTo
  <2> QED BY <1>7, <2>1
<1>11. F(t)[Len(t)] = Reached(F(t)[Len(sel)], part)
  BY <1>4, <1>7
<1>12. QueryAll(p, l, t) = Reached(QueryAll(p, l, sel), part)
  BY <1>2, <1>10, <1>11
<1> QED BY <1>6, <1>12 DEF t, Reached

\* What is closest to an element is an element, or there is nothing.
LEMMA ClosestIs ==
  ASSUME NEW p, WellFormed(p), NEW tags, NEW e \in DOMAIN p
  PROVE  Closest(p, e, tags) \in 0..Len(p)
<1> DEFINE N == Len(p)
           V == 0..N
           up == [n \in 1..N |-> p[n].up]
           T == [n \in 1..N |-> [v \in V |-> IF p[n].tag \in tags THEN n ELSE v]]
           g == CHOOSE f : f = [n \in 0..N |-> IF n = 0 THEN 0 ELSE IF p[n].tag \in tags THEN n ELSE f[p[n].up]]
<1>1. N \in Nat /\ DOMAIN p = 1..N /\ \A n \in 1..N : up[n] \in 0..(n - 1) /\ up[n] = p[n].up
  BY DEF WellFormed
<1>2. T \in [1..N -> [V -> V]] /\ 0 \in V
  <2> HIDE DEF N
  <2> QED BY <1>1
<1>3. PICK h : IsGrown(h, N, V, 0, T, up)
  <2> HIDE DEF V, up, T, N
  <2> QED BY <1>1, <1>2, Grown
<1>4. h \in [0..N -> V] /\ h[0] = 0 /\ \A n \in 1..N : h[n] = T[n][h[up[n]]]
  BY <1>3 DEF IsGrown
<1>5. \A n \in 1..N : h[n] = IF p[n].tag \in tags THEN n ELSE h[p[n].up]
  <2>1. \A n \in 1..N : up[n] \in 0..N
    BY <1>1
  <2> HIDE DEF N, V, up
  <2>2. \A n \in 1..N : T[n] = [v \in V |-> IF p[n].tag \in tags THEN n ELSE v]
    OBVIOUS
  <2> HIDE DEF T
  <2>3. \A n \in 1..N : h[up[n]] \in V
    BY <1>4, <2>1
  <2>4. \A n \in 1..N : T[n][h[up[n]]] = IF p[n].tag \in tags THEN n ELSE h[up[n]]
    BY <2>2, <2>3
  <2> QED BY <1>1, <1>4, <2>4
<1>6. h = [n \in 0..N |-> IF n = 0 THEN 0 ELSE IF p[n].tag \in tags THEN n ELSE h[p[n].up]]
  <2> HIDE DEF V, T, up, N
  <2> QED BY <1>1, <1>4, <1>5
<1>7. g = [n \in 0..N |-> IF n = 0 THEN 0 ELSE IF p[n].tag \in tags THEN n ELSE g[p[n].up]]
  <2> HIDE DEF V, T, up, N
  <2> QED BY <1>6
<1>8. Closest(p, e, tags) = g[e]
  BY DEF Closest
<1> HIDE DEF g
<1>9. g[0] = 0 /\ \A n \in 1..N : g[n] = IF p[n].tag \in tags THEN n ELSE g[p[n].up]
  <2> HIDE DEF V, T, up, N
  <2>1. 0 \in 0..N /\ \A n \in 1..N : n \in 0..N /\ n # 0
    BY <1>1
  <2> QED BY <1>7, <2>1
<1> DEFINE Good == {n \in 0..N : g[n] \in V}
<1>10. 0 \in Good
  BY <1>1, <1>9
<1>11. ASSUME NEW n \in 1..N, up[n] \in Good PROVE n \in Good
  BY <1>1, <1>9, <1>11
<1>12. \A n \in 0..N : n \in Good
  <2> HIDE DEF Good, up, N
  <2> QED BY <1>1, <1>10, <1>11, UpFrom
<1>13. e \in 0..N
  BY <1>1
<1> QED BY <1>8, <1>12, <1>13

\* No id that passes for its author's is one that a framework makes anew.
Known(p) == \A e \in DOMAIN p : AuthorId(p, e) => p[e].id \notin Made

LEMMA NameableIsKnown == ASSUME NEW p, Nameable(p) PROVE Known(p)
BY DEF Nameable, Known, AuthorId, LooksGenerated

\* An id that lasts from load to load.
Lasts(v) == \E x : v = <<x, 0, 0>>

\* So does one that passes for its author's; and it tells elements apart as their ids do.
LEMMA IdsLast ==
  ASSUME NEW p, Known(p), NEW e \in DOMAIN p, AuthorId(p, e)
  PROVE  \A l : Lasts(IdOf(p, l, e)) /\ IdOf(p, l, e) = <<p[e].id, 0, 0>>
BY DEF Known, IdOf, Lasts

LEMMA IdsApart ==
  ASSUME NEW p, WellFormed(p), Known(p), NEW e \in DOMAIN p, AuthorId(p, e), NEW o \in DOMAIN p, NEW l
  PROVE  IdOf(p, l, o) = IdOf(p, l, e) <=> p[o].id = p[e].id
<1>1. o # 0 /\ p[e].id \notin Made /\ IdOf(p, l, e) = <<p[e].id, 0, 0>>
  BY DEF WellFormed, Known, IdOf
<1> QED BY <1>1 DEF IdOf

\* Whether an element has a lasting id is the same in every load.
LEMMA SameIds ==
  ASSUME NEW p, NEW e \in DOMAIN p, WellFormed(p), NEW l, NEW k, NEW v, Lasts(v)
  PROVE  IdOf(p, l, e) = v <=> IdOf(p, k, e) = v
<1>1. e # 0
  BY DEF WellFormed
<1>2. PICK x : v = <<x, 0, 0>>
  BY DEF Lasts
<1> QED BY <1>1, <1>2 DEF IdOf

\* A part of a selector that goes by nothing a load makes anew.
Stable(p, part) ==
    /\ part.by \in {"id", "name", "label", "submit", "href", "radios", "path"}
    /\ part.within = <<>> \/ Lasts(part.within)
    /\ part.by = "id" => Lasts(part.val)
    /\ part.by = "path" => (part.val = <<>> \/ Lasts(part.val)) /\ Len(part.path) \in 1..Len(p)

LEMMA FulfilsAlike ==
  ASSUME NEW p, WellFormed(p), NEW e \in DOMAIN p, NEW l, NEW k, NEW part, Stable(p, part)
  PROVE  Fulfils(p, l, e, part) <=> Fulfils(p, k, e, part)
<1> DEFINE above == Above(p, e)
           Inside(m) == part.within # <<>> =>
                          \E n \in 1..Len(p) : above[n] # 0 /\ IdOf(p, m, above[n]) = part.within
<1>1. DOMAIN p = 1..Len(p) /\ Len(p) \in Nat
  BY DEF WellFormed
<1>2. \A n \in 0..Len(p) : above[n] \in 0..Len(p)
  BY <1>1, AboveIs
<1> HIDE DEF above
<1>3. Inside(l) <=> Inside(k)
  <2>1. CASE part.within = <<>>
    BY <2>1
  <2>2. CASE part.within # <<>>
    <3>1. Lasts(part.within)
      BY <2>2 DEF Stable
    <3>2. \A n \in 1..Len(p) : above[n] # 0 => above[n] \in DOMAIN p
      BY <1>1, <1>2
    <3>3. \A n \in 1..Len(p) : above[n] # 0 => (IdOf(p, l, above[n]) = part.within <=> IdOf(p, k, above[n]) = part.within)
      BY <3>1, <3>2, SameIds
    <3> QED BY <3>3
  <2> QED BY <2>1, <2>2
<1>4. part.by = "id" => (IdOf(p, l, e) = part.val <=> IdOf(p, k, e) = part.val)
  BY SameIds DEF Stable
<1>5. part.by = "path" => (Climbs(p, l, e, part) <=> Climbs(p, k, e, part))
  <2> SUFFICES ASSUME part.by = "path" PROVE Climbs(p, l, e, part) <=> Climbs(p, k, e, part)
    OBVIOUS
  <2> DEFINE top == above[Len(part.path)]
  <2>1. (part.val = <<>> \/ Lasts(part.val)) /\ top \in 0..Len(p)
    BY <1>1, <1>2 DEF Stable
  <2>2. part.val # <<>> /\ top # 0 => (IdOf(p, l, top) = part.val <=> IdOf(p, k, top) = part.val)
    <3> SUFFICES ASSUME part.val # <<>>, top # 0 PROVE IdOf(p, l, top) = part.val <=> IdOf(p, k, top) = part.val
      OBVIOUS
    <3>1. top \in DOMAIN p /\ Lasts(part.val)
      BY <1>1, <2>1
    <3> HIDE DEF top
    <3> QED BY <3>1, SameIds
  <2> QED BY <2>2 DEF Climbs, above
<1>6. part.by \in {"id", "name", "label", "submit", "href", "radios", "path"}
  BY DEF Stable
<1>7. \A m : Fulfils(p, m, e, part) <=>
        /\ Inside(m)
        /\ \/ part.by = "id" /\ IdOf(p, m, e) = part.val
           \/ part.by = "name" /\ p[e].tag = part.tag /\ p[e].name = part.val
           \/ part.by = "label" /\ p[e].tag = part.tag /\ <<Said(p, e, "aria-label")>> = part.val
           \/ part.by = "submit" /\ p[e].tag = part.tag /\ p[e].type = "submit"
           \/ part.by = "href" /\ p[e].tag = "a" /\ p[e].href = part.val
           \/ part.by = "radios" /\ p[e].type = "radio" /\ p[e].name = part.val
           \/ part.by = "path" /\ Climbs(p, m, e, part)
  BY <1>6 DEF Fulfils, above
<1> HIDE DEF Inside
<1> QED BY <1>3, <1>4, <1>5, <1>7

LEMMA UniqueAlike ==
  ASSUME NEW p, WellFormed(p), NEW e \in DOMAIN p, NEW l, NEW k, NEW part, Stable(p, part)
  PROVE  Unique(p, l, e, part) <=> Unique(p, k, e, part)
<1>1. \A o \in Tree(p, p[e].host) : Fulfils(p, l, o, part) <=> Fulfils(p, k, o, part)
  BY FulfilsAlike DEF Tree
<1> QED BY <1>1 DEF Unique

\* Where the path of an element ends.
Anchor(p, e, n) ==
    n # e /\ AuthorId(p, n) /\ \A o \in Tree(p, p[n].host) \ {n} : p[o].id # p[n].id
Ends(p, e, k) == Above(p, e)[k] = 0 \/ Anchor(p, e, Above(p, e)[k])
Numbered(p, n) == IF p[n].up = 0 /\ p[n].host # 0 THEN 0 ELSE Nth(p, n)
IsPath(p, e, end, l, part) ==
    /\ part.by = "path" /\ part.within = <<>>
    /\ part.val = IF Above(p, e)[end] = 0 THEN <<>> ELSE IdOf(p, l, Above(p, e)[end])
    /\ part.path = [k \in 1..end |-> [tag |-> p[Above(p, e)[k - 1]].tag, nth |-> Numbered(p, Above(p, e)[k - 1])]]

LEMMA PathIs ==
  ASSUME NEW p, WellFormed(p), Known(p), NEW e \in DOMAIN p
  PROVE  \E end \in 1..Len(p) : /\ Ends(p, e, end) /\ \A k \in 1..(end - 1) : ~Ends(p, e, k)
                                /\ \A l : IsPath(p, e, end, l, PathTo(p, l, e)) /\ Stable(p, PathTo(p, l, e))
                                /\ \A l, k : PathTo(p, l, e) = PathTo(p, k, e)
<1> DEFINE T == {k \in 1..Len(p) : Ends(p, e, k)}
           end == Min(T)
<1>1. DOMAIN p = 1..Len(p) /\ Len(p) \in Nat
  BY DEF WellFormed
<1>2. Len(p) \in T
  BY <1>1, AboveEnds DEF Ends
<1>3. end \in T /\ \A k \in T : end <= k
  <2>1. T \subseteq Nat
    OBVIOUS
  <2> HIDE DEF T
  <2> QED BY <1>2, <2>1, FirstPlace
<1>4. \A l : PathTo(p, l, e) = [by |-> "path", tag |-> "",
                  val |-> IF Above(p, e)[end] = 0 THEN <<>> ELSE IdOf(p, l, Above(p, e)[end]), within |-> <<>>,
                  path |-> [k \in 1..end |-> [tag |-> p[Above(p, e)[k - 1]].tag, nth |-> Numbered(p, Above(p, e)[k - 1])]]]
  <2> TAKE l
  <2> DEFINE Anchors(n) == /\ n # e /\ AuthorId(p, n)
                           /\ \A o \in Tree(p, p[n].host) \ {n} : IdOf(p, l, o) # IdOf(p, l, n)
             S == {k \in 1..Len(p) : Above(p, e)[k] = 0 \/ Anchors(Above(p, e)[k])}
  <2>1. ASSUME NEW n \in DOMAIN p PROVE Anchors(n) <=> Anchor(p, e, n)
    BY IdsApart DEF Anchor, Tree
  <2>2. \A k \in 1..Len(p) : Above(p, e)[k] = 0 \/ Above(p, e)[k] \in DOMAIN p
    BY <1>1, AboveIs
  <2>3. PathTo(p, l, e) = [by |-> "path", tag |-> "",
                val |-> IF Above(p, e)[Min(S)] = 0 THEN <<>> ELSE IdOf(p, l, Above(p, e)[Min(S)]), within |-> <<>>,
                path |-> [k \in 1..Min(S) |-> [tag |-> p[Above(p, e)[k - 1]].tag, nth |-> Numbered(p, Above(p, e)[k - 1])]]]
    BY DEF PathTo, Numbered
  <2> HIDE DEF Anchors
  <2>4. S = T
    BY <2>1, <2>2 DEF Ends
  <2>5. Min(S) = end
    BY <2>4
  <2> HIDE DEF S, end
  <2> QED BY <2>3, <2>5
<1>5. end \in 1..Len(p) /\ Ends(p, e, end) /\ \A k \in 1..(end - 1) : ~Ends(p, e, k)
  <2> HIDE DEF end
  <2> QED BY <1>1, <1>3
<1> HIDE DEF end, T
<1>6. Above(p, e)[end] # 0 => \A l, k : Lasts(IdOf(p, l, Above(p, e)[end])) /\ IdOf(p, l, Above(p, e)[end]) = IdOf(p, k, Above(p, e)[end])
  <2> SUFFICES ASSUME Above(p, e)[end] # 0
               PROVE  \A l, k : /\ Lasts(IdOf(p, l, Above(p, e)[end]))
                                /\ IdOf(p, l, Above(p, e)[end]) = IdOf(p, k, Above(p, e)[end])
    OBVIOUS
  <2>1. AuthorId(p, Above(p, e)[end]) /\ Above(p, e)[end] \in DOMAIN p
    BY <1>1, <1>5, AboveIs DEF Ends, Anchor
  <2> QED BY <2>1, IdsLast
<1> DEFINE path == [k \in 1..end |-> [tag |-> p[Above(p, e)[k - 1]].tag, nth |-> Numbered(p, Above(p, e)[k - 1])]]
<1>7. Len(path) = end
  <2>1. end \in Nat /\ DOMAIN path = 1..end
    BY <1>1, <1>5
  <2> HIDE DEF path
  <2> QED BY <2>1
<1>8. ASSUME NEW l
      PROVE  /\ PathTo(p, l, e).by = "path" /\ PathTo(p, l, e).within = <<>> /\ PathTo(p, l, e).path = path
             /\ PathTo(p, l, e).val = IF Above(p, e)[end] = 0 THEN <<>> ELSE IdOf(p, l, Above(p, e)[end])
  <2> HIDE DEF path
  <2> DEFINE got == PathTo(p, l, e)
  <2>1. got = [by |-> "path", tag |-> "",
               val |-> IF Above(p, e)[end] = 0 THEN <<>> ELSE IdOf(p, l, Above(p, e)[end]), within |-> <<>>, path |-> path]
    BY <1>4 DEF path
  <2> HIDE DEF got
  <2>2. got.by = "path" /\ got.within = <<>> /\ got.path = path
    BY <2>1
  <2>3. got.val = IF Above(p, e)[end] = 0 THEN <<>> ELSE IdOf(p, l, Above(p, e)[end])
    BY <2>1
  <2> QED BY <2>2, <2>3 DEF got
<1>9. \A l : IsPath(p, e, end, l, PathTo(p, l, e)) /\ Stable(p, PathTo(p, l, e))
  <2> HIDE DEF path
  <2>1. \A l : Stable(p, PathTo(p, l, e))
    BY <1>5, <1>6, <1>7, <1>8 DEF Stable
  <2>2. \A l : IsPath(p, e, end, l, PathTo(p, l, e))
    BY <1>8 DEF IsPath, path
  <2> QED BY <2>1, <2>2
<1>10. \A l, k : PathTo(p, l, e) = PathTo(p, k, e)
  BY <1>4, <1>6
<1> QED BY <1>5, <1>9, <1>10

\* What is tried is the same in every load.
LEMMA TriesAlike ==
  ASSUME NEW p, WellFormed(p), Known(p), NEW e \in DOMAIN p, NEW l, NEW k, NEW i \in 1..6
  PROVE  /\ DOMAIN Tries(p, l, e) = 1..6
         /\ Tries(p, l, e)[i].when <=> Tries(p, k, e)[i].when
         /\ Tries(p, l, e)[i].when =>
              Stable(p, Tries(p, l, e)[i].part) /\ Tries(p, l, e)[i].part = Tries(p, k, e)[i].part
<1> DEFINE o == Owner(p, e)
           owned == p[e].tag \in {"input", "select", "textarea", "button"} /\ o # 0 /\ AuthorId(p, o)
           Form(m) == IF owned THEN IdOf(p, m, o) ELSE <<>>
<1>1. owned => Lasts(Form(l)) /\ Form(l) = Form(k)
  <2>1. DOMAIN p = 1..Len(p) /\ Len(p) \in Nat /\ o \in 0..Len(p)
    BY ClosestIs DEF WellFormed, Owner
  <2>2. o # 0 => o \in DOMAIN p
    BY <2>1
  <2> HIDE DEF o
  <2> QED BY <2>2, IdsLast
<1>2. AuthorId(p, e) => Lasts(IdOf(p, l, e)) /\ IdOf(p, l, e) = IdOf(p, k, e)
  BY IdsLast
<1> DEFINE Part(m, n) ==
             IF n = 1 THEN AttrSel("id", "", IdOf(p, m, e), <<>>)
             ELSE IF n = 2 THEN AttrSel("name", p[e].tag, p[e].name, <<>>)
             ELSE IF n = 3 THEN AttrSel("name", p[e].tag, p[e].name, Form(m))
             ELSE IF n = 4 THEN AttrSel("label", p[e].tag, <<Said(p, e, "aria-label")>>, <<>>)
             ELSE IF n = 5 THEN AttrSel("submit", p[e].tag, <<>>, Form(m))
             ELSE AttrSel("href", "a", p[e].href, <<>>)
           Given(n) ==
             IF n = 1 THEN AuthorId(p, e)
             ELSE IF n = 2 THEN p[e].name # <<>>
             ELSE IF n = 3 THEN p[e].name # <<>> /\ owned
             ELSE IF n = 4 THEN Said(p, e, "aria-label") # ""
             ELSE IF n = 5 THEN owned /\ p[e].type = "submit"
             ELSE p[e].tag = "a" /\ p[e].href[1] \notin {"", "inpage"}
<1>3. \A m : Tries(p, m, e) = <<[when |-> Given(1), part |-> Part(m, 1)], [when |-> Given(2), part |-> Part(m, 2)],
                                [when |-> Given(3), part |-> Part(m, 3)], [when |-> Given(4), part |-> Part(m, 4)],
                                [when |-> Given(5), part |-> Part(m, 5)], [when |-> Given(6), part |-> Part(m, 6)]>>
  BY DEF Tries
<1>4. \A m : DOMAIN Tries(p, m, e) = 1..6 /\ Tries(p, m, e)[i] = [when |-> Given(i), part |-> Part(m, i)]
  <2> HIDE DEF Part, Given
  <2> QED BY <1>3
<1>5. Given(i) => (i = 1 => AuthorId(p, e)) /\ (i \in {3, 5} => owned)
  <2> HIDE DEF owned
  <2>1. i = 1 => (Given(i) <=> AuthorId(p, e))
    OBVIOUS
  <2>2. i = 3 => (Given(i) <=> p[e].name # <<>> /\ owned)
    OBVIOUS
  <2>3. i = 5 => (Given(i) <=> owned /\ p[e].type = "submit")
    OBVIOUS
  <2> QED BY <2>1, <2>2, <2>3
<1> HIDE DEF Form, Given
<1>6. ASSUME Given(i) PROVE Part(l, i) = Part(k, i)
  <2>1. i = 1 => IdOf(p, l, e) = IdOf(p, k, e)
    BY <1>2, <1>5, <1>6
  <2>2. i \in {3, 5} => Form(l) = Form(k)
    BY <1>1, <1>5, <1>6
  <2> QED BY <2>1, <2>2
<1>7. ASSUME Given(i) PROVE Stable(p, Part(l, i))
  <2>1. /\ Part(l, i).by \in {"id", "name", "label", "submit", "href"}
        /\ Part(l, i).by = "id" => i = 1
    BY DEF AttrSel
  <2>2. Part(l, i).within = IF i \in {3, 5} THEN Form(l) ELSE <<>>
    BY DEF AttrSel
  <2>3. i = 1 => Part(l, i).val = IdOf(p, l, e)
    BY DEF AttrSel
  <2> HIDE DEF Part
  <2> QED BY <1>1, <1>2, <1>5, <1>7, <2>1, <2>2, <2>3 DEF Stable
<1> HIDE DEF Part
<1>8. ASSUME NEW m PROVE (Tries(p, m, e)[i].when <=> Given(i)) /\ Tries(p, m, e)[i].part = Part(m, i)
  <2> DEFINE t == Tries(p, m, e)[i]
  <2>1. t = [when |-> Given(i), part |-> Part(m, i)]
    BY <1>4
  <2> HIDE DEF t
  <2>2. t.part = Part(m, i)
    BY <2>1
  <2>3. t.when <=> Given(i)
    BY <2>1
  <2> QED BY <2>2, <2>3 DEF t
<1> QED BY <1>4, <1>6, <1>7, <1>8

\* What is chosen: the path, or what was tried and is unique.
LEMMA SelectorInRootIs ==
  ASSUME NEW p, WellFormed(p), Known(p), NEW e \in DOMAIN p, NEW l, NEW k
  PROVE  /\ SelectorInRoot(p, l, e) = SelectorInRoot(p, k, e)
         /\ Stable(p, SelectorInRoot(p, l, e))
         /\ \/ Unique(p, l, e, SelectorInRoot(p, l, e))
            \/ /\ SelectorInRoot(p, l, e) = PathTo(p, l, e)
               /\ \A i \in 1..6 : Tries(p, l, e)[i].when => ~Unique(p, l, e, Tries(p, l, e)[i].part)
<1> DEFINE Good(m) == {i \in DOMAIN Tries(p, m, e) : Tries(p, m, e)[i].when /\ Unique(p, m, e, Tries(p, m, e)[i].part)}
<1>1. \A m : DOMAIN Tries(p, m, e) = 1..6
  BY DEF Tries
<1>2. Good(l) = Good(k)
  <2>1. ASSUME NEW i \in 1..6 PROVE i \in Good(l) <=> i \in Good(k)
    <3>1. /\ Tries(p, l, e)[i].when <=> Tries(p, k, e)[i].when
          /\ Tries(p, l, e)[i].when =>
                Stable(p, Tries(p, l, e)[i].part) /\ Tries(p, l, e)[i].part = Tries(p, k, e)[i].part
      BY TriesAlike
    <3>2. Tries(p, l, e)[i].when =>
            (Unique(p, l, e, Tries(p, l, e)[i].part) <=> Unique(p, k, e, Tries(p, k, e)[i].part))
      BY <3>1, UniqueAlike
    <3> QED BY <1>1, <3>1, <3>2
  <2> QED BY <1>1, <2>1
<1>3. \A m : SelectorInRoot(p, m, e) = IF Good(m) = {} THEN PathTo(p, m, e) ELSE Tries(p, m, e)[Min(Good(m))].part
  BY DEF SelectorInRoot
<1>4. CASE Good(l) = {}
  <2>1. SelectorInRoot(p, l, e) = PathTo(p, l, e) /\ SelectorInRoot(p, k, e) = PathTo(p, k, e)
    BY <1>2, <1>3, <1>4
  <2>2. \A i \in 1..6 : Tries(p, l, e)[i].when => ~Unique(p, l, e, Tries(p, l, e)[i].part)
    BY <1>1, <1>4
  <2>3. Stable(p, PathTo(p, l, e)) /\ PathTo(p, l, e) = PathTo(p, k, e)
    BY PathIs
  <2> QED BY <2>1, <2>2, <2>3
<1>5. CASE Good(l) # {}
  <2> DEFINE i == Min(Good(l))
  <2>1. Good(l) \subseteq Nat
    BY <1>1
  <2>2. i \in Good(l)
    <3> HIDE DEF Good
    <3> QED BY <1>5, <2>1, FirstPlace
  <2>3. SelectorInRoot(p, l, e) = Tries(p, l, e)[i].part /\ SelectorInRoot(p, k, e) = Tries(p, k, e)[i].part
    BY <1>2, <1>3, <1>5
  <2>4. i \in 1..6 /\ Tries(p, l, e)[i].when /\ Unique(p, l, e, Tries(p, l, e)[i].part)
    BY <1>1, <2>2
  <2> HIDE DEF i
  <2>5. Stable(p, Tries(p, l, e)[i].part) /\ Tries(p, l, e)[i].part = Tries(p, k, e)[i].part
    BY <2>4, TriesAlike
  <2> QED BY <2>3, <2>4, <2>5
<1> QED BY <1>4, <1>5

\* A selector is the same in every load.
LEMMA SelectorForAlike ==
  ASSUME NEW p, WellFormed(p), Known(p), NEW l, NEW k
  PROVE  \A e \in 0..Len(p) : SelectorFor(p, l, e) = SelectorFor(p, k, e)
<1> DEFINE Good == {e \in 0..Len(p) : SelectorFor(p, l, e) = SelectorFor(p, k, e)}
           host == [n \in 1..Len(p) |-> p[n].host]
<1>1. DOMAIN p = 1..Len(p) /\ Len(p) \in Nat /\ \A n \in 1..Len(p) : host[n] \in 0..(n - 1) /\ host[n] = p[n].host
  BY DEF WellFormed
<1>2. 0 \in Good
  BY <1>1, SelectorForIs
<1>3. ASSUME NEW n \in 1..Len(p), host[n] \in Good PROVE n \in Good
  <2>0. n \in DOMAIN p /\ n \in 0..Len(p)
    BY <1>1
  <2>1. SelectorFor(p, l, n) = Append(SelectorFor(p, l, p[n].host), SelectorInRoot(p, l, n))
    BY <1>1, SelectorForIs
  <2>2. SelectorFor(p, k, n) = Append(SelectorFor(p, k, p[n].host), SelectorInRoot(p, k, n))
    BY <1>1, SelectorForIs
  <2>3. SelectorInRoot(p, l, n) = SelectorInRoot(p, k, n)
    BY <2>0, SelectorInRootIs
  <2> QED BY <1>1, <2>0, <1>3, <2>1, <2>2, <2>3
<1>4. \A n \in 0..Len(p) : n \in Good
  <2> HIDE DEF Good, host
  <2> QED BY <1>1, <1>2, <1>3, UpFrom
<1> QED BY <1>4

\* Of siblings with one tag each has a number of its own.
LEMMA NthApart ==
  ASSUME NEW p, NEW a \in Nat \ {0}, NEW b \in Nat \ {0},
         p[a].up = p[b].up, p[a].host = p[b].host, p[a].tag = p[b].tag
  PROVE  /\ Nth(p, a) # 0
         /\ Nth(p, a) = Nth(p, b) => a = b
<1> DEFINE Upto(e) == {s \in 1..e : p[s].up = p[e].up /\ p[s].host = p[e].host /\ p[s].tag = p[e].tag}
<1>1. ASSUME NEW e \in Nat \ {0} PROVE IsFiniteSet(Upto(e)) /\ Cardinality(Upto(e)) \in Nat /\ e \in Upto(e)
  <2>1. IsFiniteSet(1..e) /\ Upto(e) \subseteq 1..e /\ e \in Upto(e)
    BY FS_Interval
  <2> HIDE DEF Upto
  <2> QED BY <2>1, FS_Subset, FS_CardinalityType
<1>2. ASSUME NEW c \in {a, b}, NEW d \in {a, b}, c < d PROVE Cardinality(Upto(c)) # Cardinality(Upto(d))
  <2>1. Upto(c) \subseteq Upto(d) /\ d \notin Upto(c)
    BY <1>2
  <2>2. IsFiniteSet(Upto(d)) /\ d \in Upto(d)
    BY <1>1
  <2> HIDE DEF Upto
  <2> QED BY <2>1, <2>2, FS_Subset
<1>3. Nth(p, a) = Cardinality(Upto(a)) /\ Nth(p, b) = Cardinality(Upto(b))
  BY DEF Nth
<1>4. Cardinality(Upto(a)) # 0
  <2>1. IsFiniteSet(Upto(a)) /\ a \in Upto(a)
    BY <1>1
  <2> HIDE DEF Upto
  <2> QED BY <2>1, FS_EmptySet
<1>5. a = b \/ a < b \/ b < a
  OBVIOUS
<1> HIDE DEF Upto
<1> QED BY <1>2, <1>3, <1>4, <1>5

\* An id of the author's that no other has in the tree is one that selects its element.
LEMMA IdSelects ==
  ASSUME NEW p, WellFormed(p), Known(p), NEW e \in DOMAIN p, NEW l, AuthorId(p, e),
         \A o \in Tree(p, p[e].host) \ {e} : p[o].id # p[e].id
  PROVE  /\ \A o \in Tree(p, p[e].host) : IdOf(p, l, o) = IdOf(p, l, e) => o = e
         /\ Tries(p, l, e)[1].when
         /\ Unique(p, l, e, Tries(p, l, e)[1].part)
<1>2. ASSUME NEW o \in Tree(p, p[e].host), IdOf(p, l, o) = IdOf(p, l, e) PROVE o = e
  <2>1. o \in DOMAIN p
    BY DEF Tree
  <2>2. p[o].id = p[e].id
    BY <1>2, <2>1, IdsApart
  <2> QED BY <2>2
<1> DEFINE t == Tries(p, l, e)[1]
<1>3. t = [when |-> AuthorId(p, e), part |-> AttrSel("id", "", IdOf(p, l, e), <<>>)]
  BY DEF Tries
<1> HIDE DEF t
<1>4. t.when
  BY <1>3
<1>5. t.part.by = "id" /\ t.part.val = IdOf(p, l, e) /\ t.part.within = <<>>
  BY <1>3 DEF AttrSel
<1>6. \A o : Fulfils(p, l, o, t.part) <=> IdOf(p, l, o) = IdOf(p, l, e)
  BY <1>5 DEF Fulfils
<1>7. e \in Tree(p, p[e].host)
  BY DEF Tree
<1>8. Unique(p, l, e, t.part)
  BY <1>2, <1>6, <1>7 DEF Unique
<1> QED BY <1>2, <1>4, <1>8 DEF t

\* The path of an element leads up from it, and from no other of its tree.
LEMMA PathFinds ==
  ASSUME NEW p, WellFormed(p), Nameable(p), NEW e \in DOMAIN p, NEW l,
         \A i \in 1..6 : Tries(p, l, e)[i].when => ~Unique(p, l, e, Tries(p, l, e)[i].part)
  PROVE  Unique(p, l, e, PathTo(p, l, e))
<1> DEFINE part == PathTo(p, l, e)
           A == Above(p, e)
<1>0. Known(p)
  BY NameableIsKnown
<1> USE <1>0
<1>1. DOMAIN p = 1..Len(p) /\ Len(p) \in Nat
  BY DEF WellFormed
<1>2. PICK end \in 1..Len(p) : /\ Ends(p, e, end) /\ \A k \in 1..(end - 1) : ~Ends(p, e, k)
                               /\ IsPath(p, e, end, l, part)
  BY PathIs
<1>3. /\ A[0] = e
      /\ \A k \in 1..end : A[k] = IF A[k - 1] = 0 THEN 0 ELSE p[A[k - 1]].up
      /\ \A k \in 0..end : A[k] \in 0..Len(p) /\ (A[k] # 0 => p[A[k]].host = p[e].host)
  <2>1. (1..end) \subseteq 1..Len(p) /\ (0..end) \subseteq 0..Len(p) /\ e \in 0..Len(p)
    BY <1>1
  <2> HIDE DEF part
  <2>2. A[0] = e /\ \A k \in 1..Len(p) : A[k] = IF A[k - 1] = 0 THEN 0 ELSE p[A[k - 1]].up
    BY <2>1, AboveIs
  <2>3. \A k \in 0..Len(p) : A[k] \in 0..Len(p) /\ (A[k] # 0 => p[A[k]].host = p[e].host)
    BY <2>1, AboveIs
  <2> HIDE DEF A
  <2> QED BY <2>1, <2>2, <2>3
<1>4. \A k \in 1..end : A[k - 1] \in DOMAIN p
  <2> TAKE k \in 1..end
  <2>1. CASE k = 1
    BY <1>3, <2>1
  <2>2. CASE k # 1
    <3>1. k - 1 \in 1..(end - 1) /\ k - 1 \in 0..end
      BY <2>2
    <3>2. A[k - 1] # 0
      BY <1>2, <3>1 DEF Ends
    <3> QED BY <1>1, <1>3, <3>1, <3>2
  <2> QED BY <2>1, <2>2
<1> DEFINE step == [k \in 1..end |-> [tag |-> p[A[k - 1]].tag, nth |-> Numbered(p, A[k - 1])]]
<1>5. /\ part.by = "path" /\ part.within = <<>> /\ part.val = IF A[end] = 0 THEN <<>> ELSE IdOf(p, l, A[end])
      /\ part.path = step
  BY <1>2 DEF IsPath
<1>6. Len(step) = end /\ DOMAIN step = 1..end
  <2>1. end \in Nat /\ DOMAIN step = 1..end
    OBVIOUS
  <2> HIDE DEF step
  <2> QED BY <2>1
<1>7. \A k \in 1..end : step[k].tag = p[A[k - 1]].tag /\ step[k].nth = Numbered(p, A[k - 1])
  OBVIOUS
<1>8. A[end] # 0 => /\ AuthorId(p, A[end]) /\ \A o \in Tree(p, p[e].host) \ {A[end]} : p[o].id # p[A[end]].id
                    /\ A[end] \in DOMAIN p /\ p[A[end]].host = p[e].host
  <2>1. end \in 0..end
    OBVIOUS
  <2> QED BY <1>1, <1>2, <1>3, <2>1 DEF Ends, Anchor
<1>9. A[end] # 0 => part.val # <<>>
  <2> HIDE DEF part, A, step
  <2>1. A[end] # 0 => part.val = <<p[A[end]].id, 0, 0>>
    BY <1>5, <1>8, IdsLast
  <2>2. \A x : <<x, 0, 0>> # <<>>
    OBVIOUS
  <2> QED BY <2>1, <2>2
<1> HIDE DEF step, part, A
<1>10. \A o : Fulfils(p, l, o, part) <=> Climbs(p, l, o, part)
  BY <1>5 DEF Fulfils
<1>11. \A o : Climbs(p, l, o, part) <=>
         /\ \A k \in 1..end : /\ Above(p, o)[k - 1] # 0 /\ p[Above(p, o)[k - 1]].tag = p[A[k - 1]].tag
                              /\ Numbered(p, A[k - 1]) \in {0, Nth(p, Above(p, o)[k - 1])}
         /\ IF part.val # <<>> THEN Above(p, o)[end] # 0 /\ IdOf(p, l, Above(p, o)[end]) = part.val
                               ELSE p[o].host = 0 => Above(p, o)[end] = 0
  BY <1>5, <1>6, <1>7 DEF Climbs
<1>12. Climbs(p, l, e, part)
  <2>1. \A k \in 1..end : A[k - 1] # 0 /\ Numbered(p, A[k - 1]) \in {0, Nth(p, A[k - 1])}
    BY <1>1, <1>4 DEF Numbered
  <2>2. IF part.val # <<>> THEN A[end] # 0 /\ IdOf(p, l, A[end]) = part.val ELSE A[end] = 0
    BY <1>5, <1>9
  <2> QED BY <1>11, <2>1, <2>2 DEF A
<1>13. ASSUME NEW o \in Tree(p, p[e].host), Climbs(p, l, o, part) PROVE o = e
  <2> DEFINE B == Above(p, o)
  <2>1. o \in DOMAIN p /\ p[o].host = p[e].host
    BY DEF Tree
  <2>2. /\ B[0] = o
        /\ \A k \in 1..end : B[k] = IF B[k - 1] = 0 THEN 0 ELSE p[B[k - 1]].up
        /\ \A k \in 0..end : B[k] \in 0..Len(p) /\ (B[k] # 0 => p[B[k]].host = p[e].host)
    <3>1. (1..end) \subseteq 1..Len(p) /\ (0..end) \subseteq 0..Len(p) /\ o \in 0..Len(p)
      BY <1>1, <2>1
    <3> QED BY <2>1, <3>1, AboveIs
  <2>3. /\ \A k \in 1..end : /\ B[k - 1] # 0 /\ p[B[k - 1]].tag = p[A[k - 1]].tag
                             /\ Numbered(p, A[k - 1]) \in {0, Nth(p, B[k - 1])}
        /\ IF part.val # <<>> THEN B[end] # 0 /\ IdOf(p, l, B[end]) = part.val
                              ELSE p[o].host = 0 => B[end] = 0
    BY <1>11, <1>13
  <2> HIDE DEF B
  <2> DEFINE Alike(k) == B[k] = A[k] \/ (A[k] = 0 /\ p[e].host # 0)
  <2>4. Alike(end)
    <3>1. CASE A[end] = 0
      BY <1>5, <2>1, <2>3, <3>1
    <3>2. CASE A[end] # 0
      <4>1. B[end] # 0 /\ IdOf(p, l, B[end]) = IdOf(p, l, A[end])
        BY <1>5, <1>9, <2>3, <3>2
      <4>2. B[end] \in Tree(p, p[e].host)
        <5>1. end \in 0..end
          OBVIOUS
        <5> QED BY <1>1, <2>2, <4>1, <5>1 DEF Tree
      <4> QED BY <1>8, <3>2, <4>1, <4>2, IdSelects
    <3> QED BY <3>1, <3>2
  <2>5. ASSUME NEW k \in 1..end, Alike(k) PROVE B[k - 1] = A[k - 1]
    <3> DEFINE a == A[k - 1]
               b == B[k - 1]
    <3>1. /\ k - 1 \in 0..end
          /\ a \in DOMAIN p /\ p[a].host = p[e].host /\ p[a].up = A[k]
          /\ b \in DOMAIN p /\ p[b].host = p[e].host /\ p[b].up = B[k] /\ p[b].tag = p[a].tag
          /\ Numbered(p, a) \in {0, Nth(p, b)}
      <4>1. k - 1 \in 0..end
        OBVIOUS
      <4>2. a \in DOMAIN p /\ a # 0
        BY <1>1, <1>4
      <4>3. b \in DOMAIN p /\ b # 0
        BY <1>1, <2>2, <2>3, <4>1
      <4> QED BY <1>3, <2>2, <2>3, <4>1, <4>2, <4>3
    <3> HIDE DEF a, b
    <3>2. CASE p[a].up = 0 /\ p[a].host # 0
      <4>1. \/ AuthorId(p, a) /\ \A x \in Tree(p, p[a].host) \ {a} : p[x].id # p[a].id
            \/ \A x \in Tree(p, p[a].host) \ {a} : p[x].tag # p[a].tag
        BY <3>1, <3>2 DEF Nameable
      <4>2. CASE AuthorId(p, a) /\ \A x \in Tree(p, p[a].host) \ {a} : p[x].id # p[a].id
        <5>1. CASE a = e
          <6>1. Tries(p, l, e)[1].when /\ Unique(p, l, e, Tries(p, l, e)[1].part)
            BY <4>2, <5>1, IdSelects
          <6> QED BY <6>1
        <5>2. CASE a # e
          <6>1. k - 1 \in 1..(end - 1)
            BY <1>3, <5>2 DEF a
          <6>2. Ends(p, e, k - 1)
            BY <4>2, <5>2 DEF Ends, Anchor, a, A
          <6> QED BY <1>2, <6>1, <6>2
        <5> QED BY <5>1, <5>2
      <4>3. CASE \A x \in Tree(p, p[a].host) \ {a} : p[x].tag # p[a].tag
        <5>1. b \in Tree(p, p[a].host)
          BY <3>1 DEF Tree
        <5> QED BY <3>1, <4>3, <5>1 DEF a, b
      <4> QED BY <4>1, <4>2, <4>3
    <3>3. CASE ~(p[a].up = 0 /\ p[a].host # 0)
      <4>1. p[a].up = p[b].up /\ p[a].host = p[b].host
        BY <2>5, <3>1, <3>3
      <4>2. a \in Nat \ {0} /\ b \in Nat \ {0}
        BY <1>1, <3>1
      <4>3. Nth(p, a) \in {0, Nth(p, b)}
        BY <3>1, <3>3 DEF Numbered
      <4>4. a = b
        BY <3>1, <4>1, <4>2, <4>3, NthApart
      <4> QED BY <4>4 DEF a, b
    <3> QED BY <3>2, <3>3
  <2> DEFINE Good == {j \in 0..end : Alike(end - j)}
  <2>6. 0 \in Good
    BY <2>4
  <2>7. ASSUME NEW j \in 1..end, j - 1 \in Good PROVE j \in Good
    <3> DEFINE k == end - (j - 1)
    <3>1. k \in 1..end /\ k - 1 = end - j /\ Alike(k)
      BY <2>7
    <3>2. B[k - 1] = A[k - 1]
      <4> HIDE DEF Alike, k
      <4> QED BY <2>5, <3>1
    <3> QED BY <3>1, <3>2
  <2>8. end \in Good
    <3>1. \A j \in 0..end : j \in Good
      <4> HIDE DEF Good
      <4>1. end \in Nat
        OBVIOUS
      <4> QED BY <2>6, <2>7, <4>1, UpTo
    <3>2. end \in 0..end
      OBVIOUS
    <3> QED BY <3>1, <3>2
  <2>9. Alike(0)
    BY <2>8
  <2> QED BY <1>1, <1>3, <2>2, <2>9
<1>14. e \in Tree(p, p[e].host)
  BY DEF Tree
<1> QED BY <1>10, <1>12, <1>13, <1>14 DEF Unique, part

\* A selector, in whatever load it was made, finds its element in every load, and no other.
LEMMA SelectorFinds ==
  ASSUME NEW p, WellFormed(p), Nameable(p), NEW l, NEW k
  PROVE  \A e \in DOMAIN p : QueryAll(p, k, SelectorFor(p, l, e)) = {e}
<1> DEFINE host == [n \in 1..Len(p) |-> p[n].host]
           Good == {e \in 0..Len(p) : QueryAll(p, k, SelectorFor(p, k, e)) = {e}}
           X == {SelectorInRoot(p, k, n) : n \in DOMAIN p}
<1>0. Known(p)
  BY NameableIsKnown
<1> USE <1>0
<1>1. /\ DOMAIN p = 1..Len(p) /\ Len(p) \in Nat
      /\ \A n \in 1..Len(p) : host[n] \in 0..(n - 1) /\ host[n] = p[n].host /\ host[n] \in 0..Len(p)
  BY DEF WellFormed
<1>2. 0 \in Good
  <2>1. SelectorFor(p, k, 0) = <<>>
    BY SelectorForIs
  <2>2. <<>> \in Seq({1}) /\ 1 \in {1}
    OBVIOUS
  <2>3. QueryAll(p, k, <<>>) = {0}
    BY <2>2, QueryAllIs
  <2> QED BY <1>1, <2>1, <2>3
<1>3. ASSUME NEW n \in 1..Len(p), host[n] \in Good PROVE n \in Good
  <2> DEFINE part == SelectorInRoot(p, k, n)
             outer == SelectorFor(p, k, p[n].host)
  <2>1. n \in DOMAIN p /\ n \in 0..Len(p) /\ part \in X /\ p[n].host \in 0..Len(p)
    BY <1>1
  <2>2. SelectorFor(p, k, n) = Append(outer, part) /\ outer \in Seq(X)
    BY <2>1, SelectorForIs
  <2>3. QueryAll(p, k, outer) = {p[n].host}
    BY <1>1, <1>3
  <2>4. Unique(p, k, n, part)
    BY <2>1, SelectorInRootIs, PathFinds
  <2> HIDE DEF part, outer, X
  <2>5. \A o : o \in QueryAll(p, k, Append(outer, part)) <=>
               o \in DOMAIN p /\ p[o].host \in QueryAll(p, k, outer) /\ Fulfils(p, k, o, part)
    <3>1. outer \in Seq(X)
      BY <2>2
    <3>2. part \in X
      BY <2>1
    <3> QED BY <3>1, <3>2, QueryAllIs
  <2>6. QueryAll(p, k, Append(outer, part)) = {n}
    BY <2>3, <2>4, <2>5 DEF Unique, Tree
  <2> QED BY <2>1, <2>2, <2>6
<1>4. \A n \in 0..Len(p) : n \in Good
  <2> HIDE DEF Good, host
  <2> QED BY <1>1, <1>2, <1>3, UpFrom
<1>5. \A e \in DOMAIN p : e \in 0..Len(p)
  BY <1>1
<1> QED BY <1>4, <1>5, SelectorForAlike

\* A key with its number and so many "_": the more, the longer.
LEMMA PaddedIsLonger ==
  ASSUME NEW X, NEW key \in Seq(X), NEW n, NEW k \in Nat
  PROVE  Len(Padded(key, n, k)) = Len(key) + 1 + k
<1> DEFINE pad == [j \in 1..k |-> ""]
           Z == X \cup {ToString(n), ""}
           front == key \o <<ToString(n)>>
<1>1. pad \in Seq(Z) /\ Len(pad) = k
  <2>1. pad \in [1..k -> Z]
    OBVIOUS
  <2> HIDE DEF pad, Z
  <2> QED BY <2>1, FunctionIsSeq
<1>2. key \in Seq(Z) /\ <<ToString(n)>> \in Seq(Z) /\ Len(<<ToString(n)>>) = 1
  <2>1. X \subseteq Z /\ ToString(n) \in Z
    OBVIOUS
  <2> HIDE DEF Z
  <2>2. key \in Seq(Z)
    <3>1. key \in [1..Len(key) -> Z] /\ Len(key) \in Nat
      BY <2>1
    <3> QED BY <3>1, FunctionIsSeq
  <2>3. <<ToString(n)>> \in Seq(Z) /\ Len(<<ToString(n)>>) = 1
    BY <2>1
  <2> QED BY <2>2, <2>3
<1>3. front \in Seq(Z) /\ Len(front) = Len(key) + 1
  <2> HIDE DEF Z
  <2> QED BY <1>2
<1> HIDE DEF Z, pad, front
<1>4. Len(front \o pad) = Len(key) + 1 + k
  <2>1. Len(front \o pad) = Len(front) + Len(pad)
    BY <1>1, <1>3
  <2> QED BY <1>1, <1>3, <2>1
<1> QED BY <1>4 DEF Padded, front, pad

\* One of them is not among those there are.
LEMMA FreeIsThere ==
  ASSUME NEW X, NEW key \in Seq(X), NEW n, NEW m \in Nat \ {0}, NEW done, NEW keys
  PROVE  \E k \in 0..(2 * m) : \A i \in 1..(m - 1) : Padded(key, n, k) \notin {done[i], keys[i]}
<1> SUFFICES ASSUME \A k \in 0..(2 * m) : \E i \in 1..(m - 1) : Padded(key, n, k) \in {done[i], keys[i]}
             PROVE  FALSE
  OBVIOUS
<1> DEFINE S == 0..(2 * m)
           T == 1..(2 * (m - 1))
           At(j) == IF j < m THEN done[j] ELSE keys[j - (m - 1)]
           f == [k \in S |-> CHOOSE j \in T : Padded(key, n, k) = At(j)]
<1>1. ASSUME NEW k \in S PROVE \E j \in T : Padded(key, n, k) = At(j)
  <2>1. PICK i \in 1..(m - 1) : Padded(key, n, k) \in {done[i], keys[i]}
    OBVIOUS
  <2>2. i \in T /\ i < m /\ i + (m - 1) \in T /\ ~(i + (m - 1) < m) /\ (i + (m - 1)) - (m - 1) = i
    OBVIOUS
  <2>3. At(i) = done[i] /\ At(i + (m - 1)) = keys[i]
    BY <2>2
  <2> HIDE DEF At, T
  <2> QED BY <2>1, <2>2, <2>3
<1>2. \A k \in S : f[k] \in T /\ Padded(key, n, k) = At(f[k])
  <2> HIDE DEF S, T, At
  <2> QED BY <1>1
<1>3. f \in [S -> T]
  <2> HIDE DEF S, T, At
  <2> QED BY <1>1
<1>4. IsFiniteSet(S) /\ IsFiniteSet(T) /\ Cardinality(T) < Cardinality(S)
  <2>1. IsFiniteSet(S) /\ Cardinality(S) = 2 * m + 1
    BY FS_Interval
  <2>2. IsFiniteSet(T) /\ Cardinality(T) <= 2 * m
    BY FS_Interval
  <2>3. Cardinality(T) \in Nat
    BY <2>2, FS_CardinalityType
  <2> QED BY <2>1, <2>2, <2>3
<1> HIDE DEF f, At
<1>5. PICK x \in S, y \in S : x # y /\ f[x] = f[y]
  <2> HIDE DEF S, T
  <2> QED BY <1>3, <1>4, FS_PigeonHole
<1>6. Padded(key, n, x) = Padded(key, n, y)
  BY <1>2, <1>5
<1>7. x \in Nat /\ y \in Nat /\ Len(key) \in Nat
  OBVIOUS
<1>8. Len(Padded(key, n, x)) = Len(key) + 1 + x /\ Len(Padded(key, n, y)) = Len(key) + 1 + y
  BY <1>7, PaddedIsLonger
<1> QED BY <1>5, <1>6, <1>7, <1>8

\* Keys as dedupeKeys makes them are different from each other.
LEMMA DedupeDistinct ==
  ASSUME NEW X, NEW N \in Nat, NEW keys \in [1..N -> Seq(X)]
  PROVE  /\ DOMAIN DedupeKeys(keys) = 1..N
         /\ \A i, j \in 1..N : i # j => DedupeKeys(keys)[i] # DedupeKeys(keys)[j]
<1> DEFINE Same(m) == {i \in 1..(m - 1) : keys[i] = keys[m]}
           Taken(m, done) == {i \in 1..(m - 1) : done[i] = keys[m] /\ keys[i] # keys[m]}
           Seen(m, done) == Cardinality(Same(m)) + Cardinality(Taken(m, done))
           Free(m, done, k) == \A i \in 1..(m - 1) : Padded(keys[m], Seen(m, done) + 1, k) \notin {done[i], keys[i]}
           Pads(m, done) == Min({k \in 0..(2 * m) : Free(m, done, k)})
           New(m, done) == IF Seen(m, done) = 0 THEN keys[m] ELSE Padded(keys[m], Seen(m, done) + 1, Pads(m, done))
           Many == Nat \cup {Min({})}
           K == {keys[m] : m \in 1..N} \cup {Padded(keys[m], a, k) : m \in 1..N, a \in Nat, k \in Many}
           V == Seq(K)
           T == [m \in 1..N |-> [done \in V |-> Append(done, New(m, done))]]
           g == CHOOSE f : f = [m \in 0..N |-> IF m = 0 THEN <<>> ELSE Append(f[m - 1], New(m, f[m - 1]))]
<1>1. Len(keys) = N
  BY FunctionIsSeq
<1>2. DedupeKeys(keys) = g[N]
  BY <1>1 DEF DedupeKeys
<1>3. ASSUME NEW m \in 1..N, NEW done
      PROVE  /\ IsFiniteSet(Same(m)) /\ IsFiniteSet(Taken(m, done))
             /\ Cardinality(Same(m)) \in Nat /\ Cardinality(Taken(m, done)) \in Nat
             /\ Seen(m, done) \in Nat
  <2>1. IsFiniteSet(1..(m - 1)) /\ Same(m) \subseteq 1..(m - 1) /\ Taken(m, done) \subseteq 1..(m - 1)
    BY FS_Interval
  <2> HIDE DEF Same, Taken
  <2>2. IsFiniteSet(Same(m)) /\ IsFiniteSet(Taken(m, done))
    BY <2>1, FS_Subset
  <2>3. Cardinality(Same(m)) \in Nat /\ Cardinality(Taken(m, done)) \in Nat
    BY <2>2, FS_CardinalityType
  <2> QED BY <2>2, <2>3
<1>4. ASSUME NEW m \in 1..N, NEW done PROVE Pads(m, done) \in Nat /\ Free(m, done, Pads(m, done))
  <2> DEFINE F == {k \in 0..(2 * m) : Free(m, done, k)}
  <2>1. F # {}
    <3>1. m \in Nat \ {0} /\ keys[m] \in Seq(X)
      OBVIOUS
    <3>2. \E k \in 0..(2 * m) : \A i \in 1..(m - 1) : Padded(keys[m], Seen(m, done) + 1, k) \notin {done[i], keys[i]}
      <4> HIDE DEF Seen
      <4> QED BY <3>1, FreeIsThere
    <3> HIDE DEF Seen
    <3> QED BY <3>2
  <2>2. F \subseteq Nat
    <3> HIDE DEF Free
    <3> QED OBVIOUS
  <2> HIDE DEF F
  <2>3. Min(F) \in F
    BY <2>1, <2>2, FirstPlace
  <2>4. Pads(m, done) = Min(F)
    BY DEF F
  <2> HIDE DEF Pads, Free
  <2> QED BY <2>2, <2>3, <2>4 DEF F
<1> HIDE DEF Pads, Free, Seen
<1>5. ASSUME NEW m \in 1..N, NEW done PROVE New(m, done) \in K
  <2>1. Seen(m, done) + 1 \in Nat /\ Pads(m, done) \in Many
    <3>1. Seen(m, done) \in Nat
      BY <1>3
    <3>2. Pads(m, done) \in Nat
      BY <1>4
    <3> QED BY <3>1, <3>2
  <2> HIDE DEF Many
  <2> QED BY <2>1
<1> HIDE DEF New, K
<1>6. T \in [1..N -> [V -> V]] /\ <<>> \in V
  <2>1. \A m \in 1..N, done \in V : Append(done, New(m, done)) \in V
    BY <1>5
  <2> HIDE DEF V
  <2>2. T \in [1..N -> [V -> V]]
    BY <2>1
  <2> QED BY <2>2 DEF V
<1>7. PICK h : IsBuilt(h, N, V, <<>>, T)
  <2> HIDE DEF V, T
  <2> QED BY <1>6, Built
<1>8. /\ h \in [0..N -> V] /\ h[0] = <<>>
      /\ \A m \in 1..N : h[m - 1] \in V /\ h[m] = Append(h[m - 1], New(m, h[m - 1]))
  <2>1. h \in [0..N -> V] /\ h[0] = <<>> /\ \A m \in 1..N : h[m] = T[m][h[m - 1]]
    BY <1>7 DEF IsBuilt
  <2>2. \A m \in 1..N : m - 1 \in 0..N
    OBVIOUS
  <2>3. \A m \in 1..N, done \in V : T[m][done] = Append(done, New(m, done))
    <3> HIDE DEF V
    <3> QED OBVIOUS
  <2> HIDE DEF V, T
  <2> QED BY <2>1, <2>2, <2>3
<1>9. h = [m \in 0..N |-> IF m = 0 THEN <<>> ELSE Append(h[m - 1], New(m, h[m - 1]))]
  <2> HIDE DEF V, T
  <2> QED BY <1>8
<1>10. g = [m \in 0..N |-> IF m = 0 THEN <<>> ELSE Append(g[m - 1], New(m, g[m - 1]))]
  <2> HIDE DEF V, T
  <2> QED BY <1>9
<1> HIDE DEF g, T
<1>11. g[0] = <<>> /\ \A m \in 1..N : g[m] = Append(g[m - 1], New(m, g[m - 1]))
  <2>1. 0 \in 0..N /\ \A m \in 1..N : m \in 0..N /\ m # 0
    OBVIOUS
  <2> QED BY <1>10, <2>1
<1> DEFINE Apart(done, m) == /\ done \in V /\ Len(done) = m
                             /\ \A i, j \in 1..m : i # j => done[i] # done[j]
           Good == {m \in 0..N : Apart(g[m], m)}
<1>12. 0 \in Good
  <2>1. 0 \in 0..N /\ Len(<<>>) = 0 /\ 1..0 = {}
    OBVIOUS
  <2> HIDE DEF V
  <2> QED BY <1>6, <1>11, <2>1
<1>13. ASSUME NEW m \in 1..N, m - 1 \in Good PROVE m \in Good
  <2> DEFINE done == g[m - 1]
             new == New(m, done)
             t == Append(done, new)
  <2>1. done \in V /\ Len(done) = m - 1 /\ \A i, j \in 1..(m - 1) : i # j => done[i] # done[j]
    BY <1>13
  <2>2. g[m] = t
    BY <1>11
  <2>3. new \in K
    BY <1>5
  <2> HIDE DEF done, new
  <2>4. t \in V /\ Len(t) = m /\ t[m] = new /\ \A i \in 1..(m - 1) : t[i] = done[i]
    BY <2>1, <2>3
  <2>5. ASSUME NEW i \in 1..(m - 1) PROVE done[i] # new
    <3>1. CASE Seen(m, done) = 0
      <4>1. Cardinality(Same(m)) = 0 /\ Cardinality(Taken(m, done)) = 0
        <5>1. /\ Cardinality(Same(m)) \in Nat /\ Cardinality(Taken(m, done)) \in Nat
              /\ Cardinality(Same(m)) + Cardinality(Taken(m, done)) = 0
          BY <1>3, <3>1 DEF Seen
        <5> QED BY <5>1
      <4>2. Same(m) = {} /\ Taken(m, done) = {}
        <5> HIDE DEF Same, Taken
        <5> QED BY <1>3, <4>1, FS_EmptySet
      <4>3. new = keys[m]
        BY <3>1 DEF new, New
      <4> QED BY <4>2, <4>3
    <3>2. CASE Seen(m, done) # 0
      <4>1. new = Padded(keys[m], Seen(m, done) + 1, Pads(m, done)) /\ Free(m, done, Pads(m, done))
        BY <1>4, <3>2 DEF new, New
      <4> QED BY <4>1 DEF Free
    <3> QED BY <3>1, <3>2
  <2> HIDE DEF t
  <2>6. \A i, j \in 1..m : i # j => t[i] # t[j]
    <3> SUFFICES ASSUME NEW i \in 1..m, NEW j \in 1..m, i # j PROVE t[i] # t[j]
      OBVIOUS
    <3>1. CASE i = m
      <4>1. j \in 1..(m - 1)
        BY <3>1
      <4> QED BY <2>4, <2>5, <3>1, <4>1
    <3>2. CASE j = m
      <4>1. i \in 1..(m - 1)
        BY <3>2
      <4> QED BY <2>4, <2>5, <3>2, <4>1
    <3>3. CASE i # m /\ j # m
      <4>1. i \in 1..(m - 1) /\ j \in 1..(m - 1)
        BY <3>3
      <4> QED BY <2>1, <2>4, <4>1
    <3> QED BY <3>1, <3>2, <3>3
  <2> HIDE DEF V
  <2> QED BY <2>2, <2>4, <2>6
<1>14. N \in Good
  <2>1. \A m \in 0..N : m \in Good
    <3> HIDE DEF Good
    <3> QED BY <1>12, <1>13, UpTo
  <2> HIDE DEF Good
  <2> QED BY <2>1
<1>15. g[N] \in V /\ Len(g[N]) = N /\ \A i, j \in 1..N : i # j => g[N][i] # g[N][j]
  BY <1>14
<1>16. DOMAIN g[N] = 1..N
  BY <1>15
<1> QED BY <1>2, <1>15, <1>16

\* Elements in document order, the document before its shadow trees, are the elements.
LEMMA DeepLists ==
  ASSUME NEW p, WellFormed(p), NEW S, S \subseteq DOMAIN p
  PROVE  \E n \in Nat : Deep(p, S) \in [1..n -> S]
<1> DEFINE before == [e \in S |-> {o \in S : Precedes(p, o, e)}]
<1>1. DOMAIN p = 1..Len(p) /\ Len(p) \in Nat /\ \A e \in S : e \in Int /\ p[e].host \in Int
  BY DEF WellFormed
<1>2. IsFiniteSet(S)
  <2>1. IsFiniteSet(1..Len(p))
    BY <1>1, FS_Interval
  <2> QED BY <1>1, <2>1, FS_Subset
<1>3. Orders(before, S)
  <2>1. before \in [S -> SUBSET S]
    OBVIOUS
  <2>2. \A x, y \in S : x \in before[y] <=> p[x].host < p[y].host \/ (p[x].host = p[y].host /\ x < y)
    BY DEF Precedes
  <2> HIDE DEF before
  <2>3. \A x \in S : x \notin before[x]
    BY <1>1, <2>2
  <2>4. \A x, y \in S : x # y => x \in before[y] \/ y \in before[x]
    BY <1>1, <2>2
  <2>5. ASSUME NEW x \in S, NEW y \in S, x \in before[y], NEW z \in before[x] PROVE z \in before[y]
    <3>1. z \in S
      BY <2>1
    <3>2. {x, y, z} \subseteq S
      BY <3>1
    <3>3. /\ x \in Int /\ y \in Int /\ z \in Int /\ p[x].host \in Int /\ p[y].host \in Int /\ p[z].host \in Int
          /\ p[x].host < p[y].host \/ (p[x].host = p[y].host /\ x < y)
          /\ p[z].host < p[x].host \/ (p[z].host = p[x].host /\ z < x)
      BY <1>1, <2>2, <2>5, <3>1
    <3>4. p[z].host < p[y].host \/ (p[z].host = p[y].host /\ z < y)
      BY <3>3
    <3> QED BY <2>2, <3>1, <3>4
  <2> QED BY <2>1, <2>3, <2>4, <2>5 DEF Orders
<1>4. InOrder(before) \in [1..Cardinality(S) -> S]
  <2> HIDE DEF before
  <2> QED BY <1>2, <1>3, InOrderIsOrder DEF Bijection, Injection
<1>5. Cardinality(S) \in Nat /\ Deep(p, S) = InOrder(before)
  BY <1>2, FS_CardinalityType DEF Deep
<1> HIDE DEF before
<1> QED BY <1>4, <1>5

Fields(p) == {e \in DOMAIN p : IsField(p, e)}

\* The fields of a form are fields of the page.
LEMMA UnitsAreFields ==
  ASSUME NEW p, WellFormed(p), NEW shut, NEW controls, controls \subseteq DOMAIN p
  PROVE  \E n \in Nat : Units(p, shut, controls) \in [1..n -> Fields(p)]
<1> DEFINE seen == {e \in controls : IsField(p, e) /\ ~p[e].off /\ FieldVisible(p, shut, e)}
           at == {e \in seen : ~\E r \in seen : r < e /\ InGroup(p, e) /\ InGroup(p, r) /\ p[r].name = p[e].name}
<1>1. at \subseteq Fields(p) /\ at \subseteq DOMAIN p
  BY DEF Fields
<1>2. DOMAIN p = 1..Len(p) /\ Len(p) \in Nat
  BY DEF WellFormed
<1>3. Units(p, shut, controls) = Ascending(at)
  BY DEF Units
<1> HIDE DEF at
<1>4. IsFiniteSet(at) /\ at \in SUBSET Int
  <2>1. IsFiniteSet(1..Len(p)) /\ 1..Len(p) \subseteq Int
    BY <1>2, FS_Interval
  <2> QED BY <1>1, <1>2, <2>1, FS_Subset
<1>5. Cardinality(at) \in Nat /\ Ascending(at) \in [1..Cardinality(at) -> at]
  BY <1>4, AscendingRises DEF Bijection, Injection
<1> QED BY <1>1, <1>3, <1>5

\* The key of a field is a list, and the same in every load.
LEMMA FieldKeyIs ==
  ASSUME NEW p, WellFormed(p), Nameable(p), NEW e \in Fields(p), NEW l, NEW k, NEW i
  PROVE  /\ FieldKey(p, l, e, i) = FieldKey(p, k, e, i)
         /\ \E X : FieldKey(p, l, e, i) \in Seq(X)
<1>1. e \in DOMAIN p /\ IsField(p, e) /\ p[e].name \in Seq(Range(p[e].name))
  BY DEF Fields, WellFormed
<1>2. p[e].id \in Made => p[e].name # <<>> \/ LabelOf(p, e) # ""
  BY <1>1 DEF Nameable
<1>3. AuthorId(p, e) => p[e].id \notin Made
  BY <1>1, NameableIsKnown DEF Known
<1>4. \A m : FieldKey(p, m, e, i) = IF p[e].name # <<>> THEN p[e].name
                                    ELSE IF AuthorId(p, e) THEN <<p[e].id>>
                                    ELSE IF LabelOf(p, e) # "" THEN <<LabelOf(p, e)>>
                                    ELSE IF p[e].id # "" THEN <<p[e].id>>
                                    ELSE <<"field", ToString(i)>>
  BY <1>2, <1>3 DEF FieldKey, IdText
<1>5. ASSUME NEW x, NEW y PROVE (\E X : <<x>> \in Seq(X)) /\ (\E X : <<x, y>> \in Seq(X))
  <2>1. <<x>> \in Seq({x, y}) /\ <<x, y>> \in Seq({x, y})
    OBVIOUS
  <2> QED BY <2>1
<1>6. FieldKey(p, l, e, i) = FieldKey(p, k, e, i)
  BY <1>4
<1>7. \E X : p[e].name \in Seq(X)
  BY <1>1
<1>8. FieldKey(p, l, e, i) \in {p[e].name, <<p[e].id>>, <<LabelOf(p, e)>>, <<"field", ToString(i)>>}
  BY <1>4
<1>9. \E X : FieldKey(p, l, e, i) \in Seq(X)
  <2>1. (\E X : <<p[e].id>> \in Seq(X)) /\ (\E X : <<LabelOf(p, e)>> \in Seq(X))
    BY <1>5
  <2>2. \E X : <<"field", ToString(i)>> \in Seq(X)
    BY <1>5
  <2> QED BY <1>7, <1>8, <2>1, <2>2
<1> QED BY <1>6, <1>9

\* So is what selects a field; it finds the field and, of a group, its radios.
LEMMA FieldSelectorFinds ==
  ASSUME NEW p, WellFormed(p), Nameable(p), NEW e \in DOMAIN p, NEW l, NEW k
  PROVE  LET got == QueryAll(p, k, FieldSelector(p, l, e))
         IN  e \in got /\ \A o \in got : o = e \/ p[o].type = "radio"
<1>1. CASE InGroup(p, e)
  <2> DEFINE part == AttrSel("radios", "input", p[e].name, <<>>)
  <2>1. FieldSelector(p, l, e) = <<part>>
    BY <1>1 DEF FieldSelector
  <2>2. part.by = "radios" /\ part.val = p[e].name /\ part.within = <<>>
    BY DEF AttrSel
  <2>3. p[e].host = 0 /\ p[e].type = "radio"
    BY <1>1 DEF Nameable, InGroup
  <2> HIDE DEF part
  <2>4. \A o : Fulfils(p, k, o, part) <=> p[o].type = "radio" /\ p[o].name = p[e].name
    BY <2>2 DEF Fulfils
  <2>5. <<>> \in Seq({part}) /\ part \in {part} /\ <<part>> = Append(<<>>, part)
    OBVIOUS
  <2>6. \A o : o \in QueryAll(p, k, Append(<<>>, part)) <=>
               o \in DOMAIN p /\ p[o].host \in QueryAll(p, k, <<>>) /\ Fulfils(p, k, o, part)
    BY <2>5, QueryAllIs
  <2>7. QueryAll(p, k, <<>>) = {0}
    BY <2>5, QueryAllIs
  <2> QED BY <2>1, <2>3, <2>4, <2>5, <2>6, <2>7
<1>2. CASE ~InGroup(p, e)
  <2>1. FieldSelector(p, l, e) = SelectorFor(p, l, e)
    BY <1>2 DEF FieldSelector
  <2> QED BY <2>1, SelectorFinds
<1> QED BY <1>1, <1>2

\* The same form in two loads, each field under a key of its own.
FormIs(p, l, f) ==
    /\ f.root \in DOMAIN p /\ f.selector = SelectorFor(p, l, f.root)
    /\ \E n \in Nat : f.units \in [1..n -> Fields(p)]
    /\ DOMAIN f.keys = DOMAIN f.units
    /\ \A i, j \in DOMAIN f.keys : i # j => f.keys[i] # f.keys[j]
    /\ \A i \in DOMAIN f.units : f.selectors[i] = FieldSelector(p, l, f.units[i])

LEMMA BuildFormIs ==
  ASSUME NEW p, WellFormed(p), Nameable(p), NEW shut, NEW root \in DOMAIN p, NEW l, NEW k
  PROVE  /\ FormIs(p, l, BuildForm(p, shut, l, root))
         /\ BuildForm(p, shut, l, root).units = BuildForm(p, shut, k, root).units
         /\ BuildForm(p, shut, l, root).id = BuildForm(p, shut, k, root).id
<1> DEFINE controls == {e \in Descendants(p, root) : Owner(p, e) = (IF p[root].tag = "form" THEN root ELSE 0)}
           units == Units(p, shut, controls)
           submit == FindSubmit(p, shut, root)
           label == IF submit = 0 THEN "" ELSE NameOf(p, submit)
           Given(m) == [i \in DOMAIN units |-> FieldKey(p, m, units[i], i - 1)]
           KeysFor(m) == DedupeKeys(Given(m))
           Form(m) == BuildForm(p, shut, m, root)
<1>1. PICK n \in Nat : units \in [1..n -> Fields(p)]
  <2>1. controls \subseteq DOMAIN p
    BY DEF Descendants
  <2> HIDE DEF controls
  <2> QED BY <2>1, UnitsAreFields
<1>2. \A m : Form(m) = [root |-> root, id |-> <<Range(KeysFor(m)), label>>, keys |-> KeysFor(m), units |-> units,
                        selectors |-> [i \in DOMAIN units |-> FieldSelector(p, m, units[i])],
                        selector |-> SelectorFor(p, m, root),
                        submit |-> IF submit = 0 THEN <<>> ELSE SelectorFor(p, m, submit),
                        destructive |-> p[root].danger \/ (submit # 0 /\ p[submit].danger)]
  BY DEF BuildForm
<1> HIDE DEF units, submit, label, Form
<1>3. Given(l) = Given(k)
  <2>1. \A i \in DOMAIN units : FieldKey(p, l, units[i], i - 1) = FieldKey(p, k, units[i], i - 1)
    BY <1>1, FieldKeyIs
  <2> QED BY <2>1
<1>4. DOMAIN KeysFor(l) = 1..n /\ \A i, j \in 1..n : i # j => KeysFor(l)[i] # KeysFor(l)[j]
  <2> DEFINE X == UNION {Range(Given(l)[i]) : i \in 1..n}
  <2>1. \A i \in 1..n : Given(l)[i] = FieldKey(p, l, units[i], i - 1) /\ units[i] \in Fields(p)
    BY <1>1
  <2>2. \A i \in 1..n : \E Y : Given(l)[i] \in Seq(Y)
    BY <2>1, FieldKeyIs
  <2>3. DOMAIN Given(l) = 1..n
    BY <1>1
  <2>4. Given(l) = [i \in 1..n |-> Given(l)[i]]
    BY <2>3
  <2> HIDE DEF Given
  <2>5. ASSUME NEW i \in 1..n PROVE Given(l)[i] \in Seq(X)
    <3> DEFINE s == Given(l)[i]
    <3>1. PICK Y : s \in Seq(Y)
      BY <2>2
    <3>2. Len(s) \in Nat /\ DOMAIN s = 1..Len(s) /\ s = [j \in 1..Len(s) |-> s[j]]
      <4> HIDE DEF s
      <4> QED BY <3>1
    <3>3. \A j \in 1..Len(s) : s[j] \in X
      BY <3>2 DEF Range
    <3> HIDE DEF s, X
    <3>4. s \in [1..Len(s) -> X]
      BY <3>2, <3>3
    <3>5. s \in Seq(X)
      BY <3>2, <3>4, FunctionIsSeq
    <3> QED BY <3>5 DEF s
  <2> HIDE DEF X
  <2>6. Given(l) \in [1..n -> Seq(X)]
    BY <2>4, <2>5
  <2> QED BY <2>6, DedupeDistinct
<1> HIDE DEF Given, KeysFor
<1>5. ASSUME NEW m
      PROVE  /\ Form(m).root = root /\ Form(m).id = <<Range(KeysFor(m)), label>> /\ Form(m).keys = KeysFor(m)
             /\ Form(m).units = units /\ Form(m).selectors = [i \in DOMAIN units |-> FieldSelector(p, m, units[i])]
             /\ Form(m).selector = SelectorFor(p, m, root)
  BY <1>2
<1>6. KeysFor(l) = KeysFor(k)
  BY <1>3 DEF KeysFor
<1>7. FormIs(p, l, Form(l))
  <2> DEFINE f == Form(l)
  <2>1. DOMAIN units = 1..n
    BY <1>1
  <2>2. f.root \in DOMAIN p /\ f.selector = SelectorFor(p, l, f.root)
    BY <1>5
  <2>3. f.units = units /\ f.keys = KeysFor(l) /\ f.selectors = [i \in DOMAIN units |-> FieldSelector(p, l, units[i])]
    BY <1>5
  <2> HIDE DEF f
  <2>4. \A i \in DOMAIN f.units : f.selectors[i] = FieldSelector(p, l, f.units[i])
    BY <2>3
  <2>5. \E m \in Nat : f.units \in [1..m -> Fields(p)]
    BY <1>1, <2>3
  <2>6. DOMAIN f.keys = DOMAIN f.units /\ \A i, j \in DOMAIN f.keys : i # j => f.keys[i] # f.keys[j]
    BY <1>4, <2>1, <2>3
  <2>7. FormIs(p, l, f)
    BY <2>2, <2>4, <2>5, <2>6 DEF FormIs
  <2> QED BY <2>7 DEF f
<1>8. Form(l).units = Form(k).units /\ Form(l).id = Form(k).id
  <2>1. Form(l).units = units /\ Form(l).id = <<Range(KeysFor(l)), label>>
    BY <1>5
  <2>2. Form(k).units = units /\ Form(k).id = <<Range(KeysFor(k)), label>>
    BY <1>5
  <2> QED BY <1>6, <2>1, <2>2
<1> QED BY <1>7, <1>8 DEF Form

\* What discoverForms reports: forms of the page, and under the same ids in every load.
LEMMA FormsAre ==
  ASSUME NEW p, WellFormed(p), Nameable(p), NEW shut, NEW l, NEW k
  PROVE  LET forms == DiscoverForms(p, shut, l)
             later == DiscoverForms(p, shut, k)
         IN  /\ \A i \in DOMAIN forms : FormIs(p, l, forms[i])
             /\ [i \in DOMAIN later |-> later[i].id] = [i \in DOMAIN forms |-> forms[i].id]
<1> DEFINE first == Deep(p, In(p, {"form"}))
           second == Deep(p, {d \in Dialogs(p) : Visible(p, shut, d) /\ ButtonsIn(p, shut, d) # {}})
           roots == first \o second
           Drafts(m) == [i \in DOMAIN roots |-> BuildForm(p, shut, m, roots[i])]
           Some(m) == {i \in DOMAIN Drafts(m) : Drafts(m)[i].units # <<>>}
           At(m) == {i \in Some(m) : \A j \in Some(m) : j < i => Drafts(m)[j].id # Drafts(m)[i].id}
           place == Ascending(At(l))
<1>1. PICK a \in Nat : first \in [1..a -> DOMAIN p]
  <2>1. In(p, {"form"}) \subseteq DOMAIN p
    BY DEF In
  <2>2. \E n \in Nat : first \in [1..n -> In(p, {"form"})]
    BY <2>1, DeepLists
  <2> HIDE DEF first
  <2> QED BY <2>1, <2>2
<1>2. PICK o \in Nat : second \in [1..o -> DOMAIN p]
  <2> DEFINE S == {d \in Dialogs(p) : Visible(p, shut, d) /\ ButtonsIn(p, shut, d) # {}}
  <2>1. S \subseteq DOMAIN p
    BY DEF Dialogs, In
  <2>2. \E m \in Nat : second \in [1..m -> S]
    <3> HIDE DEF S
    <3>1. \E m \in Nat : Deep(p, S) \in [1..m -> S]
      BY <2>1, DeepLists
    <3> QED BY <3>1 DEF S
  <2> HIDE DEF second, S
  <2> QED BY <2>1, <2>2
<1>3. PICK c \in Nat : roots \in [1..c -> DOMAIN p]
  <2>1. first \in Seq(DOMAIN p) /\ second \in Seq(DOMAIN p)
    <3> HIDE DEF first, second
    <3> QED BY <1>1, <1>2, FunctionIsSeq
  <2> HIDE DEF first, second
  <2>2. roots \in Seq(DOMAIN p)
    BY <2>1
  <2>3. Len(roots) \in Nat /\ roots \in [1..Len(roots) -> DOMAIN p]
    <3> HIDE DEF roots
    <3> QED BY <2>2
  <2> QED BY <2>3
<1>4. \A m : DiscoverForms(p, shut, m) = Filtered(Drafts(m), At(m))
  BY DEF DiscoverForms, Pushed
<1> HIDE DEF first, second, roots
<1>5. ASSUME NEW m, NEW i \in 1..c
      PROVE  /\ FormIs(p, m, Drafts(m)[i])
             /\ Drafts(m)[i].units = Drafts(l)[i].units
             /\ Drafts(m)[i].id = Drafts(l)[i].id
  <2>1. roots[i] \in DOMAIN p /\ DOMAIN roots = 1..c
    BY <1>3
  <2>2. Drafts(m)[i] = BuildForm(p, shut, m, roots[i]) /\ Drafts(l)[i] = BuildForm(p, shut, l, roots[i])
    BY <2>1
  <2> HIDE DEF Drafts
  <2> QED BY <2>1, <2>2, BuildFormIs
<1>6. \A m : DOMAIN Drafts(m) = 1..c
  BY <1>3
<1> HIDE DEF Drafts
<1>7. \A m : Some(m) = Some(l) /\ Some(m) \subseteq 1..c
  BY <1>5, <1>6
<1>8. \A m : At(m) = At(l) /\ At(m) \subseteq 1..c
  <2> TAKE m
  <2>1. \A i \in 1..c : Drafts(m)[i].id = Drafts(l)[i].id
    BY <1>5
  <2>2. Some(m) = Some(l) /\ Some(m) \subseteq 1..c
    BY <1>7
  <2> HIDE DEF Some
  <2> QED BY <2>1, <2>2
<1> HIDE DEF At
<1>9. \A m : DiscoverForms(p, shut, m) = [n \in DOMAIN place |-> Drafts(m)[place[n]]]
  BY <1>4, <1>8 DEF Filtered
<1>10. \A n \in DOMAIN place : place[n] \in 1..c
  <2>1. IsFiniteSet(1..c) /\ 1..c \subseteq Int
    BY FS_Interval
  <2>2. IsFiniteSet(At(l)) /\ At(l) \in SUBSET Int /\ At(l) \subseteq 1..c
    BY <1>8, <2>1, FS_Subset
  <2>3. place \in [1..Cardinality(At(l)) -> At(l)]
    BY <2>2, AscendingRises DEF Bijection, Injection
  <2> HIDE DEF place
  <2> QED BY <2>2, <2>3
<1> HIDE DEF place
<1> DEFINE forms == DiscoverForms(p, shut, l)
           later == DiscoverForms(p, shut, k)
<1>11. /\ DOMAIN forms = DOMAIN place /\ DOMAIN later = DOMAIN place
       /\ \A n \in DOMAIN place : forms[n] = Drafts(l)[place[n]] /\ later[n] = Drafts(k)[place[n]]
  BY <1>9
<1> HIDE DEF forms, later
<1>12. \A i \in DOMAIN forms : FormIs(p, l, forms[i])
  BY <1>5, <1>10, <1>11
<1>13. \A i \in DOMAIN place : later[i].id = forms[i].id
  BY <1>5, <1>10, <1>11
<1>14. [i \in DOMAIN later |-> later[i].id] = [i \in DOMAIN forms |-> forms[i].id]
  BY <1>11, <1>13
<1> QED BY <1>12, <1>14 DEF forms, later

\* The actions a scan offers are elements of the page.
LEMMA ActionsAre ==
  ASSUME NEW p, WellFormed(p), NEW shut, NEW l, NEW limit \in Nat, NEW excluded
  PROVE  \A i \in DOMAIN DiscoverActions(p, shut, l, limit, excluded) :
            DiscoverActions(p, shut, l, limit, excluded)[i] \in DOMAIN p
<1> DEFINE all == {e \in In(p, {"button", "a"}) \cup {e \in In(p, {"input"}) : p[e].type \in {"button", "submit"}} :
                     /\ e \notin excluded /\ Owner(p, e) = 0 /\ Visible(p, shut, e) /\ ~p[e].off
                     /\ ActionKind(p, e) # ""}
           once == {e \in all : ~\E o \in all : Precedes(p, o, e) /\ SelectorFor(p, l, o) = SelectorFor(p, l, e)}
           list == Deep(p, once)
           key == [i \in DOMAIN list |-> Rank(p, list[i])]
           sorted == ByRank(p, list)
<1>1. DiscoverActions(p, shut, l, limit, excluded) = Slice(sorted, limit)
  BY DEF DiscoverActions
<1>2. PICK c \in Nat : list \in [1..c -> DOMAIN p]
  <2>1. once \subseteq DOMAIN p
    BY DEF In
  <2> HIDE DEF once
  <2>2. \E c \in Nat : list \in [1..c -> once]
    BY <2>1, DeepLists
  <2> HIDE DEF list
  <2> QED BY <2>1, <2>2
<1> HIDE DEF list
<1>3. key \in [1..c -> Int]
  <2>1. \A e : Rank(p, e) \in Int
    BY DEF Rank
  <2> QED BY <1>2, <2>1
<1>4. sorted = Sorted(list, key)
  BY DEF ByRank
<1> HIDE DEF key, sorted
<1>5. PICK place : Sorts(place, list, key, Sorted(list, key))
  <2>1. DOMAIN list = 1..c
    BY <1>2
  <2> QED BY <1>3, <2>1, SortedSorts
<1>6. sorted \in [1..c -> DOMAIN p]
  <2>1. DOMAIN list = 1..c
    BY <1>2
  <2>2. place \in [1..c -> 1..c] /\ sorted = [n \in 1..c |-> list[place[n]]]
    BY <1>4, <1>5, <2>1 DEF Sorts, Bijection, Injection
  <2> QED BY <1>2, <2>2
<1>7. sorted \in Seq(DOMAIN p) /\ Len(sorted) = c
  BY <1>6, FunctionIsSeq
<1> DEFINE end == IF c < limit THEN c ELSE limit
           some == SubSeq(sorted, 1, end)
<1>8. Slice(sorted, limit) = some
  BY <1>7 DEF Slice
<1>9. some \in Seq(DOMAIN p)
  <2>1. 1 \in 1..(Len(sorted) + 1) /\ end \in 0..Len(sorted)
    BY <1>7
  <2> HIDE DEF end
  <2>2. Len(some) = end /\ \A i \in 1..end : some[i] = sorted[i] /\ i \in 1..c
    BY <1>7, <2>1
  <2> QED BY <1>7, <2>1, SubSeqProperties
<1> HIDE DEF some
<1>10. \A i \in DOMAIN some : some[i] \in DOMAIN p
  BY <1>9
<1> QED BY <1>1, <1>8, <1>10

-----------------------------------------------------------------------------
(* What a scan names outlives the load: ContentScript. *)

\* The page is one of the pages, and a scan is one of it.
ScanInv ==
    /\ \E p \in Pages : page.elements = p.elements /\ page.toggles = p.toggles
    /\ closed \subseteq DOMAIN page.toggles
    /\ scan # None => \E l : \E shut \in SUBSET DOMAIN page.toggles :
                        scan = [load |-> l, closed |-> shut, found |-> DiscoverPage(Present(page, shut), shut, l, Limit)]

LEMMA ScanInvInit == ContentInit => ScanInv
<1> SUFFICES ASSUME ContentInit PROVE ScanInv
  OBVIOUS
<1>1. PICK p \in Pages, own \in BOOLEAN : page = [elements |-> p.elements, toggles |-> p.toggles, own |-> own]
  BY DEF ContentInit
<1>2. page.elements = p.elements /\ page.toggles = p.toggles
  BY <1>1
<1>3. scan = None /\ closed = DOMAIN page.toggles
  BY DEF ContentInit
<1> QED BY <1>2, <1>3 DEF ScanInv

LEMMA ScanInvStep == ScanInv /\ [ContentNext]_contentVars => ScanInv'
<1> SUFFICES ASSUME ScanInv, [ContentNext]_contentVars PROVE ScanInv'
  OBVIOUS
<1>1. page' = page /\ closed' \subseteq DOMAIN page.toggles
  BY DEF ScanInv, ContentNext, contentVars, Inject, NewLoad, ReloadExtension, PopState, Flush, Discover, OverlaySet, Toggle
<1>2. CASE Discover
  <2>1. scan' = [load |-> load, closed |-> closed, found |-> DiscoverPage(Present(page, closed), closed, load, Limit)]
    BY <1>2 DEF Discover
  <2>2. closed \in SUBSET DOMAIN page.toggles
    BY DEF ScanInv
  <2> QED BY <1>1, <2>1, <2>2 DEF ScanInv, Present
<1>3. CASE ~Discover
  <2>1. scan' = scan
    BY <1>3 DEF ContentNext, contentVars, Inject, NewLoad, ReloadExtension, PopState, Flush, OverlaySet, Toggle
  <2> QED BY <1>1, <2>1 DEF ScanInv, Present
<1> QED BY <1>2, <1>3

\* A document without some of its elements is as well-formed as with them.
LEMMA DocumentIsFormed == ASSUME NEW p, WellFormed(p), NEW without PROVE WellFormed(Document(p, without))
<1> DEFINE d == Document(p, without)
<1>1. PICK gone : d = [e \in DOMAIN p |-> IF gone[e] THEN Nothing(p, e) ELSE p[e]]
  BY DEF Document
<1>2. DOMAIN p = 1..Len(p) /\ Len(p) \in Nat
  BY DEF WellFormed
<1> HIDE DEF d
<1>3. DOMAIN d = DOMAIN p /\ Len(d) = Len(p)
  BY <1>1, <1>2
<1>4. ASSUME NEW e \in DOMAIN p
      PROVE  d[e].up = p[e].up /\ d[e].host = p[e].host /\ d[e].name \in Seq(Range(d[e].name))
  <2>1. <<>> \in Seq(Range(<<>>))
    OBVIOUS
  <2>2. d[e] = Nothing(p, e) \/ d[e] = p[e]
    BY <1>1
  <2>3. CASE d[e] = Nothing(p, e)
    <3> DEFINE tag == ToString(e)
               up == p[e].up
               host == p[e].host
               name == <<>>
               href == <<"", "">>
               r == Nothing(p, e)
    <3>1. r = [tag |-> tag, type |-> "", id |-> "", name |-> name, href |-> href, up |-> up, host |-> host,
               says |-> name, shown |-> FALSE, off |-> FALSE, danger |-> FALSE, opens |-> FALSE]
      BY DEF Nothing
    <3> HIDE DEF tag, up, host, name, href, r
    <3>2. r.up = up
      BY <3>1
    <3>3. r.host = host
      BY <3>1
    <3>4. r.name = name
      BY <3>1
    <3>5. d[e].up = p[e].up /\ d[e].host = p[e].host /\ d[e].name = <<>>
      BY <2>3, <3>2, <3>3, <3>4 DEF r, up, host, name
    <3> QED BY <2>1, <3>5
  <2>4. CASE d[e] = p[e]
    BY <2>4 DEF WellFormed
  <2> QED BY <2>2, <2>3, <2>4
<1>5. ASSUME NEW e \in DOMAIN p
      PROVE  /\ d[e].up \in 0..(e - 1) /\ d[e].host \in 0..(e - 1)
             /\ d[e].up # 0 => d[d[e].up].host = d[e].host
  <2>1. /\ p[e].up \in 0..(e - 1) /\ p[e].host \in 0..(e - 1)
        /\ p[e].up # 0 => p[p[e].up].host = p[e].host
    BY DEF WellFormed
  <2>2. p[e].up # 0 => p[e].up \in DOMAIN p
    BY <1>2, <2>1
  <2> QED BY <1>4, <2>1, <2>2
<1> QED BY <1>2, <1>3, <1>4, <1>5 DEF WellFormed, d

\* What is found in one load is found by its name in any, and the forms keep their ids.
LEMMA ScanIsRight ==
  ASSUME ScanInv, AllNameable, ContentAssumption
  PROVE  ScanOutlivesLoad
<1> SUFFICES ASSUME scan # None PROVE ScanOutlivesLoad
  BY DEF ScanOutlivesLoad
<1>01. PICK l : \E shut \in SUBSET DOMAIN page.toggles :
         scan = [load |-> l, closed |-> shut, found |-> DiscoverPage(Present(page, shut), shut, l, Limit)]
  BY DEF ScanInv
<1>0. PICK shut \in SUBSET DOMAIN page.toggles :
        scan = [load |-> l, closed |-> shut, found |-> DiscoverPage(Present(page, shut), shut, l, Limit)]
  BY <1>01
<1> DEFINE p == Present(page, shut)
<1>1. WellFormed(p) /\ Nameable(p) /\ Limit \in Nat
  <2>1. PICK q \in Pages : page.elements = q.elements /\ page.toggles = q.toggles
    BY DEF ScanInv
  <2>2. p = Present(q, shut) /\ p = Document(q.elements, {t \in shut : q.toggles[t] = "nodes"})
    BY <2>1 DEF Present
  <2>3. WellFormed(q.elements) /\ Limit \in Nat
    BY DEF ContentAssumption
  <2>4. Nameable(Present(q, shut))
    BY <2>1 DEF AllNameable
  <2> HIDE DEF p
  <2> QED BY <2>2, <2>3, <2>4, DocumentIsFormed
<1> DEFINE forms == DiscoverForms(p, shut, l)
           actions == DiscoverActions(p, shut, l, Limit, Excluded(p, l, forms))
           found == DiscoverPage(p, shut, l, Limit)
<1>3. /\ found.forms = forms /\ found.actions = actions
      /\ found.targets = [i \in DOMAIN actions |-> SelectorFor(p, l, actions[i])]
  BY DEF DiscoverPage, Answer
<1>4. \A i \in DOMAIN forms : FormIs(p, l, forms[i])
  BY <1>1, FormsAre
<1>5. \A i \in DOMAIN actions : actions[i] \in DOMAIN p
  BY <1>1, ActionsAre
<1>6. closed = shut => FormIds(closed) = [i \in DOMAIN forms |-> forms[i].id]
  BY <1>1, FormsAre DEF FormIds
<1>2. scan = [load |-> l, closed |-> shut, found |-> found]
  BY <1>0
<1> HIDE DEF p, forms, actions, found
<1>7. scan.found.forms = forms /\ scan.found.actions = actions /\ scan.closed = shut
      /\ scan.found.targets = [i \in DOMAIN actions |-> SelectorFor(p, l, actions[i])]
  BY <1>2, <1>3
<1>8. ASSUME NEW i \in DOMAIN forms
      PROVE  /\ QueryAll(p, load, forms[i].selector) = {forms[i].root}
             /\ \A m, n \in DOMAIN forms[i].keys : m # n => forms[i].keys[m] # forms[i].keys[n]
             /\ \A m \in DOMAIN forms[i].units :
                  LET got == QueryAll(p, load, forms[i].selectors[m])
                  IN  forms[i].units[m] \in got /\ \A o \in got : o = forms[i].units[m] \/ p[o].type = "radio"
  <2> DEFINE f == forms[i]
  <2>1. FormIs(p, l, f)
    BY <1>4
  <2> HIDE DEF f
  <2>2. QueryAll(p, load, f.selector) = {f.root}
    BY <1>1, <2>1, SelectorFinds DEF FormIs
  <2>3. \A m, n \in DOMAIN f.keys : m # n => f.keys[m] # f.keys[n]
    BY <2>1 DEF FormIs
  <2>4. ASSUME NEW m \in DOMAIN f.units
        PROVE  LET got == QueryAll(p, load, f.selectors[m])
               IN  f.units[m] \in got /\ \A o \in got : o = f.units[m] \/ p[o].type = "radio"
    <3>1. f.units[m] \in DOMAIN p /\ f.selectors[m] = FieldSelector(p, l, f.units[m])
      BY <2>1 DEF FormIs, Fields
    <3> QED BY <1>1, <3>1, FieldSelectorFinds
  <2> QED BY <2>2, <2>3, <2>4 DEF f
<1>9. ASSUME NEW i \in DOMAIN actions PROVE QueryAll(p, load, scan.found.targets[i]) = {actions[i]}
  <2>1. scan.found.targets[i] = SelectorFor(p, l, actions[i]) /\ actions[i] \in DOMAIN p
    BY <1>5, <1>7
  <2> QED BY <1>1, <2>1, SelectorFinds
<1>10. Present(page, closed) = Present(page, scan.closed) => Present(page, closed) = p
  BY <1>7 DEF p
<1> QED BY <1>6, <1>7, <1>8, <1>9, <1>10 DEF ScanOutlivesLoad

\* What a scan names is found by its name in this load and in every later one, exactly it, and the forms
\* of an unchanged page keep their ids and have fields of different keys (selectors.ts, discover.ts), on
\* pages whose elements can be named.
THEOREM ScanLasts == AllNameable => (ContentInit /\ [][ContentNext]_contentVars => []ScanOutlivesLoad)
<1> SUFFICES ASSUME AllNameable PROVE ContentInit /\ [][ContentNext]_contentVars => []ScanOutlivesLoad
  OBVIOUS
<1>1. ContentInit => ScanInv
  BY ScanInvInit
<1>2. ScanInv /\ [ContentNext]_contentVars => ScanInv'
  BY ScanInvStep
<1>3. ScanInv => ScanOutlivesLoad
  BY ScanIsRight, ContentAssumption
<1> QED BY <1>1, <1>2, <1>3, PTL
==============================================================================
