-------------------------- MODULE AccountingProofs --------------------------
(* How adding, removing and changing an entry changes the total size of a   *)
(* map, for every set of keys and every size; and induction over the        *)
(* naturals, which is stated with sets, for the proofs of other modules.    *)
EXTENDS Accounting, WellFoundedInduction, FiniteSetTheorems, TLAPS

\* Every nonempty set of naturals has a least element.
LEMMA SmallestOf ==
  ASSUME NEW T, T \subseteq Nat, T # {}
  PROVE  \E n \in T : \A m \in T : n <= m
<1> DEFINE R == OpToRel(<, Nat)
<1>1. R = {ss \in Nat \X Nat : ss[1] < ss[2]}
  BY Zenon DEF OpToRel
<1>2. PICK n \in T : \A m \in T : <<m, n>> \notin R
  <2> HIDE DEF R
  <2>1. IsWellFoundedOn(R, Nat)
    BY NatLessThanWellFounded, Zenon DEF R
  <2> QED BY <2>1, WFMin
<1>3. ASSUME NEW m \in T PROVE n <= m
  <2>1. m \in Nat /\ n \in Nat
    OBVIOUS
  <2>2. ~ (m < n)
    BY <1>1, <1>2, <2>1
  <2> QED BY <2>1, <2>2
<1> QED BY <1>2, <1>3

\* A set that holds 0 and the successor of each of its naturals holds them all.
LEMMA Induct ==
  ASSUME NEW S, 0 \in S, \A n \in Nat : n \in S => n + 1 \in S
  PROVE  Nat \subseteq S
<1> SUFFICES ASSUME Nat \ S # {} PROVE FALSE
  OBVIOUS
<1>1. PICK n \in Nat \ S : \A m \in Nat \ S : n <= m
  BY SmallestOf
<1>2. n - 1 \in Nat /\ ~ (n <= n - 1)
  BY <1>1
<1>3. n - 1 \in S
  BY <1>1, <1>2
<1>4. (n - 1) + 1 = n
  OBVIOUS
<1> QED BY <1>2, <1>3, <1>4

\* f is step by step what its value at 0 and its rule say, over D.
Iterates(f, D, a, rule) ==
  f = [i \in D |-> IF i = 0 THEN a ELSE rule[<<i, f[i - 1]>>]]

\* A function on an initial part of the naturals can be defined by its value at
\* 0 and by its value at each i from the one at i - 1.
LEMMA RecursionExists ==
  ASSUME NEW V, NEW a \in V, NEW rule \in [Nat \X V -> V],
         NEW D, D \subseteq Nat, \A i \in D : i # 0 => i - 1 \in D
  PROVE  /\ \E f : Iterates(f, D, a, rule)
         /\ \A f : Iterates(f, D, a, rule) => f \in [D -> V]
<1> DEFINE Good(g, n) ==
      /\ g \in [0 .. n -> V] /\ g[0] = a
      /\ \A i \in 1 .. n : g[i] = rule[<<i, g[i - 1]>>]
<1>1. ASSUME NEW n \in Nat PROVE \E g : Good(g, n)
  <2> DEFINE S == {m \in Nat : \E g : Good(g, m)}
  <2>1. 0 \in S
    <3> DEFINE g == [i \in 0 .. 0 |-> a]
    <3>1. g \in [0 .. 0 -> V] /\ g[0] = a /\ \A i \in 1 .. 0 : FALSE
      OBVIOUS
    <3> HIDE DEF g
    <3>2. Good(g, 0)
      BY <3>1
    <3> QED BY <3>2
  <2>2. ASSUME NEW m \in Nat, m \in S PROVE m + 1 \in S
    <3>1. PICK g : Good(g, m)
      BY <2>2
    <3> DEFINE h == [i \in 0 .. m + 1 |-> IF i = m + 1 THEN rule[<<m + 1, g[m]>>] ELSE g[i]]
    <3>2. g[m] \in V /\ rule[<<m + 1, g[m]>>] \in V
      BY <3>1
    <3>3. h \in [0 .. m + 1 -> V]
      BY <3>1, <3>2
    <3>4. h[0] = a /\ h[m + 1] = rule[<<m + 1, h[m]>>]
      <4>1. h[0] = g[0] /\ h[m] = g[m] /\ h[m + 1] = rule[<<m + 1, g[m]>>]
        OBVIOUS
      <4> QED BY <3>1, <4>1
    <3>5. ASSUME NEW i \in 1 .. m PROVE h[i] = rule[<<i, h[i - 1]>>]
      <4>1. h[i] = g[i] /\ h[i - 1] = g[i - 1]
        OBVIOUS
      <4> QED BY <3>1, <4>1
    <3> HIDE DEF h
    <3>6. ASSUME NEW i \in 1 .. m + 1 PROVE h[i] = rule[<<i, h[i - 1]>>]
      <4>1. i \in 1 .. m \/ (i = m + 1 /\ i - 1 = m)
        OBVIOUS
      <4> QED BY <3>4, <3>5, <4>1
    <3>7. Good(h, m + 1)
      BY <3>3, <3>4, <3>6
    <3> HIDE DEF Good
    <3> QED BY <3>7
  <2> HIDE DEF S
  <2>3. Nat \subseteq S
    BY <2>1, <2>2, Induct
  <2>4. n \in S
    BY <2>3
  <2> QED BY <2>4 DEF S
<1>2. ASSUME NEW n \in Nat, NEW m \in Nat, NEW g, NEW h, Good(g, n), Good(h, m),
             NEW k \in Nat
      PROVE  k <= n /\ k <= m => g[k] = h[k]
  <2> DEFINE S == {j \in Nat : j <= n /\ j <= m => g[j] = h[j]}
  <2>1. 0 \in S
    BY <1>2
  <2>2. ASSUME NEW j \in Nat, j \in S PROVE j + 1 \in S
    <3> SUFFICES ASSUME j + 1 <= n, j + 1 <= m PROVE g[j + 1] = h[j + 1]
      OBVIOUS
    <3>1. j <= n /\ j <= m /\ j + 1 \in 1 .. n /\ j + 1 \in 1 .. m /\ (j + 1) - 1 = j
      OBVIOUS
    <3>2. g[j] = h[j]
      BY <2>2, <3>1
    <3>3. g[j + 1] = rule[<<j + 1, g[j]>>]
      BY <1>2, <3>1
    <3>4. h[j + 1] = rule[<<j + 1, h[j]>>]
      BY <1>2, <3>1
    <3> QED BY <3>2, <3>3, <3>4
  <2> HIDE DEF S
  <2>3. k \in S
    BY <2>1, <2>2, Induct
  <2> QED BY <2>3 DEF S
<1>3. \E f : Iterates(f, D, a, rule)
  <2> DEFINE G == [n \in Nat |-> CHOOSE g : Good(g, n)]
             f == [i \in D |-> G[i][i]]
  <2>1. ASSUME NEW n \in Nat PROVE Good(G[n], n)
    <3>1. G[n] = CHOOSE g : Good(g, n)
      OBVIOUS
    <3> HIDE DEF G, Good
    <3> QED BY <1>1, <3>1
  <2> HIDE DEF G
  <2>2. ASSUME NEW i \in D PROVE f[i] = IF i = 0 THEN a ELSE rule[<<i, f[i - 1]>>]
    <3>1. CASE i = 0
      <4>1. Good(G[0], 0)
        BY <2>1
      <4> QED BY <3>1, <4>1
    <3>2. CASE i # 0
      <4>1. i \in Nat /\ i - 1 \in Nat /\ i - 1 \in D /\ i \in 1 .. i
        BY <3>2
      <4>2. Good(G[i], i) /\ Good(G[i - 1], i - 1)
        BY <2>1, <4>1
      <4>3. G[i][i] = rule[<<i, G[i][i - 1]>>]
        BY <4>1, <4>2
      <4>4. i - 1 <= i /\ i - 1 <= i - 1
        BY <4>1
      <4>5. G[i][i - 1] = G[i - 1][i - 1]
        <5> HIDE DEF Good
        <5> QED BY <1>2, <4>1, <4>2, <4>4
      <4>6. f[i] = G[i][i] /\ f[i - 1] = G[i - 1][i - 1]
        BY <4>1
      <4> QED BY <3>2, <4>3, <4>5, <4>6
    <3> QED BY <3>1, <3>2
  <2>3. f = [i \in D |-> IF i = 0 THEN a ELSE rule[<<i, f[i - 1]>>]]
    <3>1. f = [i \in D |-> f[i]]
      OBVIOUS
    <3> HIDE DEF f
    <3> QED BY <2>2, <3>1
  <2> QED BY <2>3 DEF Iterates
<1>4. ASSUME NEW f, Iterates(f, D, a, rule) PROVE f \in [D -> V]
  <2> DEFINE S == {j \in Nat : j \in D => f[j] \in V}
  <2>1. \A i \in D : f[i] = IF i = 0 THEN a ELSE rule[<<i, f[i - 1]>>]
    BY <1>4 DEF Iterates
  <2>2. 0 \in S
    BY <2>1
  <2>3. ASSUME NEW j \in Nat, j \in S PROVE j + 1 \in S
    <3> SUFFICES ASSUME j + 1 \in D PROVE f[j + 1] \in V
      OBVIOUS
    <3>1. (j + 1) - 1 = j /\ j + 1 # 0
      OBVIOUS
    <3>2. j \in D
      BY <3>1
    <3>3. f[j] \in V
      BY <2>3, <3>2
    <3>4. f[j + 1] = rule[<<j + 1, f[j]>>]
      BY <2>1, <3>1
    <3> QED BY <3>3, <3>4
  <2> HIDE DEF S
  <2>4. Nat \subseteq S
    BY <2>2, <2>3, Induct
  <2>5. \A i \in D : f[i] \in V
    BY <2>4 DEF S
  <2>6. f = [i \in D |-> f[i]]
    BY <1>4 DEF Iterates
  <2> QED BY <2>5, <2>6
<1> QED BY <1>3, <1>4
-----------------------------------------------------------------------------

\* The bytes of one entry.
EntryBytes(k, n) == {k} \X (1 .. n)

\* The domains and the values of a map after Without and With.
LEMMA WithoutDef ==
  ASSUME NEW m, NEW S
  PROVE  /\ DOMAIN Without(m, S) = DOMAIN m \ S
         /\ \A k \in DOMAIN m \ S : Without(m, S)[k] = m[k]
BY DEF Without, Restrict

\* What binding one more key makes of a map.
LEMMA WithDef ==
  ASSUME NEW m, NEW k, NEW e
  PROVE  /\ DOMAIN With(m, k, e) = DOMAIN m \cup {k}
         /\ With(m, k, e)[k] = e
         /\ \A j \in DOMAIN m \ {k} : With(m, k, e)[j] = m[j]
BY DEF With

\* Entry k of n bytes is counted as n bytes.
LEMMA EntryBytesCount ==
  ASSUME NEW k, NEW n \in Nat
  PROVE  IsFiniteSet(EntryBytes(k, n)) /\ Cardinality(EntryBytes(k, n)) = n
<1> DEFINE f == [i \in 1 .. n |-> <<k, i>>]
<1>1. IsFiniteSet(1 .. n) /\ Cardinality(1 .. n) = n
  BY FS_Interval
<1>2. f \in Bijection(1 .. n, EntryBytes(k, n))
  <2>1. f \in [1 .. n -> EntryBytes(k, n)]
    BY DEF EntryBytes
  <2>2. \A i, j \in DOMAIN f : f[i] = f[j] => i = j
    OBVIOUS
  <2>3. \A b \in EntryBytes(k, n) : \E i \in 1 .. n : f[i] = b
    BY DEF EntryBytes
  <2> QED BY <2>1, <2>2, <2>3 DEF Bijection, Injection, Surjection, IsInjective
<1>3. ExistsBijection(1 .. n, EntryBytes(k, n))
  BY <1>2 DEF ExistsBijection
<1> QED BY <1>1, <1>3, FS_Bijection

\* The total size depends on the domain and the sizes only.
LEMMA TotalSame ==
  ASSUME NEW m, NEW n, DOMAIN m = DOMAIN n,
         \A k \in DOMAIN m : m[k].size = n[k].size
  PROVE  BytesOf(m) = BytesOf(n)
BY DEF BytesOf

\* The empty map has no bytes.
LEMMA TotalEmpty ==
  ASSUME NEW m, DOMAIN m = {}
  PROVE  Countable(m) /\ TotalSize(m) = 0
<1>1. BytesOf(m) = {}
  BY DEF BytesOf
<1> QED BY <1>1, FS_EmptySet DEF Countable, TotalSize

\* A countable map has a natural total size.
LEMMA TotalType ==
  ASSUME NEW m, Countable(m)
  PROVE  TotalSize(m) \in Nat
BY FS_CardinalityType DEF Countable, TotalSize

\* Adding entry k to a map n that lacks it gives a map m whose total size is
\* larger by the size of the entry; read backwards, this is what removing k takes away.
LEMMA TotalAdd ==
  ASSUME NEW m, NEW n, NEW k, m[k].size \in Nat,
         k \notin DOMAIN n, DOMAIN m = DOMAIN n \cup {k},
         \A j \in DOMAIN n : m[j].size = n[j].size
  PROVE  /\ Countable(n) => Countable(m) /\ TotalSize(m) = TotalSize(n) + m[k].size
         /\ Countable(m) => Countable(n)
<1>0. PICK s \in Nat : s = m[k].size
  OBVIOUS
<1>1. BytesOf(m) = BytesOf(n) \cup EntryBytes(k, s)
  BY <1>0 DEF BytesOf, EntryBytes
<1>2. BytesOf(n) \cap EntryBytes(k, s) = {}
  BY DEF BytesOf, EntryBytes
<1>3. IsFiniteSet(EntryBytes(k, s)) /\ Cardinality(EntryBytes(k, s)) = s
  BY EntryBytesCount
<1>4. ASSUME Countable(n)
      PROVE  Countable(m) /\ TotalSize(m) = TotalSize(n) + s
  <2>1. /\ IsFiniteSet(BytesOf(m))
        /\ Cardinality(BytesOf(m))
             = Cardinality(BytesOf(n)) + s - Cardinality(BytesOf(n) \cap EntryBytes(k, s))
    BY <1>1, <1>3, <1>4, FS_Union DEF Countable
  <2>2. Cardinality(BytesOf(n)) \in Nat
    BY <1>4, FS_CardinalityType DEF Countable
  <2>3. Cardinality(BytesOf(n) \cap EntryBytes(k, s)) = 0
    BY <1>2, FS_EmptySet
  <2>4. IsFiniteSet(DOMAIN m)
    BY <1>4, FS_AddElement DEF Countable
  <2> QED BY <2>1, <2>2, <2>3, <2>4 DEF Countable, TotalSize
<1>5. ASSUME Countable(m) PROVE Countable(n)
  <2>1. BytesOf(n) \in SUBSET BytesOf(m) /\ DOMAIN n \in SUBSET DOMAIN m
    BY <1>1
  <2> QED BY <1>5, <2>1, FS_Subset DEF Countable
<1> QED BY <1>0, <1>4, <1>5

\* Taking entry k out of a countable map takes its size from the total.
LEMMA TotalWithout ==
  ASSUME NEW m, NEW k \in DOMAIN m, m[k].size \in Nat, Countable(m)
  PROVE  /\ Countable(Without(m, {k}))
         /\ TotalSize(Without(m, {k})) = TotalSize(m) - m[k].size
         /\ TotalSize(Without(m, {k})) \in Nat
<1> DEFINE n == Without(m, {k})
<1>1. /\ DOMAIN n = DOMAIN m \ {k}
      /\ \A j \in DOMAIN n : m[j].size = n[j].size
  BY DEF Without, Restrict
<1>2. DOMAIN m = DOMAIN n \cup {k} /\ k \notin DOMAIN n
  BY <1>1
<1> HIDE DEF n
<1>3. Countable(n) /\ TotalSize(m) = TotalSize(n) + m[k].size
  BY <1>1, <1>2, TotalAdd
<1>4. TotalSize(n) \in Nat
  BY <1>3, TotalType
<1> QED BY <1>3, <1>4 DEF n

\* Binding a new key to an entry adds the size of the entry to the total.
LEMMA TotalWith ==
  ASSUME NEW m, NEW k, k \notin DOMAIN m, NEW e, e.size \in Nat, Countable(m)
  PROVE  /\ Countable(With(m, k, e))
         /\ TotalSize(With(m, k, e)) = TotalSize(m) + e.size
<1> DEFINE n == With(m, k, e)
<1>1. /\ DOMAIN n = DOMAIN m \cup {k}
      /\ n[k] = e
      /\ \A j \in DOMAIN m : n[j].size = m[j].size
  BY DEF With
<1> HIDE DEF n
<1>2. Countable(n) /\ TotalSize(n) = TotalSize(m) + n[k].size
  BY <1>1, TotalAdd
<1> QED BY <1>1, <1>2 DEF n

\* Splitting a map in two splits its total size.
LEMMA TotalSplit ==
  ASSUME NEW m, Countable(m), NEW S \in SUBSET DOMAIN m
  PROVE  /\ Countable(Without(m, S)) /\ Countable(Restrict(m, S))
         /\ TotalSize(m) = TotalSize(Without(m, S)) + TotalSize(Restrict(m, S))
<1> DEFINE a == Without(m, S)
           b == Restrict(m, S)
<1>1. /\ DOMAIN a = DOMAIN m \ S /\ DOMAIN b = S
      /\ \A k \in DOMAIN a : a[k] = m[k]
      /\ \A k \in DOMAIN b : b[k] = m[k]
  BY DEF Without, Restrict
<1> HIDE DEF a, b
<1>2. BytesOf(m) = BytesOf(a) \cup BytesOf(b)
  BY <1>1 DEF BytesOf
<1>3. BytesOf(a) \cap BytesOf(b) = {}
  BY <1>1 DEF BytesOf
<1>4. /\ IsFiniteSet(BytesOf(a)) /\ IsFiniteSet(BytesOf(b))
      /\ IsFiniteSet(DOMAIN a) /\ IsFiniteSet(DOMAIN b)
  <2>1. /\ BytesOf(a) \in SUBSET BytesOf(m) /\ BytesOf(b) \in SUBSET BytesOf(m)
        /\ DOMAIN a \in SUBSET DOMAIN m /\ DOMAIN b \in SUBSET DOMAIN m
    BY <1>1, <1>2
  <2> QED BY <2>1, FS_Subset DEF Countable
<1>5. Cardinality(BytesOf(m)) = Cardinality(BytesOf(a)) + Cardinality(BytesOf(b))
  <2>1. Cardinality(BytesOf(a) \cup BytesOf(b))
          = Cardinality(BytesOf(a)) + Cardinality(BytesOf(b))
              - Cardinality(BytesOf(a) \cap BytesOf(b))
    BY <1>4, FS_Union
  <2>2. Cardinality(BytesOf(a) \cap BytesOf(b)) = 0
    BY <1>3, FS_EmptySet
  <2>3. Cardinality(BytesOf(a)) \in Nat /\ Cardinality(BytesOf(b)) \in Nat
    BY <1>4, FS_CardinalityType
  <2> QED BY <1>2, <2>1, <2>2, <2>3
<1> QED BY <1>4, <1>5 DEF Countable, TotalSize, a, b
-----------------------------------------------------------------------------
(* Sums of the values of a function.                                        *)

\* A function with natural values on a finite domain has a sum.
LEMMA SumFinite ==
  ASSUME NEW f, IsFiniteSet(DOMAIN f), \A x \in DOMAIN f : f[x] \in Nat
  PROVE  IsFiniteSet(UnitsOf(f)) /\ Total(f) \in Nat
<1> DEFINE D == DOMAIN f
           T == {EntryBytes(x, f[x]) : x \in D}
           g == [x \in D |-> EntryBytes(x, f[x])]
<1>1. g \in Surjection(D, T)
  BY DEF Surjection
<1>2. IsFiniteSet(T)
  BY <1>1, FS_Surjection
<1>3. \A X \in T : IsFiniteSet(X)
  <2> SUFFICES ASSUME NEW x \in D PROVE IsFiniteSet(EntryBytes(x, f[x]))
    OBVIOUS
  <2> QED BY EntryBytesCount
<1>4. UnitsOf(f) = UNION T
  BY DEF UnitsOf, EntryBytes
<1> HIDE DEF T
<1>5. IsFiniteSet(UnitsOf(f))
  BY <1>2, <1>3, <1>4, FS_UNION
<1> QED BY <1>5, FS_CardinalityType DEF Total

\* Changing one value changes the sum by the difference.
LEMMA SumChange ==
  ASSUME NEW f, NEW g, DOMAIN f = DOMAIN g, IsFiniteSet(DOMAIN f), NEW x \in DOMAIN f,
         \A y \in DOMAIN f : f[y] \in Nat /\ g[y] \in Nat,
         \A y \in DOMAIN f \ {x} : f[y] = g[y]
  PROVE  Total(g) = Total(f) - f[x] + g[x] /\ Total(f) \in Nat
<1> DEFINE R == UNION {EntryBytes(y, f[y]) : y \in DOMAIN f \ {x}}
<1>1. UnitsOf(f) = R \cup EntryBytes(x, f[x]) /\ R \cap EntryBytes(x, f[x]) = {}
  BY DEF UnitsOf, EntryBytes
<1>2. UnitsOf(g) = R \cup EntryBytes(x, g[x]) /\ R \cap EntryBytes(x, g[x]) = {}
  BY DEF UnitsOf, EntryBytes
<1>3. IsFiniteSet(R)
  <2>1. IsFiniteSet(UnitsOf(f)) /\ R \in SUBSET UnitsOf(f)
    BY <1>1, SumFinite
  <2> QED BY <2>1, FS_Subset
<1> HIDE DEF R
<1>4. ASSUME NEW n \in Nat, R \cap EntryBytes(x, n) = {}
      PROVE  Cardinality(R \cup EntryBytes(x, n)) = Cardinality(R) + n
  <2>1. IsFiniteSet(EntryBytes(x, n)) /\ Cardinality(EntryBytes(x, n)) = n
    BY EntryBytesCount
  <2>2. Cardinality(R \cup EntryBytes(x, n))
          = Cardinality(R) + n - Cardinality(R \cap EntryBytes(x, n))
    BY <1>3, <2>1, FS_Union
  <2>3. Cardinality(R) \in Nat /\ Cardinality(R \cap EntryBytes(x, n)) = 0
    BY <1>3, <1>4, FS_EmptySet, FS_CardinalityType
  <2> QED BY <2>2, <2>3
<1>5. f[x] \in Nat /\ g[x] \in Nat /\ Cardinality(R) \in Nat
  BY <1>3, FS_CardinalityType
<1>6. Total(f) = Cardinality(R) + f[x] /\ Total(g) = Cardinality(R) + g[x]
  BY <1>1, <1>2, <1>4, <1>5 DEF Total
<1> QED BY <1>5, <1>6

\* Functions with the same values have the same sum.
LEMMA SumSame ==
  ASSUME NEW f, NEW g, DOMAIN f = DOMAIN g, \A x \in DOMAIN f : f[x] = g[x]
  PROVE  Total(f) = Total(g)
<1>1. UnitsOf(f) = UnitsOf(g)
  BY DEF UnitsOf
<1> QED BY <1>1 DEF Total

\* Nothing adds up to 0.
LEMMA SumZero ==
  ASSUME NEW f, \A x \in DOMAIN f : f[x] = 0
  PROVE  Total(f) = 0
<1>1. UnitsOf(f) = {}
  BY DEF UnitsOf
<1> QED BY <1>1, FS_EmptySet DEF Total

\* The sum of one value is the value.
LEMMA SumOne ==
  ASSUME NEW f, NEW x, DOMAIN f = {x}, f[x] \in Nat
  PROVE  Total(f) = f[x]
<1>1. UnitsOf(f) = EntryBytes(x, f[x])
  BY DEF UnitsOf, EntryBytes
<1> QED BY <1>1, EntryBytesCount DEF Total
=============================================================================
