--------------------------- MODULE CountersProofs ---------------------------
(* The counters current_size and entry_count of the cache: with the updates *)
(* still pending they are what the shards hold, modulo the wrap, however    *)
(* many threads interleave, call from hooks and panic.  With the history    *)
(* that MCCache keeps: the metrics explain the entries stored, and every    *)
(* departure of a key is reported by one hook.                              *)
EXTENDS CacheProofs, MCCache

USE ThreadsAssumption, KeysAssumption, ParametersAssumption
-----------------------------------------------------------------------------
(* Arithmetic modulo w.                                                     *)

\* Division with remainder.
LEMMA ModIs ==
  ASSUME NEW w \in Nat \ {0}, NEW a \in Int
  PROVE  a = w * (a \div w) + (a % w) /\ a \div w \in Int /\ a % w \in 0 .. w - 1
OBVIOUS

\* A multiple of w that is not 0 is at least w away from it.
LEMMA MultipleIsFar ==
  ASSUME NEW w \in Nat \ {0}, NEW k \in Int, k >= 1
  PROVE  w * k >= w
<1>1. w * k = w + w * (k - 1)
  OBVIOUS
<1>2. w * (k - 1) >= 0
  OBVIOUS
<1> QED BY <1>1, <1>2

\* The remainder is unique.
LEMMA ModUnique ==
  ASSUME NEW w \in Nat \ {0}, NEW a \in Int, NEW q \in Int, NEW r \in 0 .. w - 1,
         a = w * q + r
  PROVE  a % w = r
<1> DEFINE p == a \div w
           s == a % w
<1>1. a = w * p + s /\ p \in Int /\ s \in 0 .. w - 1
  BY ModIs
<1> HIDE DEF p, s
<1>2. w * (q - p) = s - r
  BY <1>1
<1>3. q - p >= 1 => FALSE
  <2>1. q - p >= 1 => w * (q - p) >= w
    BY <1>1, MultipleIsFar
  <2> QED BY <1>1, <1>2, <2>1
<1>4. p - q >= 1 => FALSE
  <2>1. p - q >= 1 => w * (p - q) >= w
    BY <1>1, MultipleIsFar
  <2>2. w * (p - q) = r - s
    BY <1>1
  <2> QED BY <1>1, <2>1, <2>2
<1>5. p = q
  BY <1>1, <1>3, <1>4
<1> QED BY <1>1, <1>5 DEF s

\* Numbers with the same remainder keep it when the same is added.
LEMMA ModAdd ==
  ASSUME NEW w \in Nat \ {0}, NEW a \in Int, NEW b \in Int, NEW d \in Int, a % w = b % w
  PROVE  (a + d) % w = (b + d) % w
<1> DEFINE m == a % w
           x == b + d
           y == a + d
           r == x % w
<1>1. /\ a = w * (a \div w) + m /\ a \div w \in Int /\ m \in Int
      /\ b = w * (b \div w) + m /\ b \div w \in Int
  BY ModIs
<1>2. x \in Int /\ y \in Int
  OBVIOUS
<1>3. x = w * (x \div w) + r /\ x \div w \in Int /\ r \in 0 .. w - 1
  BY <1>2, ModIs
<1>4. PICK p \in Int, q \in Int, s \in Int : a = w * p + m /\ b = w * q + m /\ b + d = w * s + r
  BY <1>1, <1>3
<1> HIDE DEF r, m
<1>5. a + d = w * (s + p - q) + r
  <2>1. w * (s + p - q) = w * s + w * p - w * q
    OBVIOUS
  <2>2. w * s \in Int /\ w * p \in Int /\ w * q \in Int
    OBVIOUS
  <2> QED BY <1>1, <1>3, <1>4, <2>1, <2>2
<1>6. y % w = r
  <2>1. y = w * (s + p - q) + r /\ s + p - q \in Int
    BY <1>5
  <2> HIDE DEF y
  <2> QED BY <1>2, <1>3, <2>1, ModUnique
<1> QED BY <1>6 DEF r

\* Sums of congruent numbers are congruent.
Congruent(a, b) == a % Width = b % Width

\* Congruent numbers add up to congruent sums.
LEMMA CongruentSum ==
  ASSUME NEW a \in Int, NEW b \in Int, NEW c \in Int, NEW d \in Int,
         Congruent(a, b), Congruent(c, d)
  PROVE  Congruent(a + c, b + d)
<1>1. (a + c) % Width = (b + c) % Width
  BY ModAdd, ZenonT(40) DEF Congruent
<1>2. (c + b) % Width = (d + b) % Width
  BY ModAdd, ZenonT(40) DEF Congruent
<1>3. c + b = b + c /\ d + b = b + d
  OBVIOUS
<1> QED BY <1>1, <1>2, <1>3 DEF Congruent

\* Congruent numbers have congruent negatives.
LEMMA CongruentMinus ==
  ASSUME NEW a \in Int, NEW b \in Int, Congruent(a, b)
  PROVE  Congruent(-a, -b)
<1>1. PICK d \in Int : d = -a - b
  OBVIOUS
<1>2. Congruent(d, d)
  BY DEF Congruent
<1>3. Congruent(a + d, b + d)
  BY <1>2, CongruentSum
<1>4. a + d = -b /\ b + d = -a
  BY <1>1
<1> QED BY <1>3, <1>4 DEF Congruent

\* Three congruent numbers less a fourth one are congruent.
LEMMA CongruentLedger ==
  ASSUME NEW x \in Int, NEW y \in Int, NEW z \in Int, NEW w \in Int,
         NEW a \in Int, NEW b \in Int, NEW c \in Int, NEW d \in Int,
         Congruent(x, a), Congruent(y, b), Congruent(z, c), Congruent(w, d)
  PROVE  Congruent(x + y + z - w, a + b + c - d)
<1>1. PICK m \in Int, n \in Int : m = -w /\ n = -d
  OBVIOUS
<1>2. Congruent(m, n)
  BY <1>1, CongruentMinus
<1>3. Congruent(x + y, a + b) /\ x + y \in Int /\ a + b \in Int
  BY CongruentSum
<1>4. Congruent((x + y) + z, (a + b) + c) /\ (x + y) + z \in Int /\ (a + b) + c \in Int
  BY <1>3, CongruentSum
<1>5. Congruent(((x + y) + z) + m, ((a + b) + c) + n)
  BY <1>2, <1>4, CongruentSum
<1>6. ((x + y) + z) + m = x + y + z - w /\ ((a + b) + c) + n = a + b + c - d
  BY <1>1
<1> QED BY <1>5, <1>6

\* A number is congruent to its remainder.
LEMMA CongruentMod ==
  ASSUME NEW a \in Int
  PROVE  Congruent(a % Width, a) /\ a % Width \in 0 .. Width - 1
<1> DEFINE r == a % Width
<1>1. r \in 0 .. Width - 1
  BY ModIs
<1> HIDE DEF r
<1>2. r \in Int /\ r = Width * 0 + r
  BY <1>1
<1>3. r % Width = r
  BY <1>1, <1>2, ModUnique
<1> QED BY <1>1, <1>3 DEF Congruent, r
-----------------------------------------------------------------------------
(* Sums over sequences.                                                     *)

\* A function on 1 .. n is a sequence of length n.
LEMMA SeqOfNumbers ==
  ASSUME NEW n \in Nat, NEW p \in [1 .. n -> Nat]
  PROVE  p \in Seq(Nat) /\ Len(p) = n
<1>1. p \in Seq(Nat)
  BY SeqDef
<1> QED BY <1>1, LenProperties

\* A sequence of numbers has a sum.
LEMMA SeqSum ==
  ASSUME NEW a \in Seq(Nat)
  PROVE  IsFiniteSet(UnitsOf(a)) /\ Total(a) \in Nat
<1>1. DOMAIN a = 1 .. Len(a) /\ \A i \in DOMAIN a : a[i] \in Nat
  BY LenProperties, ElementOfSeq
<1>2. IsFiniteSet(DOMAIN a)
  BY <1>1, LenProperties, FS_Interval
<1> QED BY <1>1, <1>2, SumFinite

\* Two sequences in a row sum up to what both do.
LEMMA SeqSumConcat ==
  ASSUME NEW a \in Seq(Nat), NEW b \in Seq(Nat)
  PROVE  Total(a \o b) = Total(a) + Total(b)
<1> DEFINE n == Len(a)
           m == Len(b)
           ab == a \o b
           A == UnitsOf(a)
           B == UnitsOf(b)
           AB == UnitsOf(ab)
           shift == [u \in B |-> <<u[1] + n, u[2]>>]
           moved == {<<u[1] + n, u[2]>> : u \in B}
<1>1. /\ DOMAIN a = 1 .. n /\ DOMAIN b = 1 .. m /\ DOMAIN ab = 1 .. n + m
      /\ \A i \in 1 .. n : ab[i] = a[i]
      /\ \A i \in 1 .. m : ab[i + n] = b[i]
  BY LenProperties, ConcatProperties
<1>2. n \in Nat /\ m \in Nat
  BY LenProperties
<1> HIDE DEF n, m, ab
<1>3. /\ \A i, j : <<i, j>> \in A <=> i \in 1 .. n /\ j \in 1 .. a[i]
      /\ \A i, j : <<i, j>> \in B <=> i \in 1 .. m /\ j \in 1 .. b[i]
      /\ \A i, j : <<i, j>> \in AB <=> i \in 1 .. n + m /\ j \in 1 .. ab[i]
  <2>1. \A f : \A i, j : <<i, j>> \in UnitsOf(f) <=> i \in DOMAIN f /\ j \in 1 .. f[i]
    BY DEF UnitsOf
  <2> QED BY <1>1, <2>1
<1>4. \A u \in A \cup B \cup AB : u = <<u[1], u[2]>>
  BY DEF UnitsOf
<1> HIDE DEF A, B, AB
<1>5. /\ \A u \in A : u[1] \in 1 .. n /\ u[2] \in 1 .. a[u[1]]
      /\ \A u \in B : u[1] \in 1 .. m /\ u[2] \in 1 .. b[u[1]]
      /\ \A u \in AB : u[1] \in 1 .. n + m /\ u[2] \in 1 .. ab[u[1]]
  <2>1. ASSUME NEW u \in A PROVE u[1] \in 1 .. n /\ u[2] \in 1 .. a[u[1]]
    <3>1. <<u[1], u[2]>> \in A
      BY <1>4
    <3> QED BY <1>3, <3>1
  <2>2. ASSUME NEW u \in B PROVE u[1] \in 1 .. m /\ u[2] \in 1 .. b[u[1]]
    <3>1. <<u[1], u[2]>> \in B
      BY <1>4
    <3> QED BY <1>3, <3>1
  <2>3. ASSUME NEW u \in AB PROVE u[1] \in 1 .. n + m /\ u[2] \in 1 .. ab[u[1]]
    <3>1. <<u[1], u[2]>> \in AB
      BY <1>4
    <3> QED BY <1>3, <3>1
  <2> QED BY <2>1, <2>2, <2>3
<1>6. AB = A \cup moved
  <2>1. ASSUME NEW u \in AB PROVE u \in A \cup moved
    <3>1. u[1] \in 1 .. n + m /\ u[2] \in 1 .. ab[u[1]] /\ u = <<u[1], u[2]>>
      BY <1>4, <1>5
    <3>2. CASE u[1] \in 1 .. n
      <4>1. ab[u[1]] = a[u[1]]
        BY <1>1, <3>2
      <4>2. <<u[1], u[2]>> \in A
        BY <1>3, <3>1, <3>2, <4>1
      <4> QED BY <3>1, <4>2
    <3>3. CASE u[1] \notin 1 .. n
      <4> DEFINE i == u[1] - n
      <4>1. i \in 1 .. m /\ u[1] = i + n
        BY <1>2, <3>1, <3>3
      <4> HIDE DEF i
      <4>2. ab[u[1]] = b[i]
        BY <1>1, <4>1
      <4>3. <<i, u[2]>> \in B
        BY <1>3, <3>1, <4>1, <4>2
      <4>4. <<i, u[2]>>[1] = i /\ <<i, u[2]>>[2] = u[2]
        OBVIOUS
      <4> QED BY <3>1, <4>1, <4>3, <4>4
    <3> QED BY <3>2, <3>3
  <2>2. ASSUME NEW u \in A PROVE u \in AB
    <3>1. u = <<u[1], u[2]>> /\ u[1] \in 1 .. n /\ u[2] \in 1 .. a[u[1]]
      BY <1>4, <1>5
    <3>2. u[1] \in 1 .. n + m
      BY <1>2, <3>1
    <3>3. ab[u[1]] = a[u[1]]
      BY <1>1, <3>1
    <3>4. <<u[1], u[2]>> \in AB
      BY <1>3, <3>1, <3>2, <3>3
    <3> QED BY <3>1, <3>4
  <2>3. ASSUME NEW u \in B PROVE <<u[1] + n, u[2]>> \in AB
    <3>1. u[1] \in 1 .. m /\ u[2] \in 1 .. b[u[1]]
      BY <1>5
    <3>2. u[1] + n \in 1 .. n + m
      BY <1>2, <3>1
    <3>3. ab[u[1] + n] = b[u[1]]
      BY <1>1, <3>1
    <3> QED BY <1>3, <3>1, <3>2, <3>3
  <2> QED BY <2>1, <2>2, <2>3
<1>7. A \cap moved = {}
  <2> SUFFICES ASSUME NEW u \in B, <<u[1] + n, u[2]>> \in A PROVE FALSE
    OBVIOUS
  <2>1. u[1] \in 1 .. m /\ u[1] + n \in 1 .. n
    BY <1>3, <1>5
  <2> QED BY <1>2, <2>1
<1>8. shift \in Bijection(B, moved)
  <2>1. ASSUME NEW u \in B, NEW v \in B, <<u[1] + n, u[2]>> = <<v[1] + n, v[2]>>
        PROVE  u = v
    <3>1. u[1] + n = v[1] + n /\ u[2] = v[2]
      BY <2>1
    <3>2. u[1] \in 1 .. m /\ v[1] \in 1 .. m
      BY <1>5
    <3>3. u[1] = v[1]
      BY <1>2, <3>1, <3>2
    <3>4. u = <<u[1], u[2]>> /\ v = <<v[1], v[2]>>
      BY <1>4
    <3> QED BY <3>1, <3>3, <3>4
  <2> QED BY <2>1 DEF Bijection, Injection, Surjection, IsInjective
<1>9. IsFiniteSet(A) /\ IsFiniteSet(B)
  BY SeqSum DEF A, B
<1>10. IsFiniteSet(moved) /\ Cardinality(moved) = Cardinality(B)
  BY <1>8, <1>9, FS_Bijection DEF ExistsBijection
<1> HIDE DEF moved
<1>11. Cardinality(A \cup moved) = Cardinality(A) + Cardinality(moved)
  <2>1. Cardinality(A \cap moved) = 0
    BY <1>7, FS_EmptySet
  <2>2. Cardinality(A) \in Nat /\ Cardinality(moved) \in Nat
    BY <1>9, <1>10, FS_CardinalityType
  <2>3. Cardinality(A \cup moved)
          = Cardinality(A) + Cardinality(moved) - Cardinality(A \cap moved)
    BY <1>9, <1>10, FS_Union
  <2> QED BY <2>1, <2>2, <2>3
<1> QED BY <1>6, <1>10, <1>11 DEF Total, A, B, AB, ab

\* A sequence of numbers made from another one, element by element.
Mapped(f, e) == [i \in DOMAIN e |-> f[e[i]]]

\* Two sequences in a row sum up to what both do, mapped element by element.
LEMMA MapConcat ==
  ASSUME NEW S, NEW a \in Seq(S), NEW b \in Seq(S), NEW f,
         \A x \in S : f[x] \in Nat
  PROVE  /\ Total(Mapped(f, a \o b)) = Total(Mapped(f, a)) + Total(Mapped(f, b))
         /\ Total(Mapped(f, a)) \in Nat /\ Total(Mapped(f, b)) \in Nat
<1> DEFINE p == Mapped(f, a)
           q == Mapped(f, b)
           pq == Mapped(f, a \o b)
<1>1. /\ DOMAIN a = 1 .. Len(a) /\ DOMAIN b = 1 .. Len(b)
      /\ DOMAIN (a \o b) = 1 .. Len(a) + Len(b)
      /\ Len(a) \in Nat /\ Len(b) \in Nat
      /\ \A i \in 1 .. Len(a) + Len(b) :
           (a \o b)[i] = IF i <= Len(a) THEN a[i] ELSE b[i - Len(a)]
      /\ \A i \in DOMAIN a : a[i] \in S
      /\ \A i \in DOMAIN b : b[i] \in S
  BY LenProperties, ConcatProperties, ElementOfSeq
<1>2. /\ p \in [1 .. Len(a) -> Nat] /\ q \in [1 .. Len(b) -> Nat]
      /\ \A i \in 1 .. Len(a) : p[i] = f[a[i]]
      /\ \A i \in 1 .. Len(b) : q[i] = f[b[i]]
  BY <1>1 DEF Mapped
<1>3. /\ \A i \in 1 .. Len(a) + Len(b) : pq[i] = f[(a \o b)[i]] /\ (a \o b)[i] \in S
      /\ DOMAIN pq = 1 .. Len(a) + Len(b)
  <2>1. a \o b \in Seq(S)
    BY ConcatProperties
  <2>2. \A i \in 1 .. Len(a) + Len(b) : (a \o b)[i] \in S
    BY <1>1, <2>1, LenProperties, ElementOfSeq
  <2> QED BY <1>1, <2>2 DEF Mapped
<1>4. pq \in [1 .. Len(a) + Len(b) -> Nat]
  <2>1. pq = [i \in DOMAIN pq |-> pq[i]]
    BY DEF Mapped
  <2> QED BY <1>3, <2>1
<1> HIDE DEF p, q, pq
<1>5. /\ p \in Seq(Nat) /\ q \in Seq(Nat) /\ pq \in Seq(Nat)
      /\ Len(p) = Len(a) /\ Len(q) = Len(b) /\ Len(pq) = Len(a) + Len(b)
  <2>1. p \in Seq(Nat) /\ Len(p) = Len(a)
    BY <1>1, <1>2, SeqOfNumbers
  <2>2. q \in Seq(Nat) /\ Len(q) = Len(b)
    BY <1>1, <1>2, SeqOfNumbers
  <2>3. PICK n \in Nat : n = Len(a) + Len(b)
    BY <1>1
  <2>4. pq \in Seq(Nat) /\ Len(pq) = n
    BY <1>4, <2>3, SeqOfNumbers
  <2> QED BY <2>1, <2>2, <2>3, <2>4
<1>6. pq = p \o q
  <2>1. /\ p \o q \in Seq(Nat) /\ Len(p \o q) = Len(p) + Len(q)
        /\ \A i \in 1 .. Len(p) + Len(q) :
             (p \o q)[i] = IF i <= Len(p) THEN p[i] ELSE q[i - Len(p)]
    <3>1. p \in Seq(Nat) /\ q \in Seq(Nat)
      BY <1>5
    <3> QED BY <3>1, ConcatProperties
  <2>2. ASSUME NEW i \in 1 .. Len(pq) PROVE pq[i] = (p \o q)[i]
    <3>1. i \in 1 .. Len(a) + Len(b) /\ pq[i] = f[(a \o b)[i]]
          /\ (p \o q)[i] = IF i <= Len(a) THEN p[i] ELSE q[i - Len(a)]
      BY <1>3, <1>5, <2>1
    <3>2. CASE i <= Len(a)
      <4>1. i \in 1 .. Len(a) /\ (a \o b)[i] = a[i]
        BY <1>1, <3>1, <3>2
      <4> QED BY <1>2, <3>1, <3>2, <4>1
    <3>3. CASE ~ (i <= Len(a))
      <4>1. i - Len(a) \in 1 .. Len(b) /\ (a \o b)[i] = b[i - Len(a)]
        BY <1>1, <3>1, <3>3
      <4> QED BY <1>2, <3>1, <3>3, <4>1
    <3> QED BY <3>2, <3>3
  <2> QED BY <1>5, <2>1, <2>2, SeqEqual
<1> QED BY <1>5, <1>6, SeqSum, SeqSumConcat DEF p, q, pq
-----------------------------------------------------------------------------
(* What a sequence of effects still has to add to a counter.                *)

AddedBy(e, c) == [i \in Adds(e, c) |-> e[i].by % Width]

\* It is a natural number.
LEMMA PendingType ==
  ASSUME NEW e \in Seq(Effects), NEW c
  PROVE  /\ Adds(e, c) \subseteq 1 .. Len(e) /\ IsFiniteSet(Adds(e, c))
         /\ \A i \in Adds(e, c) : e[i].by % Width \in Nat
         /\ IsFiniteSet(UnitsOf(AddedBy(e, c)))
         /\ PendingOf(e, c) \in Nat /\ PendingOf(e, c) = Total(AddedBy(e, c))
<1>1. DOMAIN e = 1 .. Len(e) /\ Len(e) \in Nat
  BY LenProperties
<1>2. Adds(e, c) \in SUBSET (1 .. Len(e)) /\ IsFiniteSet(1 .. Len(e))
  BY <1>1, FS_Interval DEF Adds
<1>3. IsFiniteSet(Adds(e, c))
  BY <1>2, FS_Subset
<1>4. ASSUME NEW i \in Adds(e, c) PROVE e[i].by % Width \in Nat
  <2>1. e[i] \in Effects /\ e[i].do = "add"
    BY <1>1, ElementOfSeq DEF Adds
  <2>2. e[i].by \in Int
    BY <2>1, EffectFields
  <2>3. PICK n \in Int : n = e[i].by
    BY <2>2
  <2>4. n % Width \in Nat
    BY CongruentMod
  <2> QED BY <2>3, <2>4
<1>5. IsFiniteSet(UnitsOf(AddedBy(e, c))) /\ Total(AddedBy(e, c)) \in Nat
  <2> DEFINE f == AddedBy(e, c)
  <2>1. DOMAIN f = Adds(e, c) /\ \A i \in DOMAIN f : f[i] \in Nat
    BY <1>4 DEF AddedBy
  <2> HIDE DEF f
  <2>2. IsFiniteSet(UnitsOf(f)) /\ Total(f) \in Nat
    BY <1>3, <2>1, SumFinite
  <2> QED BY <2>2 DEF f
<1>6. PendingOf(e, c) = Total(AddedBy(e, c))
  BY DEF PendingOf, AddedBy
<1> QED BY <1>2, <1>3, <1>4, <1>5, <1>6

\* Two sequences in a row add what both add.
LEMMA PendingConcat ==
  ASSUME NEW a \in Seq(Effects), NEW b \in Seq(Effects), NEW c
  PROVE  PendingOf(a \o b, c) = PendingOf(a, c) + PendingOf(b, c)
<1> DEFINE f == [x \in Effects |->
                   IF x.do = "add" /\ x.counter = c THEN x.by % Width ELSE 0]
<1>1. \A x \in Effects : f[x] \in Nat
  <2> SUFFICES ASSUME NEW x \in Effects, x.do = "add", x.counter = c PROVE x.by % Width \in Nat
    OBVIOUS
  <2>1. PICK n \in Int : n = x.by
    BY EffectFields
  <2>2. n % Width \in Nat
    BY CongruentMod
  <2> QED BY <2>1, <2>2
<1>2. ASSUME NEW e \in Seq(Effects)
      PROVE  PendingOf(e, c) = Total(Mapped(f, e))
  <2> DEFINE g == AddedBy(e, c)
             h == Mapped(f, e)
  <2>1. \A i \in DOMAIN e : e[i] \in Effects
    BY LenProperties, ElementOfSeq
  <2>2. /\ DOMAIN g = Adds(e, c) /\ DOMAIN h = DOMAIN e /\ Adds(e, c) \subseteq DOMAIN e
        /\ \A i \in DOMAIN g : g[i] = h[i]
        /\ \A i \in DOMAIN h \ DOMAIN g : h[i] = 0
    BY <2>1 DEF AddedBy, Adds, Mapped
  <2> HIDE DEF g, h
  <2>3. UnitsOf(g) = UnitsOf(h)
    <3>1. \A z : \A u : u \in UnitsOf(z) <=>
                   \E i \in DOMAIN z : u \in {i} \X (1 .. z[i])
      BY DEF UnitsOf
    <3>2. \A i \in DOMAIN h \ DOMAIN g : {i} \X (1 .. h[i]) = {}
      BY <2>2
    <3>3. ASSUME NEW u \in UnitsOf(g) PROVE u \in UnitsOf(h)
      BY <2>2, <3>1
    <3>4. ASSUME NEW u \in UnitsOf(h) PROVE u \in UnitsOf(g)
      <4>1. PICK i \in DOMAIN h : u \in {i} \X (1 .. h[i])
        BY <3>1
      <4>2. i \in DOMAIN g
        BY <3>2, <4>1
      <4> QED BY <2>2, <3>1, <4>1, <4>2
    <3> QED BY <3>3, <3>4
  <2> QED BY <2>3, PendingType DEF Total, g, h
<1> HIDE DEF f
<1>3. a \o b \in Seq(Effects)
  BY ConcatProperties
<1>4. Total(Mapped(f, a \o b)) = Total(Mapped(f, a)) + Total(Mapped(f, b))
  BY <1>1, MapConcat
<1>5. /\ PendingOf(a \o b, c) = Total(Mapped(f, a \o b))
      /\ PendingOf(a, c) = Total(Mapped(f, a)) /\ PendingOf(b, c) = Total(Mapped(f, b))
  BY <1>2, <1>3
<1> QED BY <1>4, <1>5

\* Effects that do not update counter c add nothing to it.
LEMMA PendingNone ==
  ASSUME NEW e \in Seq(Effects), NEW c,
         \A i \in DOMAIN e : e[i].do = "add" => e[i].counter # c
  PROVE  PendingOf(e, c) = 0
<1>1. Adds(e, c) = {}
  BY DEF Adds
<1> QED BY <1>1, SumZero DEF PendingOf

\* An update adds its number, up to the wrap, to its counter.
LEMMA PendingOne ==
  ASSUME NEW x \in Effects, x.do = "add"
  PROVE  /\ PendingOf(<<x>>, x.counter) = x.by % Width /\ x.by \in Int
         /\ \A d : d # x.counter => PendingOf(<<x>>, d) = 0
<1> DEFINE e == <<x>>
           c == x.counter
           f == AddedBy(e, c)
<1>1. PICK n \in Int : n = x.by
  BY EffectFields
<1>2. e \in Seq(Effects) /\ DOMAIN e = {1} /\ e[1] = x
  OBVIOUS
<1> HIDE DEF e
<1>3. Adds(e, c) = {1}
  BY <1>2 DEF Adds
<1>4. DOMAIN f = {1} /\ f[1] = n % Width
  BY <1>1, <1>2, <1>3 DEF AddedBy
<1>5. f[1] \in Nat
  BY <1>4, CongruentMod
<1> HIDE DEF f
<1>6. Total(f) = n % Width
  BY <1>4, <1>5, SumOne
<1>7. PendingOf(e, c) = n % Width
  BY <1>2, <1>6, PendingType DEF f
<1>8. \A d : d # c => PendingOf(e, d) = 0
  BY <1>2, PendingNone
<1> QED BY <1>1, <1>7, <1>8 DEF e

\* A pending update counts for its own counter and for no other.
LEMMA PendingAdd ==
  ASSUME NEW n \in Int, NEW c \in Counters
  PROVE  /\ PendingOf(<<Add(c, n)>>, c) = n % Width
         /\ \A d : d # c => PendingOf(<<Add(c, n)>>, d) = 0
<1>1. Add(c, n) \in Effects
  BY EffectTypes
<1>2. Add(c, n).do = "add" /\ Add(c, n).counter = c /\ Add(c, n).by = n
  BY DEF Add
<1> QED BY <1>1, <1>2, PendingOne

\* Two updates of different counters.
LEMMA PendingAdds ==
  ASSUME NEW c \in Counters, NEW m \in Int, NEW d \in Counters, NEW n \in Int, c # d
  PROVE  /\ <<Add(c, m), Add(d, n)>> \in Seq(Effects)
         /\ PendingOf(<<Add(c, m), Add(d, n)>>, c) = m % Width
         /\ PendingOf(<<Add(c, m), Add(d, n)>>, d) = n % Width
<1> DEFINE x == <<Add(c, m)>>
           y == <<Add(d, n)>>
           e == <<Add(c, m), Add(d, n)>>
<1>1. x \in Seq(Effects) /\ y \in Seq(Effects)
  BY AddWork
<1>2. e = x \o y
  OBVIOUS
<1>3. /\ PendingOf(x, c) = m % Width /\ PendingOf(y, c) = 0
      /\ PendingOf(x, d) = 0 /\ PendingOf(y, d) = n % Width
  BY PendingAdd
<1>4. m % Width \in Int /\ n % Width \in Int
  BY CongruentMod
<1> HIDE DEF x, y, e
<1>5. /\ PendingOf(x \o y, c) = PendingOf(x, c) + PendingOf(y, c)
      /\ PendingOf(x \o y, d) = PendingOf(x, d) + PendingOf(y, d)
      /\ x \o y \in Seq(Effects)
  BY <1>1, PendingConcat, ConcatProperties
<1>6. e \in Seq(Effects) /\ PendingOf(e, c) = m % Width /\ PendingOf(e, d) = n % Width
  BY <1>2, <1>3, <1>4, <1>5
<1> QED BY <1>6 DEF e

\* The two counters that are exact; what a map of entries contributes to them.
Sizing == {"current_size", "entry_count"}
Held(c, m) == IF c = "current_size" THEN TotalSize(m) ELSE Cardinality(DOMAIN m)

\* What a metric counts is added to it, and to nothing else.
LEMMA PendingCountFor ==
  ASSUME NEW x \in Counters, NEW n \in Int, NEW c
  PROVE  /\ Count(x, n) \in Seq(Effects)
         /\ c # x => PendingOf(Count(x, n), c) = 0
         /\ c = x /\ MetricsFeature => PendingOf(Count(x, n), c) = n % Width
<1>1. Count(x, n) \in Seq(Effects)
  BY CountWork
<1>2. \A i \in DOMAIN Count(x, n) : Count(x, n)[i].counter = x
  BY DEF Count, Add
<1>3. c # x => PendingOf(Count(x, n), c) = 0
  BY <1>1, <1>2, PendingNone
<1>4. c = x /\ MetricsFeature => PendingOf(Count(x, n), c) = n % Width
  BY PendingAdd DEF Count
<1> QED BY <1>1, <1>3, <1>4

\* Metrics add nothing to the size and the number of the entries.
LEMMA PendingCount ==
  ASSUME NEW x \in Metrics, NEW n \in Int, NEW c \in Sizing
  PROVE  Count(x, n) \in Seq(Effects) /\ PendingOf(Count(x, n), c) = 0
<1>1. x \in Counters /\ x # c
  BY DEF Counters, Metrics, Sizing
<1> QED BY <1>1, PendingCountFor

\* Effects that update nothing leave nothing pending.
LEMMA PendingUser ==
  ASSUME NEW e \in Seq(Effects), \A i \in DOMAIN e : e[i].do # "add", NEW c
  PROVE  PendingOf(e, c) = 0
BY PendingNone

\* What the updates of an insert add to a counter.
Delta(c, old, size, victims) ==
  IF c = "current_size"
  THEN size - (IF old # << >> THEN old[1].size ELSE 0) - TotalSize(victims)
  ELSE (IF old # << >> THEN 0 ELSE 1) - Cardinality(DOMAIN victims)

\* The updates that an insert leaves to do add that.
LEMMA PendingInsert ==
  ASSUME NEW old, old # << >> => old[1].size \in Nat, NEW size \in Nat,
         NEW victims, Countable(victims), DOMAIN victims \in SUBSET Keys, NEW c \in Sizing
  PROVE  /\ Delta(c, old, size, victims) \in Int
         /\ Congruent(PendingOf(InsertEffects(old, size, victims), c),
                      Delta(c, old, size, victims))
<1> DEFINE n == Cardinality(DOMAIN victims)
           z == TotalSize(victims)
           a == IF old # << >>
                THEN <<Add("current_size", size - old[1].size)>> \o Count("updates", 1)
                ELSE <<Add("current_size", size), Add("entry_count", 1)>> \o Count("inserts", 1)
           x == <<Add("entry_count", -n), Add("current_size", -z)>>
           y == Count("evictions", n)
           h == Hooks(DOMAIN victims)
           v == x \o y \o h
           da == IF c = "current_size" THEN size - (IF old # << >> THEN old[1].size ELSE 0)
                 ELSE (IF old # << >> THEN 0 ELSE 1)
           dv == IF c = "current_size" THEN -z ELSE -n
<1>1. n \in Nat /\ z \in Nat
  BY TotalType, FS_CardinalityType DEF Countable
<1>2. /\ "current_size" \in Counters /\ "entry_count" \in Counters
      /\ "updates" \in Metrics /\ "inserts" \in Metrics /\ "evictions" \in Metrics
      /\ c \in Counters /\ c \in {"current_size", "entry_count"}
  BY DEF Counters, Metrics, Sizing
<1>3. da \in Int /\ dv \in Int /\ Delta(c, old, size, victims) = da + dv
  BY <1>1, SMTT(40) DEF Delta
<1>4. a \in Seq(Effects) /\ Congruent(PendingOf(a, c), da)
  <2>1. ASSUME NEW p \in Seq(Effects), NEW q \in Seq(Effects), NEW d \in Int,
               Congruent(PendingOf(p, c), d), PendingOf(q, c) = 0
        PROVE  p \o q \in Seq(Effects) /\ Congruent(PendingOf(p \o q, c), d)
    <3>1. PendingOf(p, c) \in Nat
      BY PendingType
    <3>2. PendingOf(p \o q, c) = PendingOf(p, c)
      BY <2>1, <3>1, PendingConcat
    <3> QED BY <2>1, <3>2, ConcatProperties
  <2>2. CASE old # << >>
    <3> DEFINE d == size - old[1].size
               p == <<Add("current_size", d)>>
               q == Count("updates", 1)
    <3>1. d \in Int
      BY <2>2
    <3>2. da = IF c = "current_size" THEN d ELSE 0
      BY <2>2
    <3>3. a = p \o q
      BY <2>2
    <3> HIDE DEF d, a, da
    <3>4. p \in Seq(Effects)
      BY <1>2, <3>1, AddWork
    <3>5. Congruent(PendingOf(p, c), da)
      <4>1. CASE c = "current_size"
        <5>1. PendingOf(p, c) = d % Width
          BY <1>2, <3>1, <4>1, PendingAdd
        <5> QED BY <3>1, <3>2, <4>1, <5>1, CongruentMod
      <4>2. CASE c # "current_size"
        <5>1. PendingOf(p, c) = 0
          BY <1>2, <3>1, <4>2, PendingAdd
        <5> QED BY <3>2, <4>2, <5>1 DEF Congruent
      <4> QED BY <4>1, <4>2
    <3> HIDE DEF p
    <3>6. q \in Seq(Effects) /\ PendingOf(q, c) = 0
      <4>1. 1 \in Int /\ "updates" \in Metrics
        BY <1>2
      <4> QED BY <4>1, PendingCount
    <3> HIDE DEF q
    <3> QED BY <1>3, <2>1, <3>3, <3>4, <3>5, <3>6
  <2>3. CASE old = << >>
    <3> DEFINE p == <<Add("current_size", size), Add("entry_count", 1)>>
               q == Count("inserts", 1)
    <3>1. a = p \o q /\ da = IF c = "current_size" THEN size ELSE 1
      BY <2>3
    <3> HIDE DEF a, da
    <3>2. /\ p \in Seq(Effects)
          /\ PendingOf(p, "current_size") = size % Width
          /\ PendingOf(p, "entry_count") = 1 % Width
      BY <1>2, PendingAdds
    <3>3. Congruent(PendingOf(p, c), da)
      <4>1. CASE c = "current_size"
        <5>1. Congruent(size % Width, size)
          BY CongruentMod
        <5> QED BY <3>1, <3>2, <4>1, <5>1
      <4>2. CASE c = "entry_count"
        <5>1. Congruent(1 % Width, 1)
          BY CongruentMod
        <5> QED BY <3>1, <3>2, <4>2, <5>1
      <4> QED BY <1>2, <4>1, <4>2
    <3>4. q \in Seq(Effects) /\ PendingOf(q, c) = 0
      BY <1>2, PendingCount
    <3> HIDE DEF p, q
    <3> QED BY <1>3, <2>1, <3>1, <3>2, <3>3, <3>4
  <2> QED BY <2>2, <2>3
<1>5. v \in Seq(Effects) /\ Congruent(PendingOf(v, c), dv)
  <2>1. -n \in Int /\ -z \in Int /\ n \in Int
    BY <1>1
  <2> HIDE DEF n, z
  <2>2. /\ x \in Seq(Effects)
        /\ PendingOf(x, "current_size") = (-z) % Width
        /\ PendingOf(x, "entry_count") = (-n) % Width
    BY <1>2, <2>1, PendingAdds
  <2>3. Congruent(PendingOf(x, c), dv)
    <3>1. CASE c = "current_size"
      BY <2>1, <2>2, <3>1, CongruentMod
    <3>2. CASE c = "entry_count"
      BY <2>1, <2>2, <3>2, CongruentMod
    <3> QED BY <1>2, <3>1, <3>2
  <2>4. y \in Seq(Effects) /\ PendingOf(y, c) = 0
    BY <1>2, <2>1, PendingCount
  <2>5. h \in Seq(Effects) /\ PendingOf(h, c) = 0
    <3>1. h \in Seq(Effects) /\ \A i \in DOMAIN h : h[i].do \in {"hook", "hooks", "guard"}
      BY HooksUser DEF User
    <3> HIDE DEF h
    <3> QED BY <3>1, PendingUser
  <2> HIDE DEF x, y, h
  <2> DEFINE xy == x \o y
  <2>6. xy \in Seq(Effects)
    BY <2>2, <2>4, ConcatProperties
  <2>7. PendingOf(x, c) \in Nat
    BY <2>2, PendingType
  <2>8. PendingOf(xy, c) = PendingOf(x, c)
    BY <2>2, <2>4, <2>7, PendingConcat
  <2>9. v = xy \o h
    OBVIOUS
  <2> HIDE DEF xy, v
  <2>10. v \in Seq(Effects)
    BY <2>5, <2>6, <2>9, ConcatProperties
  <2>11. PendingOf(v, c) = PendingOf(x, c)
    BY <2>5, <2>6, <2>7, <2>8, <2>9, PendingConcat
  <2> QED BY <2>3, <2>10, <2>11
<1>6. InsertEffects(old, size, victims) = a \o (IF n = 0 THEN << >> ELSE v)
  BY DEF InsertEffects
<1> HIDE DEF a, v, da
<1>7. CASE n = 0
  <2>1. a \o << >> = a
    BY <1>4, ConcatEmptySeq
  <2>2. DOMAIN victims = {}
    BY <1>7, FS_EmptySet DEF Countable
  <2>3. z = 0
    BY <2>2, TotalEmpty
  <2>4. da + dv = da
    BY <1>3, <1>7, <2>3
  <2> HIDE DEF n, dv
  <2> QED BY <1>3, <1>4, <1>6, <1>7, <2>1, <2>4
<1>8. CASE n # 0
  <2> HIDE DEF dv, n
  <2>1. PendingOf(a \o v, c) = PendingOf(a, c) + PendingOf(v, c)
    BY <1>4, <1>5, PendingConcat
  <2>2. PendingOf(a, c) \in Int /\ PendingOf(v, c) \in Int
    BY <1>4, <1>5, PendingType
  <2>3. Congruent(PendingOf(a, c) + PendingOf(v, c), da + dv)
    BY <1>3, <1>4, <1>5, <2>2, CongruentSum
  <2> QED BY <1>3, <1>6, <1>8, <2>1, <2>3
<1> QED BY <1>7, <1>8

\* What the updates of a remove add to a counter, the lock and the hook nothing.
LEMMA PendingRemove ==
  ASSUME NEW k \in Keys, NEW size \in Nat, NEW c \in Sizing
  PROVE  Congruent(PendingOf(RemoveEffects(k, size), c),
                   IF c = "current_size" THEN -size ELSE -1)
<1> DEFINE d == -size
           a == <<Add("current_size", d), Add("entry_count", -1)>>
           r == Count("removals", 1)
           u == <<Unlock(ShardOf(k))>>
           h == Hooks({k})
<1>1. d \in Int /\ -1 \in Int /\ 1 \in Int
  OBVIOUS
<1>2. /\ "current_size" \in Counters /\ "entry_count" \in Counters
      /\ "removals" \in Metrics /\ c \in {"current_size", "entry_count"}
  BY DEF Counters, Metrics, Sizing
<1>3. RemoveEffects(k, size) = ((a \o r) \o u) \o h
  BY DEF RemoveEffects
<1> HIDE DEF d
<1>4. /\ a \in Seq(Effects)
      /\ PendingOf(a, "current_size") = d % Width
      /\ PendingOf(a, "entry_count") = (-1) % Width
  BY <1>1, <1>2, PendingAdds
<1>5. r \in Seq(Effects) /\ PendingOf(r, c) = 0
  BY <1>1, <1>2, PendingCount
<1>6. u \in Seq(Effects) /\ PendingOf(u, c) = 0
  <2>1. u \in Seq(Effects)
    BY ShardOfType, OneLock
  <2>2. \A i \in DOMAIN u : u[i].do = "unlock"
    BY DEF Unlock
  <2> HIDE DEF u
  <2> QED BY <2>1, <2>2, PendingUser
<1>7. h \in Seq(Effects) /\ PendingOf(h, c) = 0
  <2>1. h \in Seq(Effects) /\ \A i \in DOMAIN h : h[i].do \in {"hook", "hooks", "guard"}
    BY HooksUser DEF User
  <2> HIDE DEF h
  <2> QED BY <2>1, PendingUser
<1> HIDE DEF a, r, u, h
<1>8. ASSUME NEW p \in Seq(Effects), NEW q \in Seq(Effects), PendingOf(q, c) = 0
      PROVE  p \o q \in Seq(Effects) /\ PendingOf(p \o q, c) = PendingOf(p, c)
  <2>1. PendingOf(p, c) \in Nat
    BY PendingType
  <2> QED BY <1>8, <2>1, PendingConcat, ConcatProperties
<1>9. PendingOf(((a \o r) \o u) \o h, c) = PendingOf(a, c)
  <2> DEFINE ar == a \o r
             aru == ar \o u
  <2>1. ar \in Seq(Effects) /\ PendingOf(ar, c) = PendingOf(a, c)
    BY <1>4, <1>5, <1>8
  <2> HIDE DEF ar
  <2>2. aru \in Seq(Effects) /\ PendingOf(aru, c) = PendingOf(a, c)
    BY <1>6, <1>8, <2>1
  <2> HIDE DEF aru
  <2>3. PendingOf(aru \o h, c) = PendingOf(a, c)
    BY <1>7, <1>8, <2>2
  <2> QED BY <2>3 DEF ar, aru
<1>10. CASE c = "current_size"
  <2>1. Congruent(d % Width, d)
    BY <1>1, CongruentMod
  <2> QED BY <1>3, <1>4, <1>9, <1>10, <2>1 DEF d
<1>11. CASE c = "entry_count"
  <2>1. Congruent((-1) % Width, -1)
    BY <1>1, CongruentMod
  <2> QED BY <1>3, <1>4, <1>9, <1>11, <2>1
<1> QED BY <1>2, <1>10, <1>11
-----------------------------------------------------------------------------
(* The sums over the threads and over the shards.                           *)

\* When one thread's effects change, what is pending changes with them.
LEMMA PendingStep ==
  ASSUME todo \in [Threads -> Seq(Effects)], todo' \in [Threads -> Seq(Effects)],
         NEW t \in Threads, \A u \in Threads \ {t} : todo'[u] = todo[u], NEW c
  PROVE  /\ Pending(c)' = Pending(c) - PendingOf(todo[t], c) + PendingOf(todo'[t], c)
         /\ Pending(c) \in Nat
<1> DEFINE f == [u \in Threads |-> PendingOf(todo[u], c)]
           g == [u \in Threads |-> PendingOf(todo'[u], c)]
<1>1. \A u \in Threads : PendingOf(todo[u], c) \in Nat /\ PendingOf(todo'[u], c) \in Nat
  BY PendingType
<1>2. /\ DOMAIN f = Threads /\ DOMAIN g = Threads
      /\ f[t] = PendingOf(todo[t], c) /\ g[t] = PendingOf(todo'[t], c)
      /\ \A u \in Threads : f[u] \in Nat /\ g[u] \in Nat
      /\ \A u \in Threads \ {t} : f[u] = g[u]
  BY <1>1
<1>3. Pending(c) = Total(f) /\ Pending(c)' = Total(g)
  BY DEF Pending
<1> HIDE DEF f, g
<1>4. Total(g) = Total(f) - f[t] + g[t] /\ Total(f) \in Nat
  <2>1. DOMAIN f = DOMAIN g /\ IsFiniteSet(DOMAIN f) /\ t \in DOMAIN f
    BY <1>2
  <2>2. /\ \A y \in DOMAIN f : f[y] \in Nat /\ g[y] \in Nat
        /\ \A y \in DOMAIN f \ {t} : f[y] = g[y]
    BY <1>2
  <2> QED BY <2>1, <2>2, SumChange
<1> QED BY <1>2, <1>3, <1>4

\* A thread that replaces its first effect by others.
LEMMA PendingThen ==
  ASSUME CInv, NEW t \in Threads, todo[t] # << >>,
         NEW new \in Seq(Effects), Then(t, new), NEW c
  PROVE  /\ Pending(c)' = Pending(c) - PendingOf(<<Head(todo[t])>>, c) + PendingOf(new, c)
         /\ Pending(c) \in Nat
<1> DEFINE h == <<Head(todo[t])>>
           r == Tail(todo[t])
           e == new \o r
<1>1. todo \in [Threads -> Seq(Effects)] /\ todo[t] \in Seq(Effects)
  BY DEF CInv, TypeOK
<1>2. h \in Seq(Effects) /\ r \in Seq(Effects) /\ todo[t] = h \o r
  BY <1>1, HeadThenTail
<1>3. todo' = [todo EXCEPT ![t] = e]
  BY DEF Then
<1> HIDE DEF h, r
<1>4. e \in Seq(Effects)
  BY <1>2, ConcatProperties
<1>5. /\ PendingOf(e, c) = PendingOf(new, c) + PendingOf(r, c)
      /\ PendingOf(todo[t], c) = PendingOf(h, c) + PendingOf(r, c)
      /\ PendingOf(h, c) \in Nat /\ PendingOf(r, c) \in Nat /\ PendingOf(new, c) \in Nat
  BY <1>2, PendingConcat, PendingType
<1> HIDE DEF e
<1>6. /\ todo' \in [Threads -> Seq(Effects)] /\ todo'[t] = e
      /\ \A u \in Threads \ {t} : todo'[u] = todo[u]
  BY <1>1, <1>3, <1>4
<1>7. /\ Pending(c)' = Pending(c) - PendingOf(todo[t], c) + PendingOf(todo'[t], c)
      /\ Pending(c) \in Nat
  BY <1>1, <1>6, PendingStep
<1> QED BY <1>5, <1>6, <1>7 DEF h

\* What is pending is a natural number.
LEMMA PendingNat ==
  ASSUME CInv, NEW c
  PROVE  Pending(c) \in Nat
<1> DEFINE f == [t \in Threads |-> PendingOf(todo[t], c)]
<1>1. DOMAIN f = Threads /\ \A t \in Threads : f[t] \in Nat
  BY PendingType DEF CInv, TypeOK
<1> HIDE DEF f
<1>2. Total(f) \in Nat
  BY <1>1, SumFinite
<1> QED BY <1>2 DEF Pending, f

\* What all shards together contribute to a counter.
StoredOf(c) == Total([s \in Shards |-> Held(c, store[s])])

\* The two counters stand for the bytes and the number of the entries.
LEMMA StoredAre ==
  /\ StoredOf("current_size") = StoredBytes
  /\ StoredOf("entry_count") = StoredEntries
BY DEF StoredOf, StoredBytes, StoredEntries, Held

\* When the map of one shard changes, so does this.
LEMMA StoredStep ==
  ASSUME CInv, NEW s \in Shards, NEW m, Countable(m),
         store' = [store EXCEPT ![s] = m], NEW c
  PROVE  /\ StoredOf(c)' = StoredOf(c) - Held(c, store[s]) + Held(c, m)
         /\ StoredOf(c) \in Nat /\ Held(c, store[s]) \in Nat /\ Held(c, m) \in Nat
<1> DEFINE f == [x \in Shards |-> Held(c, store[x])]
           g == [x \in Shards |-> Held(c, store'[x])]
<1>1. \A n : Countable(n) => Held(c, n) \in Nat
  <2>1. \A n : Countable(n) => TotalSize(n) \in Nat /\ Cardinality(DOMAIN n) \in Nat
    BY TotalType, FS_CardinalityType DEF Countable
  <2> QED BY <2>1 DEF Held
<1>2. /\ \A x \in Shards : Countable(store[x])
      /\ \A x \in Shards : store'[x] = IF x = s THEN m ELSE store[x]
  BY DEF CInv, StoreInv
<1>3. /\ DOMAIN f = Shards /\ DOMAIN g = Shards
      /\ f[s] = Held(c, store[s]) /\ g[s] = Held(c, m)
      /\ \A x \in Shards : f[x] \in Nat /\ g[x] \in Nat
      /\ \A x \in Shards \ {s} : f[x] = g[x]
  BY <1>1, <1>2
<1>4. StoredOf(c) = Total(f) /\ StoredOf(c)' = Total(g)
  BY DEF StoredOf
<1> HIDE DEF f, g
<1>5. IsFiniteSet(Shards)
  BY FS_Interval DEF Shards
<1>6. Total(g) = Total(f) - f[s] + g[s] /\ Total(f) \in Nat
  BY <1>3, <1>5, SumChange
<1> QED BY <1>3, <1>4, <1>6
-----------------------------------------------------------------------------
(* What every action keeps in balance.                                      *)

\* Counter c with what is pending is what the shards hold, up to the wrap.
Balanced(c) == Congruent(counter[c] + Pending(c), StoredOf(c))

\* CountersAccounted is the balance of the two counters.
LEMMA BalancedAll ==
  CountersAccounted <=> \A c \in Sizing : Balanced(c)
BY StoredAre DEF CountersAccounted, Balanced, Congruent, Sizing

\* A counter is a natural number below Width.
LEMMA CounterType ==
  ASSUME CInv, NEW c \in Sizing
  PROVE  c \in Counters /\ counter \in [Counters -> 0 .. Width - 1] /\ counter[c] \in Nat
<1>1. c \in Counters
  BY DEF Sizing, Counters
<1> QED BY <1>1 DEF CInv, TypeOK

\* A first effect that is no update adds nothing.
LEMMA HeadAdds ==
  ASSUME CInv, NEW t \in Threads, todo[t] # << >>, todo[t][1].do # "add", NEW c
  PROVE  PendingOf(<<Head(todo[t])>>, c) = 0
<1>1. <<Head(todo[t])>> \in Seq(Effects) /\ Head(todo[t]) = todo[t][1]
  BY HeadThenTail DEF CInv, TypeOK
<1>2. \A i \in DOMAIN <<Head(todo[t])>> : <<Head(todo[t])>>[i].do # "add"
  BY <1>1
<1> QED BY <1>1, <1>2, PendingUser

\* A step that leaves updates to do which make up for what it does to the shards.
LEMMA BalancedThen ==
  ASSUME CInv, NEW c \in Sizing, Balanced(c), NEW t \in Threads, todo[t] # << >>,
         NEW new \in Seq(Effects), Then(t, new), todo[t][1].do # "add",
         NEW d \in Int, Congruent(PendingOf(new, c), d),
         StoredOf(c) \in Nat, StoredOf(c)' = StoredOf(c) + d, UNCHANGED counter
  PROVE  Balanced(c)'
<1>1. PendingOf(<<Head(todo[t])>>, c) = 0
  BY HeadAdds
<1>2. Pending(c)' = Pending(c) + PendingOf(new, c) /\ Pending(c) \in Nat
      /\ PendingOf(new, c) \in Nat
  BY <1>1, PendingThen, PendingType, SMTT(40)
<1>3. counter[c] \in Nat
  BY CounterType
<1>4. Congruent((counter[c] + Pending(c)) + PendingOf(new, c), StoredOf(c) + d)
  <2>1. Congruent(counter[c] + Pending(c), StoredOf(c)) /\ counter[c] + Pending(c) \in Int
    BY <1>2, <1>3 DEF Balanced
  <2>2. StoredOf(c) \in Int /\ PendingOf(new, c) \in Int
    BY <1>2
  <2> QED BY <2>1, <2>2, CongruentSum
<1>5. (counter[c] + Pending(c)) + PendingOf(new, c) = counter[c] + Pending(c)'
  BY <1>2, <1>3
<1>6. Congruent(counter[c] + Pending(c)', StoredOf(c)')
  BY <1>4, <1>5
<1> QED BY <1>6 DEF Balanced, Congruent

\* What the shards hold is a natural number.
LEMMA StoredType ==
  ASSUME CInv, NEW c
  PROVE  StoredOf(c) \in Nat
<1> DEFINE f == [x \in Shards |-> Held(c, store[x])]
<1>1. \A x \in Shards : Countable(store[x])
  BY DEF CInv, StoreInv
<1>2. \A x \in Shards : TotalSize(store[x]) \in Nat /\ Cardinality(DOMAIN store[x]) \in Nat
  BY <1>1, TotalType, FS_CardinalityType DEF Countable
<1>3. DOMAIN f = Shards /\ \A x \in Shards : f[x] \in Nat
  BY <1>2 DEF Held
<1>4. IsFiniteSet(Shards)
  BY FS_Interval DEF Shards
<1> HIDE DEF f
<1>5. Total(f) \in Nat
  BY <1>3, <1>4, SumFinite
<1> QED BY <1>5 DEF StoredOf, f

\* A step that has nothing to do with the counter.
LEMMA BalancedSame ==
  ASSUME NEW c, Balanced(c), UNCHANGED <<store, counter>>, Pending(c)' = Pending(c)
  PROVE  Balanced(c)'
BY DEF Balanced, Congruent, StoredOf

\* A step that is no update of the counter, and leaves none to do.
LEMMA PendingPlain ==
  ASSUME CInv, NEW c, NEW t \in Threads, todo[t] # << >>, todo[t][1].do # "add",
         NEW new \in Seq(Effects), Then(t, new), PendingOf(new, c) = 0
  PROVE  Pending(c)' = Pending(c)
<1>1. PendingOf(<<Head(todo[t])>>, c) = 0
  BY HeadAdds
<1> QED BY <1>1, PendingThen, PendingType

\* A lookup changes neither a shard nor a pending update of most counters.
LEMMA GetPending ==
  ASSUME CInv, NEW t \in Threads, Get(t), NEW c, c \notin {"hits", "misses"}
  PROVE  Pending(c)' = Pending(c) /\ UNCHANGED <<store, counter>>
<1> DEFINE s == ShardOf(todo[t][1].key)
<1>1. /\ todo[t] # << >> /\ todo[t][1].do = "get" /\ todo[t][1] \in Effects
      /\ Head(todo[t]) = todo[t][1]
      /\ UNCHANGED <<store, counter>>
  BY HeadThenTail DEF Get, At, CInv, TypeOK
<1>2. PICK m \in {"hits", "misses"}, x \in {Unlock(s), Guard(s)} :
        Then(t, Count(m, 1) \o <<x>>)
  BY <1>1 DEF Get
<1>3. s \in Shards
  BY <1>1, EffectFields, ShardOfType
<1> HIDE DEF s
<1> DEFINE a == Count(m, 1)
           b == <<x>>
<1>4. a \in Seq(Effects) /\ PendingOf(a, c) = 0
  <2>1. 1 \in Int /\ m \in Counters /\ m # c
    BY DEF Counters, Metrics
  <2> QED BY <2>1, PendingCountFor
<1>5. b \in Seq(Effects) /\ \A i \in DOMAIN b : b[i].do # "add"
  <2>1. b \in Seq(Effects) /\ x.do \in {"unlock", "guard"}
    BY <1>3, OneLock
  <2> QED BY <2>1
<1>6. Then(t, a \o b)
  BY <1>2
<1> HIDE DEF a, b
<1>7. PendingOf(b, c) = 0
  BY <1>5, PendingUser
<1>8. a \o b \in Seq(Effects) /\ PendingOf(a \o b, c) = 0
  BY <1>4, <1>5, <1>7, PendingConcat, ConcatProperties
<1> QED BY <1>1, <1>6, <1>8, PendingPlain

\* Nor does the start of a hook.
LEMMA CallHookPending ==
  ASSUME CInv, NEW t \in Threads, CallHook(t), NEW c
  PROVE  Pending(c)' = Pending(c) /\ UNCHANGED <<store, counter>>
<1>1. /\ todo[t] # << >> /\ todo[t][1].do = "hooks" /\ todo[t][1] \in Effects
      /\ Head(todo[t]) = todo[t][1]
      /\ UNCHANGED <<store, counter>>
  BY HeadThenTail DEF CallHook, At, CInv, TypeOK
<1>2. PICK k \in todo[t][1].keys : Then(t, <<Hook(k)>> \o Hooks(todo[t][1].keys \ {k}))
  BY <1>1 DEF CallHook
<1> DEFINE S == todo[t][1].keys \ {k}
           f == <<Hook(k)>>
           h == Hooks(S)
<1>3. todo[t][1].keys \in SUBSET Keys
  BY <1>1, EffectFields
<1>4. h \in Seq(Effects) /\ \A i \in DOMAIN h : h[i].do # "add"
  BY <1>3, HooksUser DEF User
<1>5. f \in Seq(Effects) /\ \A i \in DOMAIN f : f[i].do # "add"
  <2>1. Hook(k) \in Effects /\ Hook(k).do = "hook"
    BY <1>3, EffectTypes DEF Hook
  <2> QED BY <2>1
<1>6. Then(t, f \o h)
  BY <1>2
<1> HIDE DEF f, h
<1>7. PendingOf(f, c) = 0 /\ PendingOf(h, c) = 0
  BY <1>4, <1>5, PendingUser
<1>8. f \o h \in Seq(Effects) /\ PendingOf(f \o h, c) = 0
  BY <1>4, <1>5, <1>7, PendingConcat, ConcatProperties
<1> QED BY <1>1, <1>6, <1>8, PendingPlain

\* Resetting the metrics and calling hooks changes neither counter.
LEMMA DropPending ==
  ASSUME CInv, NEW t \in Threads, Drop(t), NEW c
  PROVE  Pending(c)' = Pending(c) /\ UNCHANGED <<store, counter>>
<1>1. /\ todo[t] # << >> /\ todo[t][1].do = "clear" /\ todo[t][1] \in Effects
      /\ Head(todo[t]) = todo[t][1]
      /\ Then(t, ResetAll \o todo[t][1].entries)
      /\ UNCHANGED <<store, counter>>
  BY HeadThenTail DEF Drop, At, CInv, TypeOK
<1>2. PICK e : e = ResetAll \o todo[t][1].entries
  OBVIOUS
<1>3. e \in Seq(Effects) /\ \A i \in DOMAIN e : e[i].do \in {"reset", "hooks"}
  BY <1>1, <1>2, ClearFields, DropWork
<1>4. PendingOf(e, c) = 0
  BY <1>3, PendingUser
<1> QED BY <1>1, <1>2, <1>3, <1>4, PendingPlain

\* Releasing a lock, dropping a Guard and returning from a hook leave nothing.
LEMMA OverPending ==
  ASSUME CInv, NEW t \in Threads, Release(t) \/ DropGuard(t) \/ HookReturn(t),
         NEW c
  PROVE  Pending(c)' = Pending(c) /\ UNCHANGED <<store, counter>>
<1>1. /\ todo[t] # << >> /\ todo[t][1].do \in {"unlock", "guard", "hook"}
      /\ Then(t, << >>) /\ UNCHANGED <<store, counter>>
  <2>1. /\ todo[t] # << >> /\ Head(todo[t]).do \in {"unlock", "guard", "hook"}
        /\ Then(t, << >>) /\ UNCHANGED <<store, counter>>
    BY DEF Release, DropGuard, HookReturn, At
  <2> QED BY <2>1, HeadThenTail DEF CInv, TypeOK
<1> DEFINE e == << >>
<1>2. e \in Seq(Effects) /\ DOMAIN e = {}
  BY EmptySeq
<1> HIDE DEF e
<1>3. PendingOf(e, c) = 0
  BY <1>2, PendingUser
<1>4. Then(t, e)
  BY <1>1 DEF e
<1> QED BY <1>1, <1>2, <1>3, <1>4, PendingPlain

\* A call has made no updates yet.
LEMMA CallPending ==
  ASSUME CInv, NEW t \in Threads, NEW call \in Calls, Call(t, call),
         NEW c
  PROVE  Pending(c)' = Pending(c) /\ UNCHANGED <<store, counter>>
<1> DEFINE e == todo[t]
           f == <<call>>
<1>1. /\ e \in Seq(Effects) /\ todo \in [Threads -> Seq(Effects)]
      /\ todo' = [todo EXCEPT ![t] = f \o e]
      /\ UNCHANGED <<store, counter>>
  BY DEF Call, CInv, TypeOK
<1>2. f \in Seq(Effects) /\ \A i \in DOMAIN f : f[i].do # "add"
  <2>1. call \in Effects /\ call.do \in {"insert", "remove", "get", "clear"}
    BY EffectTypes DEF Calls
  <2> QED BY <2>1
<1> HIDE DEF f, e
<1>3. PendingOf(f, c) = 0 /\ PendingOf(e, c) \in Nat
  BY <1>1, <1>2, PendingUser, PendingType
<1>4. f \o e \in Seq(Effects) /\ PendingOf(f \o e, c) = PendingOf(e, c)
  BY <1>1, <1>2, <1>3, PendingConcat, ConcatProperties
<1> DEFINE g == f \o e
<1> HIDE DEF g
<1>5. /\ todo' \in [Threads -> Seq(Effects)] /\ todo'[t] = g
      /\ \A u \in Threads \ {t} : todo'[u] = todo[u]
  BY <1>1, <1>4 DEF g
<1>6. Pending(c)' = Pending(c)
  <2>1. /\ Pending(c)' = Pending(c) - PendingOf(todo[t], c) + PendingOf(todo'[t], c)
        /\ Pending(c) \in Nat
    BY <1>1, <1>5, PendingStep
  <2>2. PendingOf(todo[t], c) = PendingOf(e, c) /\ PendingOf(todo'[t], c) = PendingOf(e, c)
    BY <1>4, <1>5 DEF e, g
  <2> QED BY <1>3, <2>1, <2>2
<1> QED BY <1>1, <1>6

\* Neither has one that asks for its lock.
LEMMA WaitPending ==
  ASSUME CInv, CInv', NEW t \in Threads, Wait(t), NEW c
  PROVE  Pending(c)' = Pending(c) /\ UNCHANGED <<store, counter>>
<1>1. /\ todo[t] # << >> /\ todo[t][1].do # "add" /\ todo[t] \in Seq(Effects)
      /\ todo \in [Threads -> Seq(Effects)] /\ todo' \in [Threads -> Seq(Effects)]
      /\ todo' = [todo EXCEPT ![t] = [todo[t] EXCEPT ![1] = [todo[t][1] EXCEPT !.waits = TRUE]]]
      /\ UNCHANGED <<store, counter>>
  <2>1. /\ todo[t] # << >> /\ Head(todo[t]).do # "add" /\ todo[t] \in Seq(Effects)
        /\ todo \in [Threads -> Seq(Effects)] /\ todo' \in [Threads -> Seq(Effects)]
        /\ todo' = [todo EXCEPT ![t] = [todo[t] EXCEPT ![1] = [todo[t][1] EXCEPT !.waits = TRUE]]]
        /\ UNCHANGED <<store, counter>>
    BY DEF Wait, At, CInv, TypeOK
  <2> QED BY <2>1, HeadThenTail
<1> DEFINE w == [todo[t][1] EXCEPT !.waits = TRUE]
<1>2. w.do = todo[t][1].do
  OBVIOUS
<1> HIDE DEF w
<1>3. /\ todo'[t] = [todo[t] EXCEPT ![1] = w]
      /\ \A u \in Threads \ {t} : todo'[u] = todo[u]
  BY <1>1 DEF w
<1>4. DOMAIN todo'[t] = DOMAIN todo[t] /\ \A i \in DOMAIN todo[t] : i # 1 => todo'[t][i] = todo[t][i]
  BY <1>1, <1>3
<1>5. 1 \in DOMAIN todo[t] => todo'[t][1].do # "add"
  BY <1>1, <1>2, <1>3
<1>6. /\ Adds(todo'[t], c) = Adds(todo[t], c)
      /\ \A i \in Adds(todo[t], c) : todo'[t][i] = todo[t][i]
  BY <1>1, <1>4, <1>5 DEF Adds
<1>7. PendingOf(todo'[t], c) = PendingOf(todo[t], c)
  BY <1>6 DEF PendingOf
<1>8. Pending(c)' = Pending(c)
  <2>1. /\ Pending(c)' = Pending(c) - PendingOf(todo[t], c) + PendingOf(todo'[t], c)
        /\ Pending(c) \in Nat
    BY <1>1, <1>3, PendingStep
  <2>2. PendingOf(todo[t], c) \in Nat
    BY <1>1, PendingType
  <2> QED BY <1>7, <2>1, <2>2
<1> QED BY <1>1, <1>8

\* A hook that panics unwinds nothing but user code, and so no update is lost.
LEMMA PanicPending ==
  ASSUME CInv, CInv', NEW t \in Threads, HookPanic(t), NEW c
  PROVE  Pending(c)' = Pending(c) /\ UNCHANGED <<store, counter>>
<1> DEFINE n == Len(todo[t])
<1>1. /\ todo[t] # << >> /\ todo[t][1].do = "hook"
      /\ todo[t] \in Seq(Effects) /\ InTurn(todo[t]) /\ n \in Nat \ {0}
      /\ DOMAIN todo[t] = 1 .. n
      /\ todo \in [Threads -> Seq(Effects)] /\ todo' \in [Threads -> Seq(Effects)]
      /\ UNCHANGED <<store, counter>>
  BY HeadThenTail, LenProperties DEF HookPanic, At, CInv, TypeOK, LockInv
<1>2. PICK end \in (UserCode(t) \ {1}) \cup {n + 1} :
        todo' = [todo EXCEPT ![t] = SubSeq(todo[t], end, n)]
  BY DEF HookPanic, CInv, TypeOK
<1>3. end \in 2 .. n + 1
  BY <1>1 DEF UserCode
<1>4. \A i \in DOMAIN todo[t] : todo[t][i].do # "add"
  <2> SUFFICES ASSUME NEW i \in DOMAIN todo[t] PROVE todo[t][i].do # "add"
    OBVIOUS
  <2>1. CASE i = 1
    BY <1>1, <2>1
  <2>2. CASE 1 < i
    <3>1. 1 \in DOMAIN todo[t] /\ todo[t][1].do \notin {"add", "reset", "unlock"}
      BY <1>1
    <3>2. todo[t][i].do \in {"hook", "hooks", "guard"}
      BY <1>1, <2>2, <3>1 DEF InTurn
    <3> QED BY <3>2
  <2> QED BY <1>1, <2>1, <2>2
<1> DEFINE rest == SubSeq(todo[t], end, n)
<1>5. /\ rest \in Seq(Effects)
      /\ \A i \in DOMAIN rest : i + end - 1 \in DOMAIN todo[t] /\ rest[i] = todo[t][i + end - 1]
  BY <1>1, <1>3, SuffixInTurn
<1> HIDE DEF rest
<1>6. todo'[t] = rest /\ \A u \in Threads \ {t} : todo'[u] = todo[u]
  BY <1>1, <1>2 DEF rest
<1>7. \A i \in DOMAIN rest : rest[i].do # "add"
  BY <1>4, <1>5
<1>8. PendingOf(todo[t], c) = 0 /\ PendingOf(rest, c) = 0
  BY <1>1, <1>4, <1>5, <1>7, PendingUser
<1>9. /\ Pending(c)' = Pending(c) - PendingOf(todo[t], c) + PendingOf(todo'[t], c)
      /\ Pending(c) \in Nat
  BY <1>1, <1>6, PendingStep
<1>10. Pending(c)' = Pending(c)
  BY <1>6, <1>8, <1>9
<1> QED BY <1>1, <1>10

\* An update moves what it adds from what is pending to the counter.
LEMMA UpdateMoves ==
  ASSUME CInv, NEW t \in Threads, Update(t), NEW c \in Counters,
         todo[t][1].do = "reset" => todo[t][1].counter # c
  PROVE  /\ Congruent(counter'[c] + Pending(c)', counter[c] + Pending(c))
         /\ counter[c] \in Nat /\ Pending(c) \in Nat
         /\ counter'[c] \in Int /\ Pending(c)' \in Int
         /\ UNCHANGED store
<1> DEFINE x == todo[t][1]
           e == << >>
<1>1. /\ todo[t] # << >> /\ x.do \in {"add", "reset"} /\ x \in Effects
      /\ Head(todo[t]) = x
      /\ counter' = [counter EXCEPT ![x.counter] = Applied(x, @)]
      /\ Then(t, e)
      /\ UNCHANGED <<store, lock>>
  BY HeadThenTail DEF Update, At, CInv, TypeOK
<1>2. e \in Seq(Effects) /\ PendingOf(e, c) = 0
  <2>1. e \in Seq(Effects) /\ DOMAIN e = {}
    BY EmptySeq
  <2> HIDE DEF e
  <2> QED BY <2>1, PendingUser
<1>3. x.do = "reset" => x.counter # c
  OBVIOUS
<1> HIDE DEF x, e
<1>4. <<x>> \in Seq(Effects) /\ PendingOf(<<x>>, c) \in Nat
  <2>1. <<x>> \in Seq(Effects)
    BY <1>1
  <2> QED BY <2>1, PendingType
<1>5. /\ Pending(c) = Pending(c)' + PendingOf(<<x>>, c)
      /\ Pending(c) \in Nat /\ Pending(c)' \in Int
  <2>1. Pending(c)' = Pending(c) - PendingOf(<<x>>, c) + PendingOf(e, c) /\ Pending(c) \in Nat
    BY <1>1, <1>2, PendingThen
  <2> QED BY <1>2, <1>4, <2>1
<1>6. counter \in [Counters -> 0 .. Width - 1] /\ counter[c] \in Nat
  BY DEF CInv, TypeOK
<1>7. CASE x.do = "add" /\ x.counter = c
  <2> DEFINE p == Pending(c)'
             q == counter[c]
  <2>1. PendingOf(<<x>>, c) = x.by % Width /\ x.by \in Int
    BY <1>1, <1>7, PendingOne
  <2>2. PICK n \in Int : n = x.by
    BY <2>1
  <2>3. counter'[c] = (q + n) % Width
    BY <1>1, <1>6, <1>7, <2>2 DEF Applied
  <2>4. Pending(c) = p + (n % Width) /\ p \in Int /\ q \in Nat
    BY <1>5, <1>6, <2>1, <2>2
  <2> HIDE DEF p, q
  <2>5. n % Width \in Int /\ Congruent(n % Width, n)
    BY CongruentMod
  <2>6. Congruent((q + p) + (n % Width), (q + p) + n)
    <3>1. q + p \in Int /\ Congruent(q + p, q + p)
      BY <2>4 DEF Congruent
    <3> QED BY <2>5, <3>1, CongruentSum
  <2>7. q + n \in Int /\ (q + n) % Width \in Int /\ Congruent((q + n) % Width, q + n)
    <3>1. PICK m \in Int : m = q + n
      BY <2>4
    <3>2. m % Width \in 0 .. Width - 1 /\ Congruent(m % Width, m)
      BY CongruentMod
    <3> QED BY <3>1, <3>2
  <2>8. Congruent(((q + n) % Width) + p, (q + n) + p)
    <3>1. Congruent(p, p)
      BY DEF Congruent
    <3> QED BY <2>4, <2>7, <3>1, CongruentSum
  <2>9. (q + p) + (n % Width) = q + Pending(c) /\ (q + p) + n = (q + n) + p
    BY <2>4, <2>5
  <2>10. Congruent(counter'[c] + p, q + Pending(c))
    BY <2>3, <2>6, <2>8, <2>9 DEF Congruent
  <2>11. counter'[c] \in Int
    BY <2>3, <2>7
  <2> QED BY <1>1, <1>5, <1>6, <2>10, <2>11 DEF p, q
<1>8. CASE ~ (x.do = "add" /\ x.counter = c)
  <2>1. x.counter # c
    BY <1>1, <1>3, <1>8
  <2>2. PendingOf(<<x>>, c) = 0
    <3>1. \A i \in DOMAIN <<x>> : <<x>>[i].counter # c
      BY <2>1
    <3> QED BY <1>4, <3>1, PendingNone
  <2>3. counter'[c] = counter[c]
    BY <1>1, <1>6, <2>1
  <2>4. Pending(c)' = Pending(c)
    BY <1>5, <2>2
  <2> QED BY <1>1, <1>5, <1>6, <2>3, <2>4 DEF Congruent
<1> QED BY <1>7, <1>8

\* So the two counters stay in balance: clear does not reset them.
LEMMA UpdateBalanced ==
  ASSUME CInv, NEW t \in Threads, Update(t), NEW c \in Sizing, Balanced(c)
  PROVE  Balanced(c)'
<1>1. c \in Counters /\ c \notin Metrics
  BY DEF Sizing, Counters, Metrics
<1>2. todo[t][1].do = "reset" => todo[t][1].counter # c
  <2>1. todo[t] # << >> /\ todo[t] \in Seq(Effects)
    BY DEF Update, At, CInv, TypeOK
  <2>2. todo[t][1] \in Effects
    BY <2>1, HeadThenTail
  <2> QED BY <1>1, <2>2, EffectFields
<1>3. Congruent(counter'[c] + Pending(c)', counter[c] + Pending(c)) /\ UNCHANGED store
  BY <1>1, <1>2, UpdateMoves
<1> QED BY <1>3 DEF Balanced, Congruent, StoredOf

\* A remove leaves updates to do that make up for the entry it takes away.
LEMMA RemoveBalanced ==
  ASSUME CInv, NEW t \in Threads, Remove(t), NEW c \in Sizing, Balanced(c)
  PROVE  Balanced(c)'
<1> DEFINE k == todo[t][1].key
           s == ShardOf(k)
           m == store[s]
<1>1. /\ todo[t] # << >> /\ todo[t][1].do = "remove" /\ todo[t][1] \in Effects
      /\ Head(todo[t]) = todo[t][1]
      /\ UNCHANGED counter
  BY HeadThenTail DEF Remove, At, CInv, TypeOK
<1>2. k \in Keys /\ s \in Shards
  BY <1>1, EffectFields, ShardOfType
<1>3. MapOK(s, m)
  BY <1>2 DEF CInv, TypeOK, StoreInv, MapOK
<1>4. CASE k \in DOMAIN m
  <2>1. PICK n \in Nat : n = m[k].size
    BY <1>3, <1>4 DEF MapOK
  <2> DEFINE new == RemoveEffects(k, n)
             rest == Without(m, {k})
             d == IF c = "current_size" THEN -n ELSE -1
  <2>2. Then(t, new) /\ store' = [store EXCEPT ![s] = rest]
    BY <1>1, <1>4, <2>1 DEF Remove
  <2>3. new \in Seq(Effects)
    BY <1>2, RemoveWork
  <2>4. Congruent(PendingOf(new, c), d) /\ d \in Int
    <3>1. Congruent(PendingOf(RemoveEffects(k, n), c), IF c = "current_size" THEN -n ELSE -1)
      <4> HIDE DEF k
      <4> QED BY <1>2, PendingRemove
    <3>2. d \in Int
      OBVIOUS
    <3> QED BY <3>1, <3>2
  <2> HIDE DEF new
  <2>5. Countable(m) /\ m[k].size \in Nat
    BY <1>3, <2>1 DEF MapOK
  <2> HIDE DEF m
  <2>6. Countable(rest) /\ TotalSize(rest) = TotalSize(m) - n
    BY <1>4, <2>1, <2>5, TotalWithout
  <2>7. Cardinality(DOMAIN rest) = Cardinality(DOMAIN m) - 1
    <3>1. DOMAIN rest = DOMAIN m \ {k}
      BY WithoutDef
    <3>2. IsFiniteSet(DOMAIN m)
      BY <2>5 DEF Countable
    <3>3. Cardinality(DOMAIN m \ {k}) = Cardinality(DOMAIN m) - 1
      <4> HIDE DEF k
      <4> QED BY <1>4, <3>2, FS_RemoveElement
    <3> QED BY <3>1, <3>3
  <2>8. TotalSize(m) \in Nat /\ Cardinality(DOMAIN m) \in Nat
    BY <2>5, TotalType, FS_CardinalityType DEF Countable
  <2>9. Held(c, rest) = Held(c, m) + d
    BY <2>6, <2>7, <2>8 DEF Held
  <2> HIDE DEF rest, d
  <2>10. /\ StoredOf(c)' = StoredOf(c) - Held(c, m) + Held(c, rest)
         /\ StoredOf(c) \in Nat /\ Held(c, m) \in Nat
    BY <1>2, <2>2, <2>6, StoredStep DEF m
  <2>11. StoredOf(c)' = StoredOf(c) + d
    BY <2>4, <2>9, <2>10
  <2> QED BY <1>1, <2>2, <2>3, <2>4, <2>10, <2>11, BalancedThen
<1>5. CASE k \notin DOMAIN m
  <2> DEFINE new == <<Unlock(s)>>
  <2>1. Then(t, new) /\ UNCHANGED store
    BY <1>1, <1>5 DEF Remove
  <2>2. new \in Seq(Effects) /\ \A i \in DOMAIN new : new[i].do = "unlock"
    <3>1. Unlock(s).do = "unlock"
      BY DEF Unlock
    <3> HIDE DEF s
    <3>2. new \in Seq(Effects)
      BY <1>2, OneLock
    <3> QED BY <3>1, <3>2
  <2> HIDE DEF new
  <2>3. PendingOf(new, c) = 0
    BY <2>2, PendingUser
  <2>4. Pending(c)' = Pending(c)
    BY <1>1, <2>1, <2>2, <2>3, PendingPlain
  <2> QED BY <1>1, <2>1, <2>4, BalancedSame
<1> QED BY <1>4, <1>5

\* Draining a shard takes off what the shard held, however much that is.
LEMMA DrainBalanced ==
  ASSUME CInv, CInv', NEW t \in Threads, Drain(t), NEW c \in Sizing, Balanced(c)
  PROVE  Balanced(c)'
<1> DEFINE call == todo[t][1]
           s == call.next
           y == -TotalSize(store[s])
           n == -Cardinality(DOMAIN store[s])
           a == <<Add("current_size", y), Add("entry_count", n)>>
           b == <<Unlock(s), Drained(call, s)>>
           new == <<Add("current_size", y), Add("entry_count", n), Unlock(s), Drained(call, s)>>
<1>1. /\ todo[t] # << >> /\ call.do = "clear" /\ call \in Effects
      /\ Head(todo[t]) = call /\ Granted(t) /\ call.waits
      /\ Then(t, new) /\ store' = [store EXCEPT ![s] = << >>]
      /\ UNCHANGED counter
  BY HeadThenTail DEF Drain, At, Granted, CInv, TypeOK
<1>2. s \in Shards
  <2>1. todo[t] # << >> /\ todo[t][1].do = "clear" /\ todo[t][1].waits
    BY <1>1
  <2>2. Target(t) \in Shards /\ Target(t) = todo[t][1].next
    BY <2>1, Granting
  <2> QED BY <2>2
<1>3. MapOK(s, store[s])
  BY <1>2 DEF CInv, TypeOK, StoreInv, MapOK
<1>4. TotalSize(store[s]) \in Nat /\ Cardinality(DOMAIN store[s]) \in Nat
  BY <1>3, TotalType, FS_CardinalityType DEF Countable, MapOK
<1>5. y \in Int /\ n \in Int
  BY <1>4
<1>6. new \in Seq(Effects)
  <2>1. Len(call.entries) <= s /\ DOMAIN store[s] \in SUBSET Keys
    <3>1. 1 \in DOMAIN todo[t] /\ InTurn(todo[t])
      BY <1>1, HeadThenTail, LenProperties DEF CInv, TypeOK, LockInv
    <3>2. Len(call.entries) <= s
      BY <1>1, <3>1 DEF InTurn
    <3> QED BY <1>3, <3>2 DEF MapOK
  <2> HIDE DEF y, n
  <2> QED BY <1>1, <1>2, <1>5, <2>1, DrainWork
<1>7. new = a \o b
  OBVIOUS
<1> HIDE DEF y, n
<1>8. /\ a \in Seq(Effects)
      /\ PendingOf(a, "current_size") = y % Width
      /\ PendingOf(a, "entry_count") = n % Width
  <2>1. "current_size" \in Counters /\ "entry_count" \in Counters
    BY DEF Counters
  <2> QED BY <1>5, <2>1, PendingAdds
<1>9. b \in Seq(Effects) /\ \A i \in DOMAIN b : b[i].do # "add"
  <2>1. /\ DOMAIN b = {1, 2} /\ b[1] = new[3] /\ b[2] = new[4] /\ DOMAIN new = 1 .. 4
        /\ new[3].do # "add" /\ new[4].do # "add"
    BY DEF Unlock, Drained
  <2>2. new[3] \in Effects /\ new[4] \in Effects
    <3> HIDE DEF new
    <3>1. Len(new) = 4
      BY <1>6, <2>1, LenProperties
    <3> QED BY <1>6, <3>1, ElementOfSeq
  <2>3. b = <<new[3], new[4]>>
    OBVIOUS
  <2> HIDE DEF new, b
  <2>4. b \in Seq(Effects)
    BY <2>2, <2>3
  <2>5. \A i \in DOMAIN b : i = 1 \/ i = 2
    BY <2>1
  <2> QED BY <2>1, <2>4, <2>5
<1> HIDE DEF a, b, new
<1> DEFINE d == IF c = "current_size" THEN y ELSE n
<1>10. PendingOf(new, c) = PendingOf(a, c)
  <2>1. PendingOf(b, c) = 0 /\ PendingOf(a, c) \in Nat
    BY <1>8, <1>9, PendingUser, PendingType
  <2> QED BY <1>7, <1>8, <1>9, <2>1, PendingConcat
<1>11. Congruent(PendingOf(new, c), d) /\ d \in Int
  <2>1. Congruent(y % Width, y) /\ Congruent(n % Width, n)
    BY <1>5, CongruentMod
  <2>2. c = "current_size" \/ c = "entry_count"
    BY DEF Sizing
  <2> QED BY <1>5, <1>8, <1>10, <2>1, <2>2
<1>12. /\ StoredOf(c)' = StoredOf(c) + d /\ StoredOf(c) \in Nat
  <2> DEFINE e == << >>
  <2>1. DOMAIN e = {} /\ store' = [store EXCEPT ![s] = e]
    BY <1>1
  <2> HIDE DEF e
  <2>2. Countable(e) /\ TotalSize(e) = 0 /\ Cardinality(DOMAIN e) = 0
    BY <2>1, TotalEmpty, FS_EmptySet
  <2> HIDE DEF s
  <2>3. /\ StoredOf(c)' = StoredOf(c) - Held(c, store[s]) + Held(c, e)
        /\ StoredOf(c) \in Nat /\ Held(c, store[s]) \in Nat
    BY <1>2, <2>1, <2>2, StoredStep
  <2>4. Held(c, e) = 0 /\ Held(c, store[s]) = -d
    BY <1>4, <2>2 DEF Held, y, n, s
  <2> QED BY <1>11, <2>3, <2>4
<1> HIDE DEF d, call
<1> QED BY <1>1, <1>6, <1>11, <1>12, BalancedThen DEF call

\* What a shard holds after an insert: the new entry instead of the one it
\* replaces and of the victims.
LEMMA HeldInsert ==
  ASSUME NEW m, Countable(m), \A j \in DOMAIN m : m[j].size \in Nat,
         NEW k, NEW e, e.size \in Nat, NEW V, V \subseteq DOMAIN m \ {k},
         NEW others, others = Without(m, {k}),
         NEW old, old = (IF k \in DOMAIN m THEN <<m[k]>> ELSE << >>),
         NEW c
  PROVE  /\ Countable(With(Without(others, V), k, e))
         /\ Held(c, With(Without(others, V), k, e))
              = Held(c, m) + Delta(c, old, e.size, Restrict(others, V))
<1> DEFINE rest == Without(others, V)
           victims == Restrict(others, V)
           new == With(rest, k, e)
           z == IF k \in DOMAIN m THEN m[k].size ELSE 0
           one == IF k \in DOMAIN m THEN 1 ELSE 0
<1>1. /\ DOMAIN others = DOMAIN m \ {k} /\ \A j \in DOMAIN others : others[j] = m[j]
      /\ DOMAIN rest = DOMAIN others \ V /\ DOMAIN victims = V
      /\ DOMAIN new = DOMAIN rest \cup {k}
  <2>1. DOMAIN others = DOMAIN m \ {k} /\ \A j \in DOMAIN others : others[j] = m[j]
    BY DEF Without, Restrict
  <2>2. DOMAIN rest = DOMAIN others \ V
    BY DEF Without, Restrict
  <2>3. DOMAIN victims = V
    BY DEF Restrict
  <2>4. DOMAIN new = DOMAIN rest \cup {k}
    BY DEF With
  <2> QED BY <2>1, <2>2, <2>3, <2>4
<1>2. z \in Nat
  OBVIOUS
<1>3. Countable(others) /\ TotalSize(others) = TotalSize(m) - z
  <2>1. CASE k \in DOMAIN m
    BY <2>1, TotalWithout
  <2>2. CASE k \notin DOMAIN m
    <3>1. DOMAIN others = DOMAIN m
      BY <1>1, <2>2
    <3>2. BytesOf(others) = BytesOf(m)
      BY <1>1, <3>1, TotalSame
    <3>3. TotalSize(m) \in Nat
      BY TotalType
    <3> QED BY <2>2, <3>1, <3>2, <3>3 DEF Countable, TotalSize
  <2> QED BY <2>1, <2>2
<1>4. /\ Countable(rest) /\ Countable(victims)
      /\ TotalSize(others) = TotalSize(rest) + TotalSize(victims)
  BY <1>1, <1>3, TotalSplit
<1>5. k \notin DOMAIN rest
  BY <1>1
<1> HIDE DEF rest, victims
<1>6. Countable(new) /\ TotalSize(new) = TotalSize(rest) + e.size
  BY <1>4, <1>5, TotalWith
<1>7. /\ Cardinality(DOMAIN m) = Cardinality(DOMAIN others) + one
      /\ IsFiniteSet(DOMAIN m) /\ IsFiniteSet(DOMAIN others)
  <2>1. IsFiniteSet(DOMAIN m) /\ IsFiniteSet(DOMAIN others)
    BY <1>3 DEF Countable
  <2>2. Cardinality(DOMAIN m) \in Nat
    BY <2>1, FS_CardinalityType
  <2>3. Cardinality(DOMAIN m \ {k})
          = IF k \in DOMAIN m THEN Cardinality(DOMAIN m) - 1 ELSE Cardinality(DOMAIN m)
    BY <2>1, FS_RemoveElement
  <2> QED BY <1>1, <2>1, <2>2, <2>3
<1>8. Cardinality(DOMAIN others) = Cardinality(DOMAIN rest) + Cardinality(DOMAIN victims)
  <2>1. IsFiniteSet(DOMAIN rest) /\ IsFiniteSet(DOMAIN victims)
    BY <1>4 DEF Countable
  <2>2. DOMAIN others = DOMAIN rest \cup DOMAIN victims /\ DOMAIN rest \cap DOMAIN victims = {}
    BY <1>1
  <2>3. Cardinality(DOMAIN rest \cup DOMAIN victims)
          = Cardinality(DOMAIN rest) + Cardinality(DOMAIN victims)
              - Cardinality(DOMAIN rest \cap DOMAIN victims)
    BY <2>1, FS_Union
  <2>4. /\ Cardinality(DOMAIN rest \cap DOMAIN victims) = 0
        /\ Cardinality(DOMAIN rest) \in Nat /\ Cardinality(DOMAIN victims) \in Nat
    BY <2>1, <2>2, FS_EmptySet, FS_CardinalityType
  <2> QED BY <2>2, <2>3, <2>4
<1>9. Cardinality(DOMAIN new) = Cardinality(DOMAIN rest) + 1
  <2>1. IsFiniteSet(DOMAIN rest)
    BY <1>4 DEF Countable
  <2>2. Cardinality(DOMAIN rest \cup {k}) = Cardinality(DOMAIN rest) + 1
    BY <1>5, <2>1, FS_AddElement
  <2> QED BY <1>1, <2>2
<1>10. /\ TotalSize(m) \in Nat /\ TotalSize(rest) \in Nat /\ TotalSize(victims) \in Nat
       /\ Cardinality(DOMAIN m) \in Nat /\ Cardinality(DOMAIN rest) \in Nat
       /\ Cardinality(DOMAIN victims) \in Nat /\ Cardinality(DOMAIN others) \in Nat
  <2>1. Countable(m)
    OBVIOUS
  <2> QED BY <1>3, <1>4, <2>1, TotalType, FS_CardinalityType DEF Countable
<1>11. /\ Delta("current_size", old, e.size, victims) = e.size - z - TotalSize(victims)
       /\ c # "current_size" =>
            Delta(c, old, e.size, victims) = (1 - one) - Cardinality(DOMAIN victims)
  <2>1. CASE k \in DOMAIN m
    <3>1. old # << >> /\ old[1].size = z /\ one = 1
      BY <2>1
    <3> QED BY <3>1 DEF Delta
  <2>2. CASE k \notin DOMAIN m
    <3>1. old = << >> /\ z = 0 /\ one = 0
      BY <2>2
    <3> QED BY <3>1 DEF Delta
  <2> QED BY <2>1, <2>2
<1> HIDE DEF new, z
<1>12. CASE c = "current_size"
  BY <1>2, <1>3, <1>4, <1>6, <1>10, <1>11, <1>12, SMTT(40) DEF Held, new, rest, victims
<1>13. CASE c # "current_size"
  <2>1. one \in {0, 1}
    OBVIOUS
  <2> HIDE DEF one
  <2>2. Cardinality(DOMAIN new)
          = Cardinality(DOMAIN m) + ((1 - one) - Cardinality(DOMAIN victims))
    BY <1>7, <1>8, <1>9, <1>10, <2>1
  <2> QED BY <1>6, <1>11, <1>13, <2>2 DEF Held, new, rest, victims
<1> QED BY <1>12, <1>13

\* An insert leaves updates to do that make up for all it does to its shard.
LEMMA InsertBalanced ==
  ASSUME CInv, NEW t \in Threads, Insert(t), NEW c \in Sizing, Balanced(c)
  PROVE  Balanced(c)'
<1> DEFINE call == todo[t][1]
           k == call.key
           s == ShardOf(k)
           m == store[s]
           others == Without(m, {k})
           old == IF k \in DOMAIN m THEN <<m[k]>> ELSE << >>
           entry == [size |-> call.size, policy |-> call.policy]
<1>1. /\ todo[t] # << >> /\ call.do = "insert" /\ call \in Effects
      /\ Head(todo[t]) = call /\ UNCHANGED counter
  BY HeadThenTail DEF Insert, At, CInv, TypeOK
<1>2. PICK V \in Contract(s)!Victims(others, call.size) :
        /\ store' = [store EXCEPT ![s] = With(Without(others, V), k, entry)]
        /\ Then(t, InsertEffects(old, call.size, Restrict(others, V)))
  BY <1>1 DEF Insert
<1>3. V \subseteq DOMAIN others
  BY <1>2 DEF Contract!Victims
<1>4. /\ k \in Keys /\ call.size \in Sizes /\ s \in Shards
  <2>1. k \in Keys /\ call.size \in Sizes
    BY <1>1, EffectFields
  <2> QED BY <2>1, ShardOfType
<1>5. MapOK(s, m)
  BY <1>4 DEF CInv, TypeOK, StoreInv, MapOK
<1>6. /\ Countable(m) /\ \A j \in DOMAIN m : m[j].size \in Nat
      /\ DOMAIN m \in SUBSET Keys
  BY <1>5 DEF MapOK
<1>7. entry.size = call.size /\ call.size \in Nat
  BY <1>4
<1>8. DOMAIN others = DOMAIN m \ {k} /\ V \subseteq DOMAIN m \ {k}
  <2>1. DOMAIN others = DOMAIN m \ {k}
    BY DEF Without, Restrict
  <2> QED BY <1>3, <2>1
<1> HIDE DEF call, k, s, m, others, old, entry
<1> DEFINE victims == Restrict(others, V)
           n == With(Without(others, V), k, entry)
           new == InsertEffects(old, call.size, victims)
           d == Delta(c, old, call.size, victims)
<1>9. Countable(n) /\ Held(c, n) = Held(c, m) + d
  <2>1. entry.size \in Nat
    BY <1>7
  <2>2. others = Without(m, {k}) /\ old = (IF k \in DOMAIN m THEN <<m[k]>> ELSE << >>)
    BY DEF others, old
  <2>3. /\ Countable(With(Without(others, V), k, entry))
        /\ Held(c, With(Without(others, V), k, entry))
             = Held(c, m) + Delta(c, old, entry.size, Restrict(others, V))
    <3>1. Countable(m) /\ (\A j \in DOMAIN m : m[j].size \in Nat) /\ V \subseteq DOMAIN m \ {k}
      BY <1>6, <1>8
    <3> HIDE DEF n, victims, new, d
    <3> QED BY <2>1, <2>2, <3>1, HeldInsert, SMTT(40)
  <2> QED BY <1>7, <2>3
<1>10. Countable(victims) /\ DOMAIN victims \in SUBSET Keys
  <2>1. MapOK(s, others)
    BY <1>5, SubMap DEF others
  <2> QED BY <1>3, <2>1, SubMap DEF MapOK
<1>11. old # << >> => old[1].size \in Nat
  BY <1>6 DEF old
<1> HIDE DEF victims
<1>12. new \in Seq(Effects)
  BY <1>7, <1>10, <1>11, InsertWork
<1>13. d \in Int /\ Congruent(PendingOf(new, c), d)
  BY <1>7, <1>10, <1>11, PendingInsert
<1>14. Then(t, new) /\ store' = [store EXCEPT ![s] = n]
  BY <1>2 DEF victims
<1> HIDE DEF new, d, n
<1>15. /\ StoredOf(c)' = StoredOf(c) - Held(c, m) + Held(c, n)
       /\ StoredOf(c) \in Nat /\ Held(c, m) \in Nat
  BY <1>4, <1>9, <1>14, StoredStep DEF m
<1>16. StoredOf(c)' = StoredOf(c) + d
  BY <1>9, <1>13, <1>15
<1>17. todo[t][1].do # "add"
  BY <1>1 DEF call
<1> QED BY <1>1, <1>12, <1>13, <1>14, <1>15, <1>16, <1>17, BalancedThen
-----------------------------------------------------------------------------
(* The metrics that explain which entries are stored.                       *)

\* What a frame of effects adds to the number of entries and to those that left,
\* less what it adds to those inserted; the same of the counters themselves.
Excess(e) == PendingOf(e, "entry_count") + PendingOf(e, "evictions")
               + PendingOf(e, "removals") - PendingOf(e, "inserts")
Even(e) == Congruent(Excess(e), 0)

Worth(c) == counter[c] + Pending(c)
Explained ==
  Congruent(Worth("entry_count") + Worth("evictions") + Worth("removals") - Worth("inserts"), 0)
Ledger == {"entry_count", "evictions", "removals", "inserts"}

\* The counters of the ledger.
LEMMA LedgerCounters ==
  /\ Ledger \subseteq Counters
  /\ \A c \in Ledger : c \notin {"hits", "misses", "current_size", "updates"}
BY DEF Ledger, Counters, Metrics

\* Frames in a row have the excess of both.
LEMMA ExcessConcat ==
  ASSUME NEW a \in Seq(Effects), NEW b \in Seq(Effects)
  PROVE  /\ a \o b \in Seq(Effects) /\ Excess(a \o b) = Excess(a) + Excess(b)
         /\ Excess(a) \in Int /\ Excess(b) \in Int
<1> DEFINE ab == a \o b
<1>1. \A c : /\ PendingOf(ab, c) = PendingOf(a, c) + PendingOf(b, c)
             /\ PendingOf(a, c) \in Nat /\ PendingOf(b, c) \in Nat
  BY PendingConcat, PendingType
<1>2. ab \in Seq(Effects)
  BY ConcatProperties
<1> HIDE DEF ab
<1>3. /\ Excess(ab) = Excess(a) + Excess(b)
      /\ Excess(a) \in Int /\ Excess(b) \in Int
  <2>1. ASSUME NEW c \in Ledger
        PROVE  /\ PendingOf(ab, c) = PendingOf(a, c) + PendingOf(b, c)
               /\ PendingOf(a, c) \in Int /\ PendingOf(b, c) \in Int
    BY <1>1
  <2>2. /\ "entry_count" \in Ledger /\ "evictions" \in Ledger
        /\ "removals" \in Ledger /\ "inserts" \in Ledger
    BY DEF Ledger
  <2> QED BY <2>1, <2>2, SMTT(30) DEF Excess
<1> QED BY <1>2, <1>3 DEF ab

\* Even frames in a row are even.
LEMMA EvenConcat ==
  ASSUME NEW a \in Seq(Effects), NEW b \in Seq(Effects), Even(a), Even(b)
  PROVE  a \o b \in Seq(Effects) /\ Even(a \o b)
<1>1. Congruent(Excess(a) + Excess(b), 0 + 0)
  BY ExcessConcat, CongruentSum DEF Even
<1>2. 0 + 0 = 0
  OBVIOUS
<1> QED BY <1>1, <1>2, ExcessConcat DEF Even

\* A frame that updates none of these counters is even.
LEMMA EvenNone ==
  ASSUME NEW e \in Seq(Effects),
         \A i \in DOMAIN e : e[i].do = "add" => e[i].counter \notin Ledger
  PROVE  Excess(e) = 0 /\ Even(e)
<1>1. \A c \in Ledger : PendingOf(e, c) = 0
  BY PendingNone
<1>2. Excess(e) = 0
  BY <1>1 DEF Excess, Ledger
<1> QED BY <1>2 DEF Even, Congruent

\* What is taken off and what is added cancel out, wrapped or not.
LEMMA Opposite ==
  ASSUME NEW n \in Int
  PROVE  n % Width \in Int /\ (-n) % Width \in Int /\ Congruent(((-n) % Width) + (n % Width), 0)
<1>1. PICK m \in Int : m = -n
  OBVIOUS
<1>2. n % Width \in Int /\ Congruent(n % Width, n)
  BY CongruentMod
<1>3. m % Width \in Int /\ Congruent(m % Width, m)
  BY CongruentMod
<1>4. Congruent((m % Width) + (n % Width), m + n)
  BY <1>2, <1>3, CongruentSum
<1>5. m + n = 0
  BY <1>1
<1> QED BY <1>1, <1>2, <1>3, <1>4, <1>5

\* So is one that updates the number of the entries, p, and the metric that
\* tells why: n entries left, or one was inserted.
LEMMA EvenLeave ==
  ASSUME MetricsFeature, NEW n \in Int, NEW p \in Seq(Effects),
         PendingOf(p, "entry_count") = (-n) % Width,
         \A c \in Ledger \ {"entry_count"} : PendingOf(p, c) = 0,
         NEW x \in {"evictions", "removals"}
  PROVE  p \o Count(x, n) \in Seq(Effects) /\ Even(p \o Count(x, n))
<1> DEFINE q == Count(x, n)
           u == (-n) % Width
           v == n % Width
<1>1. x \in Counters
  BY DEF Counters, Metrics
<1>2. /\ q \in Seq(Effects) /\ PendingOf(q, x) = v
      /\ \A c : c # x => PendingOf(q, c) = 0
  BY <1>1, PendingCountFor
<1>3. u \in Int /\ v \in Int /\ Congruent(u + v, 0)
  BY Opposite
<1> HIDE DEF q, u, v
<1>4. Excess(p) = u
  BY <1>3 DEF Excess, Ledger, u
<1>5. Excess(q) = v
  BY <1>2, <1>3 DEF Excess
<1> QED BY <1>2, <1>3, <1>4, <1>5, ExcessConcat DEF Even, q

\* One entry was inserted: its number and the metric for it are in balance.
LEMMA EvenEnter ==
  ASSUME MetricsFeature, NEW p \in Seq(Effects),
         PendingOf(p, "entry_count") = 1 % Width,
         \A c \in Ledger \ {"entry_count"} : PendingOf(p, c) = 0
  PROVE  p \o Count("inserts", 1) \in Seq(Effects) /\ Even(p \o Count("inserts", 1))
<1> DEFINE q == Count("inserts", 1)
           u == 1 % Width
<1>1. "inserts" \in Counters /\ 1 \in Int
  BY DEF Counters, Metrics
<1>2. /\ q \in Seq(Effects) /\ PendingOf(q, "inserts") = u
      /\ \A c : c # "inserts" => PendingOf(q, c) = 0
  BY <1>1, PendingCountFor
<1>3. u \in Int
  BY <1>1, CongruentMod
<1> HIDE DEF q, u
<1>4. Excess(p) = u /\ Excess(q) = -u
  BY <1>2, <1>3 DEF Excess, Ledger, u
<1>5. Excess(p) + Excess(q) = 0
  BY <1>3, <1>4
<1> QED BY <1>2, <1>5, ExcessConcat DEF Even, Congruent, q

\* The updates of both counters of entries touch no metric.
LEMMA PairOnly ==
  ASSUME NEW c \in Sizing, NEW m \in Int, NEW d \in Sizing, NEW n \in Int, c # d
  PROVE  /\ <<Add(c, m), Add(d, n)>> \in Seq(Effects)
         /\ PendingOf(<<Add(c, m), Add(d, n)>>, c) = m % Width
         /\ PendingOf(<<Add(c, m), Add(d, n)>>, d) = n % Width
         /\ \A x \in Ledger \ {"entry_count"} : PendingOf(<<Add(c, m), Add(d, n)>>, x) = 0
<1> DEFINE e == <<Add(c, m), Add(d, n)>>
<1>1. c \in Counters /\ d \in Counters
  BY DEF Sizing, Counters
<1>2. /\ e \in Seq(Effects) /\ PendingOf(e, c) = m % Width /\ PendingOf(e, d) = n % Width
  BY <1>1, PendingAdds
<1>3. \A i \in DOMAIN e : e[i].counter \in Sizing
  <2>1. DOMAIN e = {1, 2} /\ e[1].counter = c /\ e[2].counter = d
    BY DEF Add
  <2> HIDE DEF e
  <2> QED BY <2>1
<1> HIDE DEF e
<1>4. ASSUME NEW x \in Ledger \ {"entry_count"} PROVE PendingOf(e, x) = 0
  <2>1. x \notin Sizing
    BY DEF Ledger, Sizing
  <2> QED BY <1>2, <1>3, <2>1, PendingNone
<1> QED BY <1>2, <1>4 DEF e

\* Effects that reset no metric and are no clear; a frame that is so and even.
Plain(e) == \A i \in DOMAIN e : e[i].do \notin {"reset", "clear"}
Booked(e) == e \in Seq(Effects) /\ Even(e) /\ Plain(e)

\* Such frames in a row are one.
LEMMA BookedConcat ==
  ASSUME NEW a, NEW b, Booked(a), Booked(b)
  PROVE  Booked(a \o b)
<1>1. a \in Seq(Effects) /\ b \in Seq(Effects) /\ Even(a) /\ Even(b) /\ Plain(a) /\ Plain(b)
  BY DEF Booked
<1>2. a \o b \in Seq(Effects) /\ Even(a \o b)
  BY <1>1, EvenConcat
<1>3. ASSUME NEW i \in DOMAIN (a \o b) PROVE (a \o b)[i].do \notin {"reset", "clear"}
  <2>1. /\ DOMAIN a = 1 .. Len(a) /\ DOMAIN b = 1 .. Len(b)
        /\ Len(a) \in Nat /\ Len(b) \in Nat
        /\ DOMAIN (a \o b) = 1 .. Len(a) + Len(b)
        /\ \A j \in 1 .. Len(a) + Len(b) :
             (a \o b)[j] = IF j <= Len(a) THEN a[j] ELSE b[j - Len(a)]
    BY <1>1, LenProperties, ConcatProperties
  <2>2. CASE i <= Len(a)
    BY <1>1, <2>1, <2>2 DEF Plain
  <2>3. CASE ~ (i <= Len(a))
    <3>1. i - Len(a) \in DOMAIN b /\ (a \o b)[i] = b[i - Len(a)]
      BY <2>1, <2>3
    <3> QED BY <1>1, <3>1 DEF Plain
  <2> QED BY <2>2, <2>3
<1> QED BY <1>2, <1>3 DEF Booked, Plain

\* Effects that are neither updates nor calls are.
LEMMA BookedUser ==
  ASSUME NEW e \in Seq(Effects), \A i \in DOMAIN e : e[i].do \notin {"add", "reset", "clear"}
  PROVE  Booked(e)
BY EvenNone DEF Booked, Plain

\* So is a metric outside the ledger.
LEMMA BookedCount ==
  ASSUME NEW x \in Counters \ Ledger, NEW n \in Int
  PROVE  Booked(Count(x, n))
<1>1. /\ Count(x, n) \in Seq(Effects)
      /\ \A i \in DOMAIN Count(x, n) : Count(x, n)[i].counter = x /\ Count(x, n)[i].do = "add"
  BY CountWork DEF Count, Add
<1>2. Even(Count(x, n))
  BY <1>1, EvenNone
<1> QED BY <1>1, <1>2 DEF Booked, Plain

\* The updates of a pair of counters and of a metric are work.
LEMMA PairPlain ==
  ASSUME NEW c \in Sizing, NEW m \in Int, NEW d \in Sizing, NEW n \in Int,
         NEW x \in Counters, NEW y \in Int
  PROVE  Plain(<<Add(c, m), Add(d, n)>> \o Count(x, y))
<1> DEFINE p == <<Add(c, m), Add(d, n)>>
           q == Count(x, y)
<1>1. /\ p \in Seq(Effects) /\ q \in Seq(Effects)
  <2>1. c \in Counters /\ d \in Counters
    BY DEF Sizing, Counters
  <2> QED BY <2>1, AddsWork, CountWork
<1>2. \A i \in DOMAIN p : p[i].do = "add"
  <2>1. DOMAIN p = {1, 2} /\ p[1].do = "add" /\ p[2].do = "add"
    BY DEF Add
  <2> HIDE DEF p
  <2> QED BY <2>1
<1>3. \A i \in DOMAIN q : q[i].do = "add"
  BY DEF Count, Add
<1> HIDE DEF p, q
<1>4. /\ DOMAIN p = 1 .. Len(p) /\ DOMAIN q = 1 .. Len(q)
      /\ Len(p) \in Nat /\ Len(q) \in Nat
      /\ DOMAIN (p \o q) = 1 .. Len(p) + Len(q)
      /\ \A j \in 1 .. Len(p) + Len(q) :
           (p \o q)[j] = IF j <= Len(p) THEN p[j] ELSE q[j - Len(p)]
  BY <1>1, LenProperties, ConcatProperties
<1>5. ASSUME NEW i \in DOMAIN (p \o q) PROVE (p \o q)[i].do = "add"
  <2>1. CASE i <= Len(p)
    BY <1>2, <1>4, <2>1
  <2>2. CASE ~ (i <= Len(p))
    <3>1. i - Len(p) \in DOMAIN q /\ (p \o q)[i] = q[i - Len(p)]
      BY <1>4, <2>2
    <3> QED BY <1>3, <3>1
  <2> QED BY <2>1, <2>2
<1> QED BY <1>5 DEF Plain, p, q

\* What an insert leaves to do keeps the metrics in balance.
LEMMA BookedInsert ==
  ASSUME MetricsFeature, NEW old, old # << >> => old[1].size \in Nat, NEW size \in Nat,
         NEW victims, Countable(victims), DOMAIN victims \in SUBSET Keys
  PROVE  Booked(InsertEffects(old, size, victims))
<1> DEFINE n == Cardinality(DOMAIN victims)
           z == TotalSize(victims)
           a == IF old # << >>
                THEN <<Add("current_size", size - old[1].size)>> \o Count("updates", 1)
                ELSE <<Add("current_size", size), Add("entry_count", 1)>> \o Count("inserts", 1)
           x == <<Add("entry_count", -n), Add("current_size", -z)>> \o Count("evictions", n)
           h == Hooks(DOMAIN victims)
<1>1. n \in Nat /\ z \in Nat
  BY TotalType, FS_CardinalityType DEF Countable
<1>2. /\ "current_size" \in Sizing /\ "entry_count" \in Sizing
      /\ "updates" \in Counters \ Ledger /\ "inserts" \in Counters /\ "evictions" \in Counters
      /\ 1 \in Int /\ "current_size" \in Counters
  BY DEF Counters, Metrics, Sizing, Ledger
<1>3. Booked(a)
  <2>1. CASE old # << >>
    <3>1. PICK d \in Int : d = size - old[1].size
      BY <2>1
    <3> DEFINE p == <<Add("current_size", d)>>
    <3>2. Booked(p)
      <4>1. p \in Seq(Effects)
        BY <1>2, AddWork
      <4>2. \A i \in DOMAIN p : p[i].do = "add" /\ p[i].counter = "current_size"
        BY DEF Add
      <4> HIDE DEF p
      <4>3. Even(p)
        BY <4>1, <4>2, EvenNone DEF Ledger
      <4> QED BY <4>1, <4>2, <4>3 DEF Booked, Plain
    <3>3. a = p \o Count("updates", 1)
      BY <2>1, <3>1
    <3> HIDE DEF p, a
    <3> QED BY <1>2, <3>2, <3>3, BookedCount, BookedConcat
  <2>2. CASE old = << >>
    <3> DEFINE p == <<Add("current_size", size), Add("entry_count", 1)>>
    <3>1. a = p \o Count("inserts", 1)
      BY <2>2
    <3>2. Plain(p \o Count("inserts", 1))
      BY <1>2, PairPlain
    <3>3. /\ p \in Seq(Effects) /\ PendingOf(p, "entry_count") = 1 % Width
          /\ \A c \in Ledger \ {"entry_count"} : PendingOf(p, c) = 0
      BY <1>2, PairOnly
    <3> HIDE DEF p, a
    <3>4. p \o Count("inserts", 1) \in Seq(Effects) /\ Even(p \o Count("inserts", 1))
      BY <3>3, EvenEnter
    <3> QED BY <3>1, <3>2, <3>4 DEF Booked
  <2> QED BY <2>1, <2>2
<1>4. Booked(x)
  <2>1. PICK e \in Int, y \in Int : e = -n /\ y = -z
    BY <1>1
  <2> DEFINE p == <<Add("entry_count", e), Add("current_size", y)>>
  <2>2. Plain(p \o Count("evictions", n))
    <3> HIDE DEF n
    <3> QED BY <1>1, <1>2, PairPlain
  <2>3. /\ p \in Seq(Effects) /\ PendingOf(p, "entry_count") = e % Width
        /\ \A c \in Ledger \ {"entry_count"} : PendingOf(p, c) = 0
    BY <1>2, PairOnly
  <2>4. x = p \o Count("evictions", n)
    BY <2>1
  <2> HIDE DEF p, x, n
  <2>5. p \o Count("evictions", n) \in Seq(Effects) /\ Even(p \o Count("evictions", n))
    BY <1>1, <2>1, <2>3, EvenLeave
  <2> QED BY <2>2, <2>4, <2>5 DEF Booked
<1>5. Booked(h)
  <2>1. h \in Seq(Effects) /\ \A i \in DOMAIN h : h[i].do \in {"hook", "hooks", "guard"}
    BY HooksUser DEF User
  <2> HIDE DEF h
  <2> QED BY <2>1, BookedUser
<1>6. InsertEffects(old, size, victims) = a \o (IF n = 0 THEN << >> ELSE x \o h)
  <2>1. x \o h = <<Add("entry_count", -n), Add("current_size", -z)>> \o Count("evictions", n) \o h
    OBVIOUS
  <2> QED BY <2>1 DEF InsertEffects
<1> HIDE DEF a, x, h
<1>7. Booked(x \o h) /\ Booked(a \o (x \o h))
  BY <1>3, <1>4, <1>5, BookedConcat
<1>8. a \o << >> = a
  BY <1>3, ConcatEmptySeq DEF Booked
<1> QED BY <1>3, <1>6, <1>7, <1>8

\* So does what a remove leaves to do.
LEMMA BookedRemove ==
  ASSUME MetricsFeature, NEW k \in Keys, NEW size \in Nat
  PROVE  Booked(RemoveEffects(k, size))
<1> DEFINE x == <<Add("current_size", -size), Add("entry_count", -1)>> \o Count("removals", 1)
           u == <<Unlock(ShardOf(k))>>
           h == Hooks({k})
<1>1. /\ "current_size" \in Sizing /\ "entry_count" \in Sizing /\ "removals" \in Counters
      /\ 1 \in Int
  BY DEF Counters, Metrics, Sizing
<1>2. RemoveEffects(k, size) = (x \o u) \o h
  BY DEF RemoveEffects
<1>3. Booked(x)
  <2>1. PICK e \in Int, y \in Int : e = -1 /\ y = -size
    OBVIOUS
  <2> DEFINE p == <<Add("current_size", y), Add("entry_count", e)>>
  <2>2. Plain(p \o Count("removals", 1))
    BY <1>1, PairPlain
  <2>3. /\ p \in Seq(Effects) /\ PendingOf(p, "entry_count") = e % Width
        /\ \A c \in Ledger \ {"entry_count"} : PendingOf(p, c) = 0
    BY <1>1, PairOnly
  <2>4. x = p \o Count("removals", 1)
    BY <2>1
  <2> HIDE DEF p, x
  <2>5. p \o Count("removals", 1) \in Seq(Effects) /\ Even(p \o Count("removals", 1))
    BY <1>1, <2>1, <2>3, EvenLeave
  <2> QED BY <2>2, <2>4, <2>5 DEF Booked
<1>4. Booked(u)
  <2>1. u \in Seq(Effects)
    BY ShardOfType, OneLock
  <2>2. \A i \in DOMAIN u : u[i].do = "unlock"
    BY DEF Unlock
  <2> HIDE DEF u
  <2> QED BY <2>1, <2>2, BookedUser
<1>5. Booked(h)
  <2>1. h \in Seq(Effects) /\ \A i \in DOMAIN h : h[i].do \in {"hook", "hooks", "guard"}
    BY HooksUser DEF User
  <2> HIDE DEF h
  <2> QED BY <2>1, BookedUser
<1> HIDE DEF x, u, h
<1> QED BY <1>2, <1>3, <1>4, <1>5, BookedConcat

\* No metric is or will be reset, and no clear has drained a shard.
Untouched ==
  \A t \in Threads : \A i \in DOMAIN todo[t] :
    todo[t][i].do # "reset" /\ (todo[t][i].do = "clear" => todo[t][i].next = 0)

\* What makes MetricsExplainEntries inductive.
MetricsInv == MetricsFeature /\ ~ cleared => Untouched /\ Explained

\* A thread replaces its first effect by others that are not resets.
LEMMA UntouchedThen ==
  ASSUME CInv, Untouched, NEW t \in Threads, todo[t] # << >>,
         NEW new \in Seq(Effects), Plain(new), Then(t, new)
  PROVE  Untouched'
<1> DEFINE r == Tail(todo[t])
<1>1. todo \in [Threads -> Seq(Effects)] /\ todo[t] \in Seq(Effects)
  BY DEF CInv, TypeOK
<1>2. /\ r \in Seq(Effects) /\ Len(todo[t]) \in Nat \ {0} /\ Len(r) = Len(todo[t]) - 1
      /\ \A i \in 1 .. Len(todo[t]) - 1 : r[i] = todo[t][i + 1]
      /\ DOMAIN todo[t] = 1 .. Len(todo[t])
  BY <1>1, HeadThenTail, LenProperties
<1>3. todo' = [todo EXCEPT ![t] = new \o r]
  BY DEF Then
<1> HIDE DEF r
<1>4. \A u \in Threads : todo'[u] = IF u = t THEN new \o r ELSE todo[u]
  BY <1>1, <1>3
<1>5. ASSUME NEW i \in DOMAIN (new \o r)
      PROVE  /\ (new \o r)[i].do # "reset"
             /\ (new \o r)[i].do = "clear" => (new \o r)[i].next = 0
  <2>1. /\ DOMAIN new = 1 .. Len(new) /\ Len(new) \in Nat /\ Len(r) \in Nat
        /\ DOMAIN (new \o r) = 1 .. Len(new) + Len(r)
        /\ \A j \in 1 .. Len(new) + Len(r) :
             (new \o r)[j] = IF j <= Len(new) THEN new[j] ELSE r[j - Len(new)]
    <3>1. new \in Seq(Effects) /\ r \in Seq(Effects)
      BY <1>2
    <3> QED BY <3>1, LenProperties, ConcatProperties
  <2>2. CASE i <= Len(new)
    BY <2>1, <2>2 DEF Plain
  <2>3. CASE ~ (i <= Len(new))
    <3> DEFINE j == i - Len(new)
    <3>1. i \in 1 .. Len(new) + Len(r)
      BY <2>1
    <3>2. (new \o r)[i] = r[j]
      BY <2>1, <2>3, <3>1
    <3>3. j \in 1 .. Len(todo[t]) - 1 /\ (new \o r)[i] = r[j]
      <4>1. Len(r) = Len(todo[t]) - 1 /\ Len(new) \in Nat /\ Len(r) \in Nat
        BY <1>2, <2>1
      <4> QED BY <2>3, <3>1, <3>2, <4>1
    <3> HIDE DEF j
    <3>4. r[j] = todo[t][j + 1] /\ j + 1 \in DOMAIN todo[t]
      <4>1. /\ DOMAIN todo[t] = 1 .. Len(todo[t]) /\ Len(todo[t]) \in Nat
            /\ \A k \in 1 .. Len(todo[t]) - 1 : r[k] = todo[t][k + 1]
        BY <1>2
      <4> QED BY <3>3, <4>1
    <3> QED BY <3>3, <3>4 DEF Untouched
  <2> QED BY <2>2, <2>3
<1> SUFFICES ASSUME NEW u \in Threads, NEW i \in DOMAIN todo'[u]
             PROVE  /\ todo'[u][i].do # "reset"
                    /\ todo'[u][i].do = "clear" => todo'[u][i].next = 0
  BY DEF Untouched
<1>6. CASE u = t
  BY <1>4, <1>5, <1>6
<1>7. CASE u # t
  BY <1>4, <1>7 DEF Untouched
<1> QED BY <1>6, <1>7

\* A step that moves no counter of the ledger, nor what is pending for it.
LEMMA ExplainedSame ==
  ASSUME Explained, UNCHANGED counter, \A c \in Ledger : Pending(c)' = Pending(c)
  PROVE  Explained'
BY DEF Explained, Worth, Congruent, Ledger

\* A step that leaves a balanced frame to do.
LEMMA BookedThen ==
  ASSUME CInv, Untouched, Explained, NEW t \in Threads, todo[t] # << >>,
         todo[t][1].do # "add", NEW new, Booked(new), Then(t, new), UNCHANGED counter
  PROVE  Untouched' /\ Explained'
<1> DEFINE W == Worth("entry_count") + Worth("evictions") + Worth("removals") - Worth("inserts")
<1>1. new \in Seq(Effects) /\ Even(new) /\ Plain(new)
  BY DEF Booked
<1>2. ASSUME NEW c \in Ledger
      PROVE  /\ Worth(c)' = Worth(c) + PendingOf(new, c)
             /\ Worth(c) \in Int /\ PendingOf(new, c) \in Int
  <2>1. counter[c] \in Nat
    BY LedgerCounters DEF CInv, TypeOK
  <2>2. PendingOf(<<Head(todo[t])>>, c) = 0
    BY HeadAdds
  <2>3. /\ Pending(c)' = Pending(c) - PendingOf(<<Head(todo[t])>>, c) + PendingOf(new, c)
        /\ Pending(c) \in Nat /\ PendingOf(new, c) \in Nat
    BY <1>1, PendingThen, PendingType
  <2> QED BY <2>1, <2>2, <2>3 DEF Worth
<1>3. W' = W + Excess(new) /\ W \in Int /\ Excess(new) \in Int
  <2>1. /\ "entry_count" \in Ledger /\ "evictions" \in Ledger
        /\ "removals" \in Ledger /\ "inserts" \in Ledger
    BY DEF Ledger
  <2>2. /\ Worth("entry_count")' = Worth("entry_count") + PendingOf(new, "entry_count")
        /\ Worth("entry_count") \in Int /\ PendingOf(new, "entry_count") \in Int
    BY <1>2, <2>1
  <2>3. /\ Worth("evictions")' = Worth("evictions") + PendingOf(new, "evictions")
        /\ Worth("evictions") \in Int /\ PendingOf(new, "evictions") \in Int
    BY <1>2, <2>1
  <2>4. /\ Worth("removals")' = Worth("removals") + PendingOf(new, "removals")
        /\ Worth("removals") \in Int /\ PendingOf(new, "removals") \in Int
    BY <1>2, <2>1
  <2>5. /\ Worth("inserts")' = Worth("inserts") + PendingOf(new, "inserts")
        /\ Worth("inserts") \in Int /\ PendingOf(new, "inserts") \in Int
    BY <1>2, <2>1
  <2>6. /\ W = Worth("entry_count") + Worth("evictions") + Worth("removals") - Worth("inserts")
        /\ W' = Worth("entry_count")' + Worth("evictions")' + Worth("removals")' - Worth("inserts")'
    OBVIOUS
  <2>7. Excess(new) = PendingOf(new, "entry_count") + PendingOf(new, "evictions")
                        + PendingOf(new, "removals") - PendingOf(new, "inserts")
    BY DEF Excess
  <2> HIDE DEF W
  <2>8. /\ Worth("entry_count")' \in Int /\ Worth("evictions")' \in Int
        /\ Worth("removals")' \in Int /\ Worth("inserts")' \in Int
    BY <2>2, <2>3, <2>4, <2>5
  <2>9. Excess(new) \in Int
    BY <2>2, <2>3, <2>4, <2>5, <2>7
  <2>10. W \in Int
    BY <2>2, <2>3, <2>4, <2>5, <2>6
  <2>11. W' = W + Excess(new)
    BY <2>2, <2>3, <2>4, <2>5, <2>6, <2>7, <2>8, SMTT(30)
  <2> QED BY <2>9, <2>10, <2>11
<1>4. Congruent(W, 0) /\ Congruent(Excess(new), 0)
  BY <1>1 DEF Explained, Even
<1> HIDE DEF W
<1>5. Congruent(W + Excess(new), 0 + 0)
  BY <1>3, <1>4, CongruentSum
<1>6. Congruent(W', 0)
  BY <1>3, <1>5
<1>7. Explained'
  BY <1>6 DEF Explained, W, Congruent
<1> QED BY <1>1, <1>7, UntouchedThen

\* An insert counts the entry that it stores and those that it evicts.
LEMMA InsertExplained ==
  ASSUME MetricsFeature, CInv, Untouched, Explained, NEW t \in Threads, Insert(t)
  PROVE  Untouched' /\ Explained'
<1> DEFINE call == todo[t][1]
           k == call.key
           s == ShardOf(k)
           others == Without(store[s], {k})
           old == IF k \in DOMAIN store[s] THEN <<store[s][k]>> ELSE << >>
<1>1. /\ todo[t] # << >> /\ call.do = "insert" /\ call \in Effects
      /\ Head(todo[t]) = call /\ UNCHANGED counter
  BY HeadThenTail DEF Insert, At, CInv, TypeOK
<1>2. PICK V \in Contract(s)!Victims(others, call.size) :
        Then(t, InsertEffects(old, call.size, Restrict(others, V)))
  BY <1>1 DEF Insert
<1>3. k \in Keys /\ call.size \in Nat /\ s \in Shards
  BY <1>1, EffectFields, ShardOfType
<1>4. MapOK(s, store[s])
  BY <1>3 DEF CInv, TypeOK, StoreInv, MapOK
<1>5. V \subseteq DOMAIN others
  BY <1>2 DEF Contract!Victims
<1> DEFINE victims == Restrict(others, V)
<1>6. Countable(victims) /\ DOMAIN victims \in SUBSET Keys
  <2>1. MapOK(s, others)
    BY <1>4, SubMap
  <2> HIDE DEF others, s
  <2>2. MapOK(s, victims) /\ DOMAIN victims = V
    BY <1>5, <2>1, SubMap
  <2>3. V \subseteq Keys
    BY <1>5, <2>1 DEF MapOK
  <2> QED BY <2>2, <2>3 DEF MapOK
<1>7. old # << >> => old[1].size \in Nat
  BY <1>4 DEF MapOK
<1> HIDE DEF victims, old
<1>8. Booked(InsertEffects(old, call.size, victims))
  BY <1>3, <1>6, <1>7, BookedInsert
<1>9. Then(t, InsertEffects(old, call.size, victims))
  BY <1>2 DEF victims
<1> QED BY <1>1, <1>8, <1>9, BookedThen

\* A remove counts the entry that it takes out, and a miss counts nothing.
LEMMA RemoveExplained ==
  ASSUME MetricsFeature, CInv, Untouched, Explained, NEW t \in Threads, Remove(t)
  PROVE  Untouched' /\ Explained'
<1> DEFINE k == todo[t][1].key
           s == ShardOf(k)
<1>1. /\ todo[t] # << >> /\ todo[t][1].do = "remove" /\ todo[t][1] \in Effects
      /\ Head(todo[t]) = todo[t][1] /\ UNCHANGED counter
  BY HeadThenTail DEF Remove, At, CInv, TypeOK
<1>2. k \in Keys /\ s \in Shards
  BY <1>1, EffectFields, ShardOfType
<1>3. MapOK(s, store[s])
  BY <1>2 DEF CInv, TypeOK, StoreInv, MapOK
<1>4. CASE k \in DOMAIN store[s]
  <2>1. PICK n \in Nat : n = store[s][k].size
    BY <1>3, <1>4 DEF MapOK
  <2>2. Then(t, RemoveEffects(k, n))
    BY <1>1, <1>4, <2>1 DEF Remove
  <2>3. Booked(RemoveEffects(k, n))
    BY <1>2, BookedRemove
  <2> QED BY <1>1, <2>2, <2>3, BookedThen
<1>5. CASE k \notin DOMAIN store[s]
  <2> DEFINE new == <<Unlock(s)>>
  <2>1. Then(t, new)
    BY <1>1, <1>5 DEF Remove
  <2>2. new \in Seq(Effects)
    BY <1>2, OneLock
  <2>3. \A i \in DOMAIN new : new[i].do = "unlock"
    BY DEF Unlock
  <2> HIDE DEF new
  <2>4. Booked(new)
    BY <2>2, <2>3, BookedUser
  <2> QED BY <1>1, <2>1, <2>4, BookedThen
<1> QED BY <1>4, <1>5

\* A lookup counts hits and misses, which explain nothing about the entries.
LEMMA GetExplained ==
  ASSUME CInv, Untouched, Explained, NEW t \in Threads, Get(t)
  PROVE  Untouched' /\ Explained'
<1> DEFINE s == ShardOf(todo[t][1].key)
<1>1. /\ todo[t] # << >> /\ todo[t][1].do = "get" /\ todo[t][1] \in Effects
      /\ Head(todo[t]) = todo[t][1] /\ UNCHANGED <<store, counter>>
  BY HeadThenTail DEF Get, At, CInv, TypeOK
<1>2. PICK m \in {"hits", "misses"}, x \in {Unlock(s), Guard(s)} :
        Then(t, Count(m, 1) \o <<x>>)
  BY <1>1 DEF Get
<1>3. s \in Shards
  BY <1>1, EffectFields, ShardOfType
<1>4. Booked(Count(m, 1))
  <2>1. m \in Counters \ Ledger /\ 1 \in Int
    BY DEF Counters, Metrics, Ledger
  <2> QED BY <2>1, BookedCount
<1> HIDE DEF s
<1>5. Booked(<<x>>)
  <2> DEFINE b == <<x>>
  <2>1. b \in Seq(Effects) /\ x.do \in {"unlock", "guard"}
    BY <1>3, OneLock
  <2>2. \A i \in DOMAIN b : b[i].do \in {"unlock", "guard"}
    BY <2>1
  <2> HIDE DEF b
  <2>3. Booked(b)
    BY <2>1, <2>2, BookedUser
  <2> QED BY <2>3 DEF b
<1>6. Booked(Count(m, 1) \o <<x>>)
  BY <1>4, <1>5, BookedConcat
<1> QED BY <1>1, <1>2, <1>6, BookedThen

\* Locks, Guards and hooks count nothing.
LEMMA UserExplained ==
  ASSUME CInv, Untouched, Explained, NEW t \in Threads,
         Release(t) \/ DropGuard(t) \/ HookReturn(t) \/ CallHook(t)
  PROVE  Untouched' /\ Explained'
<1>1. /\ todo[t] # << >> /\ todo[t][1].do \in {"unlock", "guard", "hook", "hooks"}
      /\ Head(todo[t]) = todo[t][1] /\ todo[t][1] \in Effects /\ UNCHANGED counter
  BY HeadThenTail DEF Release, DropGuard, HookReturn, CallHook, At, CInv, TypeOK
<1>2. CASE Release(t) \/ DropGuard(t) \/ HookReturn(t)
  <2> DEFINE e == << >>
  <2>1. e \in Seq(Effects) /\ DOMAIN e = {} /\ Then(t, e)
    BY <1>2, EmptySeq DEF Release, DropGuard, HookReturn
  <2> HIDE DEF e
  <2>2. Booked(e)
    BY <2>1, BookedUser
  <2> QED BY <1>1, <2>1, <2>2, BookedThen
<1>3. CASE CallHook(t)
  <2>1. PICK k \in todo[t][1].keys : Then(t, <<Hook(k)>> \o Hooks(todo[t][1].keys \ {k}))
    BY <1>1, <1>3 DEF CallHook
  <2> DEFINE f == <<Hook(k)>>
             h == Hooks(todo[t][1].keys \ {k})
  <2>2. todo[t][1].keys \in SUBSET Keys
    BY <1>1, <1>3, EffectFields DEF CallHook, At
  <2>3. h \in Seq(Effects) /\ \A i \in DOMAIN h : h[i].do \in {"hook", "hooks", "guard"}
    BY <2>2, HooksUser DEF User
  <2>4. f \in Seq(Effects) /\ \A i \in DOMAIN f : f[i].do = "hook"
    <3>1. Hook(k) \in Effects /\ Hook(k).do = "hook"
      BY <2>2, EffectTypes DEF Hook
    <3> QED BY <3>1
  <2>5. Then(t, f \o h)
    BY <2>1
  <2> HIDE DEF f, h
  <2>6. Booked(f) /\ Booked(h)
    BY <2>3, <2>4, BookedUser
  <2> QED BY <1>1, <2>5, <2>6, BookedConcat, BookedThen
<1> QED BY <1>2, <1>3

\* A call has counted nothing yet; a clear starts with the first shard.
LEMMA CallExplained ==
  ASSUME CInv, Untouched, Explained, NEW t \in Threads, NEW call \in Calls, Call(t, call)
  PROVE  Untouched' /\ Explained'
<1>1. Explained'
  BY CallPending, ExplainedSame
<1>2. /\ todo \in [Threads -> Seq(Effects)]
      /\ todo' = [todo EXCEPT ![t] = <<call>> \o todo[t]]
  BY DEF Call, CInv, TypeOK
<1>3. call.do # "reset" /\ (call.do = "clear" => call.next = 0)
  BY DEF Calls
<1> DEFINE e == todo[t]
<1>4. /\ DOMAIN e = 1 .. Len(e) /\ Len(e) \in Nat
      /\ DOMAIN (<<call>> \o e) = 1 .. 1 + Len(e)
      /\ (<<call>> \o e)[1] = call
      /\ \A i \in 2 .. 1 + Len(e) : (<<call>> \o e)[i] = e[i - 1]
  <2>1. e \in Seq(Effects) /\ <<call>> \in Seq(Effects) /\ Len(<<call>>) = 1
    BY <1>2, EffectTypes
  <2> HIDE DEF e
  <2> DEFINE c == <<call>>
  <2>2. c[1] = call
    OBVIOUS
  <2> HIDE DEF c
  <2>3. /\ DOMAIN (c \o e) = 1 .. 1 + Len(e) /\ Len(e) \in Nat
        /\ \A i \in 1 .. 1 + Len(e) : (c \o e)[i] = IF i <= 1 THEN c[i] ELSE e[i - 1]
    BY <2>1, LenProperties, ConcatProperties DEF c
  <2>4. DOMAIN e = 1 .. Len(e)
    BY <2>1, LenProperties
  <2> QED BY <2>2, <2>3, <2>4 DEF c
<1> SUFFICES ASSUME NEW u \in Threads, NEW i \in DOMAIN todo'[u]
             PROVE  /\ todo'[u][i].do # "reset"
                    /\ todo'[u][i].do = "clear" => todo'[u][i].next = 0
  BY <1>1 DEF Untouched
<1>5. CASE u # t
  BY <1>2, <1>5 DEF Untouched
<1>6. CASE u = t /\ i = 1
  BY <1>2, <1>3, <1>4, <1>6
<1>7. CASE u = t /\ i # 1
  <2>1. todo'[u] = <<call>> \o e
    BY <1>2, <1>7
  <2>2. i \in 2 .. 1 + Len(e) /\ i - 1 \in DOMAIN e
    BY <1>4, <1>7, <2>1
  <2>3. todo'[u][i] = todo[t][i - 1] /\ i - 1 \in DOMAIN todo[t]
    BY <1>4, <2>1, <2>2
  <2> QED BY <2>3 DEF Untouched
<1> QED BY <1>5, <1>6, <1>7

\* Nor has one that asks for its lock.
LEMMA WaitExplained ==
  ASSUME CInv, CInv', Untouched, Explained, NEW t \in Threads, Wait(t)
  PROVE  Untouched' /\ Explained'
<1>1. Explained'
  BY WaitPending, ExplainedSame
<1>2. /\ todo \in [Threads -> Seq(Effects)]
      /\ todo' = [todo EXCEPT ![t] = [todo[t] EXCEPT ![1] = [todo[t][1] EXCEPT !.waits = TRUE]]]
  BY DEF Wait, CInv, TypeOK
<1> DEFINE w == [todo[t][1] EXCEPT !.waits = TRUE]
<1>3. w.do = todo[t][1].do /\ w.next = todo[t][1].next
  OBVIOUS
<1> HIDE DEF w
<1>4. todo'[t] = [todo[t] EXCEPT ![1] = w] /\ \A u \in Threads \ {t} : todo'[u] = todo[u]
  BY <1>2 DEF w
<1>5. ASSUME NEW u \in Threads, NEW i \in DOMAIN todo'[u]
      PROVE  /\ todo'[u][i].do # "reset"
             /\ todo'[u][i].do = "clear" => todo'[u][i].next = 0
  <2>1. CASE u = t
    <3>1. i \in DOMAIN todo[t] /\ todo'[u][i] = IF i = 1 THEN w ELSE todo[t][i]
      BY <1>4, <2>1
    <3> QED BY <1>3, <3>1 DEF Untouched
  <2>2. CASE u # t
    BY <1>4, <2>2 DEF Untouched
  <2> QED BY <2>1, <2>2
<1> QED BY <1>1, <1>5 DEF Untouched

\* A panic unwinds user code, which counts nothing.
LEMMA PanicExplained ==
  ASSUME CInv, CInv', Untouched, Explained, NEW t \in Threads, HookPanic(t)
  PROVE  Untouched' /\ Explained'
<1> DEFINE n == Len(todo[t])
<1>1. Explained'
  BY PanicPending, ExplainedSame
<1>2. /\ todo[t] \in Seq(Effects) /\ InTurn(todo[t]) /\ n \in Nat
      /\ DOMAIN todo[t] = 1 .. n /\ todo \in [Threads -> Seq(Effects)]
  BY LenProperties DEF CInv, TypeOK, LockInv
<1>3. PICK end \in (UserCode(t) \ {1}) \cup {n + 1} :
        todo' = [todo EXCEPT ![t] = SubSeq(todo[t], end, n)]
  BY DEF HookPanic, CInv, TypeOK
<1>4. end \in 1 .. n + 1
  BY <1>2 DEF UserCode
<1> DEFINE rest == SubSeq(todo[t], end, n)
<1>5. \A i \in DOMAIN rest : i + end - 1 \in DOMAIN todo[t] /\ rest[i] = todo[t][i + end - 1]
  BY <1>2, <1>4, SuffixInTurn
<1> HIDE DEF rest
<1>6. todo'[t] = rest /\ \A u \in Threads \ {t} : todo'[u] = todo[u]
  BY <1>2, <1>3 DEF rest
<1>7. ASSUME NEW u \in Threads, NEW i \in DOMAIN todo'[u]
      PROVE  /\ todo'[u][i].do # "reset"
             /\ todo'[u][i].do = "clear" => todo'[u][i].next = 0
  <2>1. CASE u = t
    BY <1>5, <1>6, <2>1 DEF Untouched
  <2>2. CASE u # t
    BY <1>6, <2>2 DEF Untouched
  <2> QED BY <2>1, <2>2
<1> QED BY <1>1, <1>7 DEF Untouched

\* An update moves what it adds to its metric; there is no reset yet.
LEMMA UpdateExplained ==
  ASSUME CInv, Untouched, Explained, NEW t \in Threads, Update(t)
  PROVE  Untouched' /\ Explained'
<1>1. todo[t] # << >> /\ todo[t] \in Seq(Effects) /\ Then(t, << >>)
  BY DEF Update, At, CInv, TypeOK
<1>2. todo[t][1].do # "reset"
  <2>1. 1 \in DOMAIN todo[t]
    BY <1>1, HeadThenTail, LenProperties
  <2> QED BY <2>1 DEF Untouched
<1>3. Untouched'
  <2> DEFINE e == << >>
  <2>1. e \in Seq(Effects) /\ DOMAIN e = {} /\ Then(t, e)
    BY <1>1, EmptySeq
  <2> HIDE DEF e
  <2>2. Plain(e)
    BY <2>1 DEF Plain
  <2> QED BY <1>1, <2>1, <2>2, UntouchedThen
<1>4. ASSUME NEW c \in Ledger
      PROVE  Congruent(Worth(c)', Worth(c)) /\ Worth(c)' \in Int /\ Worth(c) \in Int
  <2>1. c \in Counters
    BY LedgerCounters
  <2>2. /\ Congruent(counter'[c] + Pending(c)', counter[c] + Pending(c))
        /\ counter[c] \in Nat /\ Pending(c) \in Nat
        /\ counter'[c] \in Int /\ Pending(c)' \in Int
    BY <1>2, <2>1, UpdateMoves
  <2> QED BY <2>2 DEF Worth, Congruent
<1>5. Explained'
  <2>1. /\ "entry_count" \in Ledger /\ "evictions" \in Ledger
        /\ "removals" \in Ledger /\ "inserts" \in Ledger
    BY DEF Ledger
  <2>2. PICK a \in Int, b \in Int, c \in Int, d \in Int :
          /\ a = Worth("entry_count") /\ b = Worth("evictions")
          /\ c = Worth("removals") /\ d = Worth("inserts")
    BY <1>4, <2>1
  <2>3. PICK x \in Int, y \in Int, z \in Int, w \in Int :
          /\ x = Worth("entry_count")' /\ y = Worth("evictions")'
          /\ z = Worth("removals")' /\ w = Worth("inserts")'
    BY <1>4, <2>1
  <2>4. Congruent(x, a) /\ Congruent(y, b) /\ Congruent(z, c) /\ Congruent(w, d)
    BY <1>4, <2>1, <2>2, <2>3
  <2>5. Congruent(x + y + z - w, a + b + c - d)
    BY <2>4, CongruentLedger
  <2>6. Congruent(a + b + c - d, 0)
    BY <2>2 DEF Explained
  <2> QED BY <2>3, <2>5, <2>6 DEF Explained, Congruent
<1> QED BY <1>3, <1>5

\* The metrics stay in balance with the entries until a clear takes some away.
LEMMA MetricsNext ==
  ASSUME CInv, CInv', MetricsInv, [MCNext]_mcvars
  PROVE  MetricsInv'
<1> SUFFICES ASSUME MetricsFeature, ~ cleared' PROVE Untouched' /\ Explained'
  BY DEF MetricsInv
<1>1. CASE UNCHANGED mcvars
  <2>1. Untouched /\ Explained /\ UNCHANGED <<todo, counter>>
    BY <1>1 DEF MetricsInv, mcvars, vars
  <2> QED BY <2>1 DEF Untouched, Explained, Worth, Pending, Congruent
<1>2. CASE MCCall
  <2>1. Untouched /\ Explained
    BY <1>2 DEF MCCall, MetricsInv
  <2>2. PICK t \in Threads, call \in Calls : Call(t, call)
    BY <1>2 DEF MCCall
  <2> QED BY <2>1, <2>2, CallExplained
<1>3. ASSUME NEW t \in Threads,
             MCInsert(t) \/ MCDrain(t) \/ MCOther(t) \/ MCHookReturn(t) \/ MCHookPanic(t)
      PROVE  Untouched' /\ Explained'
  <2>1. Untouched /\ Explained /\ ~ MCDrain(t)
    BY <1>3 DEF MetricsInv, MCInsert, MCDrain, MCOther, MCHookReturn, MCHookPanic
  <2>2. CASE Insert(t)
    BY <2>1, <2>2, InsertExplained
  <2>3. CASE Remove(t)
    BY <2>1, <2>3, RemoveExplained
  <2>4. CASE Get(t)
    BY <2>1, <2>4, GetExplained
  <2>5. CASE Wait(t)
    BY <2>1, <2>5, WaitExplained
  <2>6. CASE Drop(t)
    <3>1. todo[t] # << >> /\ todo[t][1].do = "clear" /\ todo[t][1].next = ShardCount
          /\ 1 \in DOMAIN todo[t]
      BY <2>6, HeadThenTail, LenProperties DEF Drop, At, CInv, TypeOK
    <3>2. todo[t][1].next = 0
      BY <2>1, <3>1 DEF Untouched
    <3> QED BY <3>1, <3>2
  <2>7. CASE Update(t)
    BY <2>1, <2>7, UpdateExplained
  <2>8. CASE Release(t) \/ DropGuard(t) \/ HookReturn(t) \/ CallHook(t)
    BY <2>1, <2>8, UserExplained
  <2>9. CASE HookPanic(t)
    BY <2>1, <2>9, PanicExplained
  <2> QED BY <1>3, <2>1, <2>2, <2>3, <2>4, <2>5, <2>6, <2>7, <2>8, <2>9
          DEF MCInsert, MCOther, MCHookReturn, MCHookPanic, Continue
<1> QED BY <1>1, <1>2, <1>3 DEF MCNext
-----------------------------------------------------------------------------
(* The hooks that report each departure of a key.                           *)

\* A hook for k counts once, and nothing else does but a clear.
LEMMA HookOfType ==
  ASSUME NEW x, NEW k
  PROVE  HookOf(x, k) \in {0, 1}
BY DEF HookOf

\* How often an effect reports a key is a number.
LEMMA ReportsType ==
  ASSUME NEW x \in Effects, NEW k
  PROVE  /\ Reports(x, k) \in Nat
         /\ x.do # "clear" => Reports(x, k) = HookOf(x, k)
<1>1. x.do # "clear" => Reports(x, k) = HookOf(x, k)
  BY DEF Reports
<1>2. CASE x.do = "clear"
  <2> DEFINE f == [j \in DOMAIN x.entries |-> HookOf(x.entries[j], k)]
  <2>1. x.entries \in Seq(HookCalls)
    BY <1>2, ClearFields
  <2>2. IsFiniteSet(DOMAIN f)
    <3>1. DOMAIN x.entries = 1 .. Len(x.entries) /\ Len(x.entries) \in Nat
      BY <2>1, LenProperties
    <3> QED BY <3>1, FS_Interval
  <2>3. \A j \in DOMAIN f : f[j] \in Nat
    BY HookOfType
  <2> HIDE DEF f
  <2>4. Total(f) \in Nat
    BY <2>2, <2>3, SumFinite
  <2> QED BY <1>2, <2>4 DEF Reports, f
<1> QED BY <1>1, <1>2, HookOfType

\* What each effect reports; a frame reports the sum of it.
ReportsMap(k) == [x \in Effects |-> Reports(x, k)]

\* What a frame reports is the sum over its effects.
LEMMA ReportsMapped ==
  ASSUME NEW e \in Seq(Effects), NEW k
  PROVE  ReportsOf(e, k) = Total(Mapped(ReportsMap(k), e))
<1>1. \A i \in DOMAIN e : e[i] \in Effects
  BY LenProperties, ElementOfSeq
<1>2. [i \in DOMAIN e |-> Reports(e[i], k)] = Mapped(ReportsMap(k), e)
  BY <1>1 DEF Mapped, ReportsMap
<1> QED BY <1>2 DEF ReportsOf

\* Two frames in a row report what both do.
LEMMA ReportsConcat ==
  ASSUME NEW a \in Seq(Effects), NEW b \in Seq(Effects), NEW k
  PROVE  /\ ReportsOf(a \o b, k) = ReportsOf(a, k) + ReportsOf(b, k)
         /\ ReportsOf(a, k) \in Nat /\ ReportsOf(b, k) \in Nat
         /\ a \o b \in Seq(Effects)
<1> DEFINE f == ReportsMap(k)
<1>1. \A x \in Effects : f[x] \in Nat
  BY ReportsType DEF ReportsMap
<1> HIDE DEF f
<1>2. /\ Total(Mapped(f, a \o b)) = Total(Mapped(f, a)) + Total(Mapped(f, b))
      /\ Total(Mapped(f, a)) \in Nat /\ Total(Mapped(f, b)) \in Nat
  BY <1>1, MapConcat
<1>3. a \o b \in Seq(Effects)
  BY ConcatProperties
<1>4. /\ ReportsOf(a \o b, k) = Total(Mapped(f, a \o b))
      /\ ReportsOf(a, k) = Total(Mapped(f, a)) /\ ReportsOf(b, k) = Total(Mapped(f, b))
  BY <1>3, ReportsMapped DEF f
<1> QED BY <1>2, <1>3, <1>4

\* One effect reports what it reports.
LEMMA ReportsOne ==
  ASSUME NEW x \in Effects, NEW k
  PROVE  /\ <<x>> \in Seq(Effects) /\ ReportsOf(<<x>>, k) = Reports(x, k)
<1> DEFINE e == <<x>>
           f == [i \in DOMAIN e |-> Reports(e[i], k)]
<1>1. e \in Seq(Effects) /\ DOMAIN e = {1} /\ e[1] = x
  OBVIOUS
<1> HIDE DEF e
<1>2. DOMAIN f = {1} /\ f[1] = Reports(x, k)
  BY <1>1
<1>3. Reports(x, k) \in Nat
  BY ReportsType
<1>4. ReportsOf(e, k) = Total(f)
  BY DEF ReportsOf
<1> HIDE DEF f
<1>5. Total(f) = f[1]
  BY <1>2, <1>3, SumOne
<1> QED BY <1>1, <1>2, <1>4, <1>5 DEF e

\* Work, locks and calls report nothing.
LEMMA ReportsNone ==
  ASSUME NEW e \in Seq(Effects), NEW k,
         \A i \in DOMAIN e : e[i].do \notin {"hook", "hooks", "clear"}
  PROVE  ReportsOf(e, k) = 0
<1> DEFINE f == [i \in DOMAIN e |-> Reports(e[i], k)]
<1>1. \A i \in DOMAIN f : f[i] = 0
  BY DEF Reports, HookOf
<1>2. ReportsOf(e, k) = Total(f)
  BY DEF ReportsOf
<1> HIDE DEF f
<1> QED BY <1>1, <1>2, SumZero

\* The hooks for a set of keys report each of them once.
LEMMA ReportsHooks ==
  ASSUME NEW S \in SUBSET Keys, NEW k
  PROVE  Hooks(S) \in Seq(Effects) /\ ReportsOf(Hooks(S), k) = IF k \in S THEN 1 ELSE 0
<1>1. CASE S = {}
  <2> DEFINE e == Hooks(S)
  <2>1. e \in Seq(Effects) /\ DOMAIN e = {}
    BY <1>1, EmptySeq DEF Hooks
  <2> HIDE DEF e
  <2>2. ReportsOf(e, k) = 0
    BY <2>1, ReportsNone
  <2> QED BY <1>1, <2>1, <2>2 DEF e
<1>2. CASE S # {}
  <2> DEFINE x == [do |-> "hooks", keys |-> S]
  <2>1. x \in Effects /\ x.do = "hooks" /\ x.keys = S
    BY EffectTypes
  <2>2. Hooks(S) = <<x>>
    BY <1>2 DEF Hooks
  <2> HIDE DEF x
  <2>3. Reports(x, k) = IF k \in S THEN 1 ELSE 0
    BY <2>1 DEF Reports, HookOf
  <2> QED BY <2>1, <2>2, <2>3, ReportsOne
<1> QED BY <1>1, <1>2

\* The hooks a clear has collected report what the clear does.
LEMMA ReportsClear ==
  ASSUME NEW x \in Effects, x.do = "clear", NEW k
  PROVE  x.entries \in Seq(Effects) /\ ReportsOf(x.entries, k) = Reports(x, k)
<1>1. x.entries \in Seq(HookCalls)
  BY ClearFields
<1>2. HookCalls \subseteq Effects
  BY EffectTypes DEF HookCalls, Effects
<1>3. x.entries \in Seq(Effects)
  BY <1>1, <1>2, SeqMonotonic
<1>4. \A i \in DOMAIN x.entries : x.entries[i].do = "hooks"
  <2>1. \A i \in DOMAIN x.entries : x.entries[i] \in HookCalls
    BY <1>1, LenProperties, ElementOfSeq
  <2> QED BY <2>1 DEF HookCalls
<1>5. [i \in DOMAIN x.entries |-> Reports(x.entries[i], k)]
        = [i \in DOMAIN x.entries |-> HookOf(x.entries[i], k)]
  BY <1>4 DEF Reports
<1> QED BY <1>3, <1>5 DEF ReportsOf, Reports

\* All threads together: when the agenda of one changes, or only its first effect.
LEMMA HooksForStep ==
  ASSUME todo \in [Threads -> Seq(Effects)], todo' \in [Threads -> Seq(Effects)],
         NEW t \in Threads, \A u \in Threads \ {t} : todo'[u] = todo[u], NEW k
  PROVE  /\ HooksFor(k)' = HooksFor(k) - ReportsOf(todo[t], k) + ReportsOf(todo'[t], k)
         /\ HooksFor(k) \in Nat /\ ReportsOf(todo[t], k) \in Nat
         /\ ReportsOf(todo'[t], k) \in Nat
<1> DEFINE f == [u \in Threads |-> ReportsOf(todo[u], k)]
           g == [u \in Threads |-> ReportsOf(todo'[u], k)]
<1>1. \A u \in Threads : ReportsOf(todo[u], k) \in Nat /\ ReportsOf(todo'[u], k) \in Nat
  BY ReportsConcat
<1>2. /\ DOMAIN f = Threads /\ DOMAIN g = Threads
      /\ f[t] = ReportsOf(todo[t], k) /\ g[t] = ReportsOf(todo'[t], k)
      /\ \A u \in Threads : f[u] \in Nat /\ g[u] \in Nat
      /\ \A u \in Threads \ {t} : f[u] = g[u]
  BY <1>1
<1>3. HooksFor(k) = Total(f) /\ HooksFor(k)' = Total(g)
  BY DEF HooksFor
<1> HIDE DEF f, g
<1>4. Total(g) = Total(f) - f[t] + g[t] /\ Total(f) \in Nat
  <2>1. DOMAIN f = DOMAIN g /\ IsFiniteSet(DOMAIN f) /\ t \in DOMAIN f
    BY <1>2
  <2>2. /\ \A y \in DOMAIN f : f[y] \in Nat /\ g[y] \in Nat
        /\ \A y \in DOMAIN f \ {t} : f[y] = g[y]
    BY <1>2
  <2> QED BY <2>1, <2>2, SumChange
<1> QED BY <1>1, <1>2, <1>3, <1>4

\* A thread that replaces its first effect by others.
LEMMA HooksForThen ==
  ASSUME CInv, NEW t \in Threads, todo[t] # << >>,
         NEW new \in Seq(Effects), Then(t, new), NEW k
  PROVE  /\ HooksFor(k)' = HooksFor(k) - Reports(todo[t][1], k) + ReportsOf(new, k)
         /\ HooksFor(k) \in Nat /\ Reports(todo[t][1], k) \in Nat /\ ReportsOf(new, k) \in Nat
<1> DEFINE x == todo[t][1]
           r == Tail(todo[t])
           e == new \o r
<1>1. todo \in [Threads -> Seq(Effects)] /\ todo[t] \in Seq(Effects)
  BY DEF CInv, TypeOK
<1>2. x \in Effects /\ r \in Seq(Effects) /\ todo[t] = <<x>> \o r
  BY <1>1, HeadThenTail
<1>3. todo' = [todo EXCEPT ![t] = e]
  BY DEF Then
<1> HIDE DEF x, r
<1>4. /\ <<x>> \in Seq(Effects) /\ ReportsOf(<<x>>, k) = Reports(x, k)
  BY <1>2, ReportsOne
<1> DEFINE h == <<x>>
<1> HIDE DEF h
<1>5. /\ ReportsOf(h \o r, k) = ReportsOf(h, k) + ReportsOf(r, k)
      /\ ReportsOf(h, k) \in Nat /\ ReportsOf(r, k) \in Nat
  BY <1>2, <1>4, ReportsConcat DEF h
<1>6. e \in Seq(Effects) /\ ReportsOf(e, k) = ReportsOf(new, k) + ReportsOf(r, k)
      /\ ReportsOf(new, k) \in Nat
  BY <1>2, ReportsConcat
<1> HIDE DEF e
<1>7. /\ todo' \in [Threads -> Seq(Effects)] /\ todo'[t] = e
      /\ \A u \in Threads \ {t} : todo'[u] = todo[u]
  BY <1>1, <1>3, <1>6
<1>8. /\ HooksFor(k)' = HooksFor(k) - ReportsOf(todo[t], k) + ReportsOf(todo'[t], k)
      /\ HooksFor(k) \in Nat
  BY <1>1, <1>7, HooksForStep
<1>9. ReportsOf(todo[t], k) = Reports(x, k) + ReportsOf(r, k) /\ Reports(x, k) \in Nat
  BY <1>2, <1>4, <1>5 DEF h
<1> QED BY <1>5, <1>6, <1>7, <1>8, <1>9 DEF x

\* What a method leaves to do reports what its hooks do.
LEMMA ReportsAfterWork ==
  ASSUME NEW h \in Seq(Effects), NEW e, WorkBefore(h, e), NEW k
  PROVE  e \in Seq(Effects) /\ ReportsOf(e, k) = ReportsOf(h, k) /\ ReportsOf(h, k) \in Nat
<1>1. PICK w \in Seq(Effects) : Work(w) /\ e = w \o h
  BY DEF WorkBefore
<1>2. ReportsOf(w, k) = 0
  BY <1>1, ReportsNone DEF Work
<1>3. ReportsOf(w \o h, k) = ReportsOf(w, k) + ReportsOf(h, k) /\ w \o h \in Seq(Effects)
      /\ ReportsOf(h, k) \in Nat
  BY ReportsConcat
<1> QED BY <1>1, <1>2, <1>3

\* The first effect of a thread.
LEMMA FirstEffect ==
  ASSUME CInv, NEW t \in Threads, todo[t] # << >>
  PROVE  Head(todo[t]) = todo[t][1] /\ todo[t][1] \in Effects
<1>1. todo[t] \in Seq(Effects)
  BY DEF CInv, TypeOK
<1> QED BY <1>1, HeadThenTail

\* A key is stored if its shard has it.
LEMMA StoredIff ==
  ASSUME CInv, CInv', NEW k \in Keys
  PROVE  /\ k \in Stored <=> k \in DOMAIN store[ShardOf(k)]
         /\ k \in Stored' <=> k \in DOMAIN store'[ShardOf(k)]
<1>1. ShardOf(k) \in Shards
  BY ShardOfType
<1>2. \A s \in Shards : /\ k \in DOMAIN store[s] => s = ShardOf(k)
                        /\ k \in DOMAIN store'[s] => s = ShardOf(k)
  BY DEF CInv, TypeOK
<1> QED BY <1>1, <1>2 DEF Stored

\* Key k is still to be reported: it is stored, or its hook is on the way.
Due(k) == (IF k \in Stored THEN 1 ELSE 0) + HooksFor(k)

\* A step that leaves hooks to do for the keys it takes out of a shard.
LEMMA DueThen ==
  ASSUME CInv, CInv', NEW t \in Threads, todo[t] # << >>,
         NEW new \in Seq(Effects), Then(t, new), NEW k \in Keys
  PROVE  /\ Due(k)' = Due(k) + ((IF k \in Stored' THEN 1 ELSE 0) + ReportsOf(new, k))
                             - ((IF k \in Stored THEN 1 ELSE 0) + Reports(todo[t][1], k))
         /\ Due(k) \in Int /\ ReportsOf(new, k) \in Nat /\ Reports(todo[t][1], k) \in Nat
<1>1. /\ HooksFor(k)' = HooksFor(k) - Reports(todo[t][1], k) + ReportsOf(new, k)
      /\ HooksFor(k) \in Nat /\ Reports(todo[t][1], k) \in Nat /\ ReportsOf(new, k) \in Nat
  BY HooksForThen
<1> QED BY <1>1 DEF Due

\* The key of an insert is due once more, unless it was stored already; its
\* victims are no longer stored, but their hooks are on the way.
LEMMA InsertDue ==
  ASSUME CInv, CInv', NEW t \in Threads, Insert(t), NEW k \in Keys
  PROVE  /\ Due(k)' = Due(k) + (IF k = Head(todo[t]).key /\ k \notin Stored THEN 1 ELSE 0)
         /\ Due(k) \in Int
<1> DEFINE call == todo[t][1]
           key == call.key
           s == ShardOf(key)
           m == store[s]
           others == Without(m, {key})
           old == IF key \in DOMAIN m THEN <<m[key]>> ELSE << >>
           entry == [size |-> call.size, policy |-> call.policy]
<1> HIDE DEF call
<1>1. /\ todo[t] # << >> /\ call.do = "insert" /\ call \in Effects /\ Head(todo[t]) = call
  BY FirstEffect DEF Insert, At, call
<1>2. PICK V \in Contract(s)!Victims(others, call.size) :
        /\ store' = [store EXCEPT ![s] = With(Without(others, V), key, entry)]
        /\ Then(t, InsertEffects(old, call.size, Restrict(others, V)))
  BY <1>1 DEF Insert
<1>3. V \subseteq DOMAIN others
  BY <1>2 DEF Contract!Victims
<1>4. key \in Keys /\ call.size \in Nat /\ s \in Shards
  BY <1>1, EffectFields, ShardOfType
<1>5. MapOK(s, m)
  BY <1>4 DEF CInv, TypeOK, StoreInv, MapOK
<1> DEFINE victims == Restrict(others, V)
           n == With(Without(others, V), key, entry)
           new == InsertEffects(old, call.size, victims)
<1>6. Countable(victims) /\ DOMAIN victims = V /\ V \in SUBSET Keys
  <2>1. MapOK(s, others)
    BY <1>5, SubMap
  <2>2. MapOK(s, victims) /\ DOMAIN victims = V
    BY <1>3, <2>1, SubMap
  <2> QED BY <2>2 DEF MapOK
<1>7. old # << >> => old[1].size \in Nat
  BY <1>5 DEF MapOK
<1>8. DOMAIN n = (DOMAIN m \ V) \cup {key} /\ V \subseteq DOMAIN m \ {key}
  <2>1. DOMAIN others = DOMAIN m \ {key}
    BY WithoutDef
  <2> HIDE DEF others, entry
  <2>2. DOMAIN Without(others, V) = DOMAIN others \ V
    BY WithoutDef
  <2> DEFINE rest == Without(others, V)
  <2> HIDE DEF rest
  <2>3. DOMAIN With(rest, key, entry) = DOMAIN rest \cup {key}
    BY DEF With
  <2>4. DOMAIN n = (DOMAIN others \ V) \cup {key}
    BY <2>2, <2>3 DEF rest
  <2> QED BY <1>3, <2>1, <2>4
<1>9. Then(t, new) /\ store' = [store EXCEPT ![s] = n]
  BY <1>2
<1> HIDE DEF victims, n, old
<1>10. WorkBefore(Hooks(V), new) /\ new \in Seq(Effects)
  BY <1>4, <1>6, <1>7, InsertWork
<1> HIDE DEF new
<1>11. ReportsOf(new, k) = IF k \in V THEN 1 ELSE 0
  BY <1>6, <1>10, ReportsHooks, ReportsAfterWork
<1>12. Reports(todo[t][1], k) = 0
  BY <1>1 DEF Reports, HookOf, call
<1> HIDE DEF key, s, m
<1>13. k \in Stored' <=> (k = key \/ (k \in Stored /\ k \notin V))
  <2>1. k \in Stored' <=> k \in DOMAIN store'[ShardOf(k)]
    BY StoredIff
  <2>2. k \in Stored <=> k \in DOMAIN store[ShardOf(k)]
    BY StoredIff
  <2>3. ShardOf(k) \in Shards /\ DOMAIN store = Shards
    BY ShardOfType DEF CInv, StoreInv
  <2>4. CASE ShardOf(k) = s
    BY <1>8, <1>9, <2>1, <2>2, <2>3, <2>4 DEF m
  <2>5. CASE ShardOf(k) # s
    <3>1. k # key
      BY <2>5 DEF s
    <3>2. k \notin V
      <4>1. \A x \in DOMAIN m : ShardOf(x) = s
        BY <1>5 DEF MapOK
      <4> QED BY <1>8, <2>5, <4>1
    <3> QED BY <1>9, <2>1, <2>2, <2>3, <2>5, <3>1, <3>2
  <2> QED BY <2>4, <2>5
<1>14. k \in V => k \in Stored /\ k # key
  BY <1>4, <1>8 DEF Stored, m
<1>15. /\ Due(k)' = Due(k) + ((IF k \in Stored' THEN 1 ELSE 0) + ReportsOf(new, k))
                           - ((IF k \in Stored THEN 1 ELSE 0) + Reports(todo[t][1], k))
       /\ Due(k) \in Int
  BY <1>1, <1>9, <1>10, DueThen
<1>16. Head(todo[t]).key = key
  BY <1>1 DEF key
<1> QED BY <1>11, <1>12, <1>13, <1>14, <1>15, <1>16

\* A key that is removed is no longer stored, but its hook is on the way.
LEMMA RemoveDue ==
  ASSUME CInv, CInv', NEW t \in Threads, Remove(t), NEW k \in Keys
  PROVE  Due(k)' = Due(k)
<1> DEFINE key == todo[t][1].key
           s == ShardOf(key)
<1>1. /\ todo[t] # << >> /\ todo[t][1].do = "remove" /\ todo[t][1] \in Effects
      /\ Head(todo[t]) = todo[t][1]
  BY FirstEffect DEF Remove, At
<1>2. key \in Keys /\ s \in Shards
  BY <1>1, EffectFields, ShardOfType
<1>3. Reports(todo[t][1], k) = 0
  BY <1>1 DEF Reports, HookOf
<1>4. CASE key \in DOMAIN store[s]
  <2>1. PICK n \in Nat : n = store[s][key].size
    <3>1. MapOK(s, store[s])
      BY <1>2 DEF CInv, TypeOK, StoreInv, MapOK
    <3> QED BY <1>4, <3>1 DEF MapOK
  <2> DEFINE new == RemoveEffects(key, n)
             m == Without(store[s], {key})
  <2>2. Then(t, new) /\ store' = [store EXCEPT ![s] = m]
    BY <1>1, <1>4, <2>1 DEF Remove
  <2>3. DOMAIN m = DOMAIN store[s] \ {key}
    BY WithoutDef
  <2>4. new \in Seq(Effects) /\ WorkBefore(Hooks({key}), new)
    BY <1>2, RemoveWork
  <2> HIDE DEF new, m
  <2>5. ReportsOf(new, k) = IF k = key THEN 1 ELSE 0
    <3>1. {key} \in SUBSET Keys
      BY <1>2
    <3>2. Hooks({key}) \in Seq(Effects) /\ ReportsOf(Hooks({key}), k) = IF k \in {key} THEN 1 ELSE 0
      BY <3>1, ReportsHooks
    <3> QED BY <2>4, <3>2, ReportsAfterWork
  <2> HIDE DEF key, s
  <2>6. key \in Stored /\ (k \in Stored' <=> k \in Stored /\ k # key)
    <3>1. k \in Stored' <=> k \in DOMAIN store'[ShardOf(k)]
      BY StoredIff
    <3>2. k \in Stored <=> k \in DOMAIN store[ShardOf(k)]
      BY StoredIff
    <3>3. ShardOf(k) \in Shards /\ DOMAIN store = Shards
      BY ShardOfType DEF CInv, StoreInv
    <3>4. key \in Stored
      BY <1>2, <1>4 DEF Stored
    <3>5. CASE ShardOf(k) = s
      BY <2>2, <2>3, <3>1, <3>2, <3>3, <3>4, <3>5
    <3>6. CASE ShardOf(k) # s
      <4>1. k # key
        BY <3>6 DEF s
      <4> QED BY <2>2, <3>1, <3>2, <3>3, <3>4, <3>6, <4>1
    <3> QED BY <3>5, <3>6
  <2>7. /\ Due(k)' = Due(k) + ((IF k \in Stored' THEN 1 ELSE 0) + ReportsOf(new, k))
                            - ((IF k \in Stored THEN 1 ELSE 0) + Reports(todo[t][1], k))
        /\ Due(k) \in Int
    BY <1>1, <2>2, <2>4, DueThen
  <2> QED BY <1>3, <2>5, <2>6, <2>7
<1>5. CASE key \notin DOMAIN store[s]
  <2> DEFINE new == <<Unlock(s)>>
  <2>1. Then(t, new) /\ store' = store
    BY <1>1, <1>5 DEF Remove
  <2>2. new \in Seq(Effects)
    BY <1>2, OneLock
  <2>3. \A i \in DOMAIN new : new[i].do = "unlock"
    BY DEF Unlock
  <2> HIDE DEF new
  <2>4. ReportsOf(new, k) = 0
    BY <2>2, <2>3, ReportsNone
  <2>5. Stored' = Stored
    BY <2>1 DEF Stored
  <2>6. /\ Due(k)' = Due(k) + ((IF k \in Stored' THEN 1 ELSE 0) + ReportsOf(new, k))
                            - ((IF k \in Stored THEN 1 ELSE 0) + Reports(todo[t][1], k))
        /\ Due(k) \in Int
    BY <1>1, <2>1, <2>2, DueThen
  <2> QED BY <1>3, <2>4, <2>5, <2>6
<1> QED BY <1>4, <1>5

\* A drained shard holds nothing, and the clear has its keys still to report.
LEMMA DrainDue ==
  ASSUME CInv, CInv', NEW t \in Threads, Drain(t), NEW k \in Keys
  PROVE  Due(k)' = Due(k)
<1> DEFINE call == todo[t][1]
           s == call.next
           y == -TotalSize(store[s])
           n == -Cardinality(DOMAIN store[s])
           new == <<Add("current_size", y), Add("entry_count", n), Unlock(s), Drained(call, s)>>
<1>1. /\ todo[t] # << >> /\ call.do = "clear" /\ call \in Effects
      /\ Head(todo[t]) = call /\ Granted(t) /\ call.waits
      /\ Then(t, new) /\ store' = [store EXCEPT ![s] = << >>]
  BY FirstEffect DEF Drain, At, Granted
<1>2. s \in Shards
  <2>1. todo[t] # << >> /\ todo[t][1].do = "clear" /\ todo[t][1].waits
    BY <1>1
  <2>2. Target(t) \in Shards /\ Target(t) = todo[t][1].next
    BY <2>1, Granting
  <2> QED BY <2>2
<1>3. MapOK(s, store[s])
  BY <1>2 DEF CInv, TypeOK, StoreInv, MapOK
<1>4. y \in Int /\ n \in Int /\ DOMAIN store[s] \in SUBSET Keys
  <2>1. TotalSize(store[s]) \in Nat /\ Cardinality(DOMAIN store[s]) \in Nat
    BY <1>3, TotalType, FS_CardinalityType DEF Countable, MapOK
  <2> QED BY <1>3, <2>1 DEF MapOK
<1>5. new \in Seq(Effects)
  <2>1. Len(call.entries) <= s
    <3>1. 1 \in DOMAIN todo[t] /\ InTurn(todo[t])
      BY <1>1, HeadThenTail, LenProperties DEF CInv, TypeOK, LockInv
    <3> QED BY <1>1, <3>1 DEF InTurn
  <2> HIDE DEF y, n
  <2> QED BY <1>1, <1>2, <1>4, <2>1, DrainWork
<1> HIDE DEF y, n, s
<1> DEFINE d == Drained(call, s)
<1>6. d \in Effects /\ WorkBefore(<<d>>, new)
  <2> DEFINE w == <<Add("current_size", y), Add("entry_count", n), Unlock(s)>>
  <2>1. Len(new) = 4 /\ new[4] = d
    OBVIOUS
  <2>2. new[1] = w[1] /\ new[2] = w[2] /\ new[3] = w[3] /\ w = <<new[1], new[2], new[3]>>
    OBVIOUS
  <2>3. new = w \o <<d>>
    OBVIOUS
  <2>4. \A i \in DOMAIN w : w[i].do \in {"add", "unlock"}
    BY DEF Add, Unlock
  <2> HIDE DEF new, d, w
  <2>5. new[1] \in Effects /\ new[2] \in Effects /\ new[3] \in Effects /\ new[4] \in Effects
    <3>1. \A i \in 1 .. Len(new) : new[i] \in Effects
      BY <1>5, ElementOfSeq
    <3>2. Len(new) = 4
      BY <2>1
    <3> QED BY <3>1, <3>2
  <2>6. w \in Seq(Effects)
    BY <2>2, <2>5
  <2>7. Work(w)
    BY <2>4 DEF Work
  <2> QED BY <2>1, <2>3, <2>5, <2>6, <2>7 DEF WorkBefore
<1> DEFINE h == Hooks(DOMAIN store[s])
<1>7. d.do = "clear" /\ d.entries = call.entries \o h
  BY DEF Drained
<1> HIDE DEF new, d, call
<1>8. /\ h \in Seq(Effects) /\ ReportsOf(h, k) = IF k \in DOMAIN store[s] THEN 1 ELSE 0
  BY <1>4, ReportsHooks
<1>9. call.entries \in Seq(Effects) /\ ReportsOf(call.entries, k) = Reports(call, k)
  BY <1>1, ReportsClear
<1> HIDE DEF h
<1>10. ReportsOf(new, k) = Reports(call, k) + ReportsOf(h, k)
  <2>1. ReportsOf(new, k) = ReportsOf(<<d>>, k) /\ ReportsOf(<<d>>, k) = Reports(d, k)
    <3>1. <<d>> \in Seq(Effects) /\ ReportsOf(<<d>>, k) = Reports(d, k)
      BY <1>6, ReportsOne
    <3> QED BY <1>6, <3>1, ReportsAfterWork
  <2>2. Reports(d, k) = ReportsOf(d.entries, k)
    BY <1>6, <1>7, ReportsClear
  <2>3. ReportsOf(d.entries, k) = ReportsOf(call.entries, k) + ReportsOf(h, k)
    <3>1. PICK c \in Seq(Effects) : c = call.entries
      BY <1>9
    <3>2. ReportsOf(c \o h, k) = ReportsOf(c, k) + ReportsOf(h, k)
      BY <1>8, ReportsConcat
    <3> QED BY <1>7, <3>1, <3>2
  <2> QED BY <1>9, <2>1, <2>2, <2>3
<1>11. /\ k \in Stored <=> (k \in Stored' \/ k \in DOMAIN store[s])
       /\ ~ (k \in Stored' /\ k \in DOMAIN store[s])
  <2>1. /\ k \in Stored <=> k \in DOMAIN store[ShardOf(k)]
        /\ k \in Stored' <=> k \in DOMAIN store'[ShardOf(k)]
    BY StoredIff
  <2>2. ShardOf(k) \in Shards /\ DOMAIN store = Shards /\ DOMAIN << >> = {}
    BY ShardOfType DEF CInv, StoreInv
  <2>3. k \in DOMAIN store[s] => ShardOf(k) = s
    BY <1>3 DEF MapOK
  <2> QED BY <1>1, <1>2, <2>1, <2>2, <2>3
<1>12. /\ Due(k)' = Due(k) + ((IF k \in Stored' THEN 1 ELSE 0) + ReportsOf(new, k))
                           - ((IF k \in Stored THEN 1 ELSE 0) + Reports(todo[t][1], k))
       /\ Due(k) \in Int /\ Reports(todo[t][1], k) \in Nat
  BY <1>1, <1>5, DueThen
<1>13. Reports(todo[t][1], k) = Reports(call, k)
  BY DEF call
<1> QED BY <1>8, <1>10, <1>11, <1>12, <1>13

\* A step that changes no shard and whose thread reports what it did before.
LEMMA DueSame ==
  ASSUME CInv, CInv', NEW t \in Threads, todo[t] # << >>,
         NEW new \in Seq(Effects), Then(t, new), NEW k \in Keys,
         ReportsOf(new, k) = Reports(todo[t][1], k), UNCHANGED store
  PROVE  Due(k)' = Due(k)
<1>1. Stored' = Stored
  BY DEF Stored
<1>2. /\ Due(k)' = Due(k) + ((IF k \in Stored' THEN 1 ELSE 0) + ReportsOf(new, k))
                          - ((IF k \in Stored THEN 1 ELSE 0) + Reports(todo[t][1], k))
      /\ Due(k) \in Int /\ ReportsOf(new, k) \in Nat
  BY DueThen
<1> QED BY <1>1, <1>2

\* A clear hands the hooks it has collected over to be called.
LEMMA DropDue ==
  ASSUME CInv, CInv', NEW t \in Threads, Drop(t), NEW k \in Keys
  PROVE  Due(k)' = Due(k)
<1> DEFINE call == todo[t][1]
           new == ResetAll \o call.entries
<1>1. /\ todo[t] # << >> /\ call.do = "clear" /\ call \in Effects
      /\ Then(t, new) /\ UNCHANGED store
  BY FirstEffect DEF Drop, At
<1> HIDE DEF call
<1>2. call.entries \in Seq(Effects) /\ ReportsOf(call.entries, k) = Reports(call, k)
  BY <1>1, ReportsClear
<1>3. WorkBefore(call.entries, new)
  BY <1>1, ClearFields, DropWork
<1> HIDE DEF new
<1>4. new \in Seq(Effects) /\ ReportsOf(new, k) = Reports(todo[t][1], k)
  BY <1>2, <1>3, ReportsAfterWork DEF call
<1> QED BY <1>1, <1>4, DueSame

\* Lookups, updates and releases report nothing.
LEMMA GetDue ==
  ASSUME CInv, CInv', NEW t \in Threads, Get(t), NEW k \in Keys
  PROVE  Due(k)' = Due(k)
<1> DEFINE s == ShardOf(todo[t][1].key)
<1>1. /\ todo[t] # << >> /\ todo[t][1].do = "get" /\ todo[t][1] \in Effects
      /\ Head(todo[t]) = todo[t][1] /\ UNCHANGED <<store, counter>>
  BY FirstEffect DEF Get, At
<1>2. PICK m \in {"hits", "misses"}, x \in {Unlock(s), Guard(s)} :
        Then(t, Count(m, 1) \o <<x>>)
  BY <1>1 DEF Get
<1>3. s \in Shards
  BY <1>1, EffectFields, ShardOfType
<1> DEFINE b == <<x>>
           new == Count(m, 1) \o b
<1>4. b \in Seq(Effects) /\ \A i \in DOMAIN b : b[i].do \in {"unlock", "guard"}
  <2>1. <<x>> \in Seq(Effects) /\ x.do \in {"unlock", "guard"}
    BY <1>3, OneLock
  <2> QED BY <2>1
<1> HIDE DEF b
<1>5. ReportsOf(b, k) = 0
  BY <1>4, ReportsNone
<1>6. WorkBefore(b, new)
  <2>1. m \in Counters /\ 1 \in Int
    BY DEF Counters, Metrics
  <2> QED BY <2>1, CountWork DEF WorkBefore
<1>7. Then(t, new)
  BY <1>2 DEF b
<1> HIDE DEF new
<1>8. new \in Seq(Effects) /\ ReportsOf(new, k) = 0
  BY <1>4, <1>5, <1>6, ReportsAfterWork
<1>9. Reports(todo[t][1], k) = 0
  BY <1>1 DEF Reports, HookOf
<1> QED BY <1>1, <1>7, <1>8, <1>9, DueSame

\* An effect that is done, and leaves nothing to do, is no longer reported.
LEMMA DoneDue ==
  ASSUME CInv, CInv', NEW t \in Threads, todo[t] # << >>, Then(t, << >>),
         todo[t][1].do # "clear", UNCHANGED store, NEW k \in Keys
  PROVE  Due(k)' = Due(k) - HookOf(todo[t][1], k) /\ Due(k) \in Int
<1> DEFINE e == << >>
<1>1. e \in Seq(Effects) /\ DOMAIN e = {} /\ Then(t, e)
  BY EmptySeq
<1> HIDE DEF e
<1>2. ReportsOf(e, k) = 0
  BY <1>1, ReportsNone
<1>3. Reports(todo[t][1], k) = HookOf(todo[t][1], k)
  BY DEF Reports
<1>4. Stored' = Stored
  BY DEF Stored
<1>5. /\ Due(k)' = Due(k) + ((IF k \in Stored' THEN 1 ELSE 0) + ReportsOf(e, k))
                          - ((IF k \in Stored THEN 1 ELSE 0) + Reports(todo[t][1], k))
      /\ Due(k) \in Int /\ Reports(todo[t][1], k) \in Nat
  BY <1>1, DueThen
<1> QED BY <1>2, <1>3, <1>4, <1>5

\* A hook that is called is still on its way until it returns.
LEMMA CallHookDue ==
  ASSUME CInv, CInv', NEW t \in Threads, CallHook(t), NEW k \in Keys
  PROVE  Due(k)' = Due(k)
<1> DEFINE S == todo[t][1].keys
<1>1. /\ todo[t] # << >> /\ todo[t][1].do = "hooks" /\ todo[t][1] \in Effects
      /\ Head(todo[t]) = todo[t][1] /\ UNCHANGED store
  BY FirstEffect DEF CallHook, At
<1>2. PICK key \in S : Then(t, <<Hook(key)>> \o Hooks(S \ {key}))
  BY <1>1 DEF CallHook
<1>3. S \in SUBSET Keys
  BY <1>1, EffectFields
<1>4. Reports(todo[t][1], k) = IF k \in S THEN 1 ELSE 0
  BY <1>1 DEF Reports, HookOf
<1> HIDE DEF S
<1> DEFINE x == Hook(key)
           f == <<x>>
           h == Hooks(S \ {key})
<1>5. x \in Effects /\ x.do = "hook" /\ x.key = key
  BY <1>3, EffectTypes DEF Hook
<1>6. Then(t, f \o h)
  BY <1>2
<1> HIDE DEF x
<1>7. Reports(x, k) = IF k = key THEN 1 ELSE 0
  BY <1>5 DEF Reports, HookOf
<1>8. f \in Seq(Effects) /\ ReportsOf(f, k) = Reports(x, k)
  BY <1>5, ReportsOne
<1>9. h \in Seq(Effects) /\ ReportsOf(h, k) = IF k \in S \ {key} THEN 1 ELSE 0
  BY <1>3, ReportsHooks
<1> HIDE DEF f, h
<1>10. f \o h \in Seq(Effects) /\ ReportsOf(f \o h, k) = ReportsOf(f, k) + ReportsOf(h, k)
  BY <1>8, <1>9, ReportsConcat
<1>11. ReportsOf(f \o h, k) = Reports(todo[t][1], k)
  BY <1>2, <1>4, <1>7, <1>8, <1>9, <1>10
<1> QED BY <1>1, <1>6, <1>10, <1>11, DueSame

\* A call has nothing to report yet.
LEMMA CallDue ==
  ASSUME CInv, CInv', NEW t \in Threads, NEW call \in Calls, Call(t, call), NEW k \in Keys
  PROVE  Due(k)' = Due(k)
<1>1. /\ todo \in [Threads -> Seq(Effects)] /\ todo' \in [Threads -> Seq(Effects)]
      /\ todo' = [todo EXCEPT ![t] = <<call>> \o todo[t]]
      /\ UNCHANGED store
  BY DEF Call, CInv, TypeOK
<1>2. call \in Effects
  BY EffectTypes
<1>3. Reports(call, k) = 0
  <2>1. CASE call.do = "clear"
    <3>1. call.entries = << >>
      BY <2>1 DEF Calls
    <3>2. \A i \in DOMAIN call.entries : FALSE
      BY <3>1
    <3>3. call.entries \in Seq(Effects) /\ ReportsOf(call.entries, k) = Reports(call, k)
      BY <1>2, <2>1, ReportsClear
    <3>4. ReportsOf(call.entries, k) = 0
      BY <3>2, <3>3, ReportsNone
    <3> QED BY <3>3, <3>4
  <2>2. CASE call.do # "clear"
    <3>1. call.do \notin {"hook", "hooks"}
      BY DEF Calls
    <3> QED BY <2>2, <3>1 DEF Reports, HookOf
  <2> QED BY <2>1, <2>2
<1> DEFINE c == <<call>>
<1>4. c \in Seq(Effects) /\ ReportsOf(c, k) = 0
  BY <1>2, <1>3, ReportsOne
<1>5. todo'[t] = c \o todo[t] /\ \A u \in Threads \ {t} : todo'[u] = todo[u]
  BY <1>1
<1> HIDE DEF c
<1>6. ReportsOf(c \o todo[t], k) = ReportsOf(c, k) + ReportsOf(todo[t], k)
  BY <1>1, <1>4, ReportsConcat
<1>7. /\ HooksFor(k)' = HooksFor(k) - ReportsOf(todo[t], k) + ReportsOf(todo'[t], k)
      /\ HooksFor(k) \in Nat /\ ReportsOf(todo[t], k) \in Nat
  BY <1>1, <1>5, HooksForStep
<1>8. HooksFor(k)' = HooksFor(k)
  BY <1>4, <1>5, <1>6, <1>7
<1> QED BY <1>1, <1>8 DEF Due, Stored

\* A call that asks for its lock has no more to report than before.
LEMMA WaitDue ==
  ASSUME CInv, CInv', NEW t \in Threads, Wait(t), NEW k \in Keys
  PROVE  Due(k)' = Due(k)
<1> DEFINE x == todo[t][1]
           w == [todo[t][1] EXCEPT !.waits = TRUE]
<1>1. /\ todo \in [Threads -> Seq(Effects)] /\ todo' \in [Threads -> Seq(Effects)]
      /\ todo' = [todo EXCEPT ![t] = [todo[t] EXCEPT ![1] = w]]
      /\ UNCHANGED store
  BY DEF Wait, CInv, TypeOK
<1>2. x \in Effects /\ x.do \in {"insert", "remove", "clear"}
  BY FirstEffect DEF Wait, At
<1>3. w.do = x.do /\ w.entries = x.entries
  OBVIOUS
<1> HIDE DEF w
<1>4. todo'[t] = [todo[t] EXCEPT ![1] = w] /\ \A u \in Threads \ {t} : todo'[u] = todo[u]
  BY <1>1
<1> HIDE DEF x
<1>5. Reports(w, k) = Reports(x, k)
  BY <1>2, <1>3 DEF Reports, HookOf
<1> DEFINE f == [i \in DOMAIN todo[t] |-> Reports(todo[t][i], k)]
           g == [i \in DOMAIN todo'[t] |-> Reports(todo'[t][i], k)]
<1>6. DOMAIN f = DOMAIN g /\ \A i \in DOMAIN f : f[i] = g[i]
  <2>1. /\ DOMAIN todo'[t] = DOMAIN todo[t]
        /\ \A i \in DOMAIN todo[t] : todo'[t][i] = IF i = 1 THEN w ELSE todo[t][i]
    BY <1>4
  <2>2. ASSUME NEW i \in DOMAIN todo[t] PROVE f[i] = g[i]
    <3>1. CASE i = 1
      BY <1>5, <2>1, <3>1 DEF x
    <3>2. CASE i # 1
      BY <2>1, <3>2
    <3> QED BY <3>1, <3>2
  <2> QED BY <2>1, <2>2
<1>7. ReportsOf(todo'[t], k) = Total(g) /\ ReportsOf(todo[t], k) = Total(f)
  BY DEF ReportsOf
<1> HIDE DEF f, g
<1>8. Total(f) = Total(g)
  BY <1>6, SumSame
<1>9. /\ HooksFor(k)' = HooksFor(k) - ReportsOf(todo[t], k) + ReportsOf(todo'[t], k)
      /\ HooksFor(k) \in Nat /\ ReportsOf(todo[t], k) \in Nat
  BY <1>1, <1>4, HooksForStep
<1>10. HooksFor(k)' = HooksFor(k)
  BY <1>7, <1>8, <1>9
<1> QED BY <1>1, <1>10 DEF Due, Stored

\* A sum of ones and zeros counts the ones.
LEMMA SumOfBits ==
  ASSUME NEW f, IsFiniteSet(DOMAIN f), \A x \in DOMAIN f : f[x] \in {0, 1}
  PROVE  Total(f) = Cardinality({x \in DOMAIN f : f[x] = 1})
<1> DEFINE S == {x \in DOMAIN f : f[x] = 1}
           U == UnitsOf(f)
           b == [x \in S |-> <<x, 1>>]
<1>1. S \in SUBSET DOMAIN f /\ IsFiniteSet(S)
  BY FS_Subset
<1>2. \A u : u \in U <=> \E x \in S : u = <<x, 1>>
  <2>1. \A u : u \in U <=> \E x \in DOMAIN f : u \in {x} \X (1 .. f[x])
    BY DEF UnitsOf
  <2>2. 1 .. 1 = {1} /\ 1 .. 0 = {}
    OBVIOUS
  <2>3. ASSUME NEW u, u \in U PROVE \E x \in S : u = <<x, 1>>
    <3>1. PICK x \in DOMAIN f : u \in {x} \X (1 .. f[x])
      BY <2>1, <2>3
    <3>2. f[x] = 1
      BY <2>2, <3>1
    <3> QED BY <2>2, <3>1, <3>2
  <2>4. ASSUME NEW x \in S PROVE <<x, 1>> \in U
    <3>1. x \in DOMAIN f /\ <<x, 1>> \in {x} \X (1 .. f[x])
      BY <2>2
    <3> QED BY <2>1, <3>1
  <2> QED BY <2>3, <2>4
<1> HIDE DEF U, S
<1>3. b \in Bijection(S, U)
  <2>1. b \in [S -> U] /\ \A u \in U : \E x \in S : b[x] = u
    BY <1>2
  <2>2. \A x, y \in S : b[x] = b[y] => x = y
    OBVIOUS
  <2> QED BY <2>1, <2>2 DEF Bijection, Injection, Surjection, IsInjective
<1>4. Cardinality(U) = Cardinality(S)
  BY <1>1, <1>3, FS_Bijection DEF ExistsBijection
<1> QED BY <1>4 DEF Total, U, S

\* User code reports the hooks that run and those still to be called.
LEMMA ReportsUser ==
  ASSUME NEW e \in Seq(Effects), \A i \in DOMAIN e : e[i].do # "clear", NEW k
  PROVE  /\ ReportsOf(e, k) = Running(e, k) + ToCall(e, k)
         /\ Running(e, k) \in Nat /\ ToCall(e, k) \in Nat
<1> DEFINE f == [i \in DOMAIN e |-> Reports(e[i], k)]
           A == {i \in DOMAIN e : e[i].do = "hook" /\ e[i].key = k}
           B == {i \in DOMAIN e : e[i].do = "hooks" /\ k \in e[i].keys}
           S == {i \in DOMAIN f : f[i] = 1}
<1>1. \A i \in DOMAIN e : f[i] = IF i \in A \/ i \in B THEN 1 ELSE 0
  BY DEF Reports, HookOf
<1>2. IsFiniteSet(DOMAIN e)
  <2>1. DOMAIN e = 1 .. Len(e) /\ Len(e) \in Nat
    BY LenProperties
  <2> QED BY <2>1, FS_Interval
<1>3. DOMAIN f = DOMAIN e /\ \A i \in DOMAIN f : f[i] \in {0, 1}
  BY <1>1
<1>4. S = A \cup B
  BY <1>1
<1>5. A \cap B = {} /\ A \in SUBSET DOMAIN e /\ B \in SUBSET DOMAIN e
  OBVIOUS
<1>6. ReportsOf(e, k) = Total(f) /\ Running(e, k) = Cardinality(A) /\ ToCall(e, k) = Cardinality(B)
  BY DEF ReportsOf, Running, ToCall
<1> HIDE DEF f
<1>7. Total(f) = Cardinality(S)
  BY <1>2, <1>3, SumOfBits
<1> HIDE DEF A, B, S
<1>8. IsFiniteSet(A) /\ IsFiniteSet(B)
  BY <1>2, <1>5, FS_Subset
<1>9. /\ Cardinality(A \cup B) = Cardinality(A) + Cardinality(B) - Cardinality(A \cap B)
      /\ Cardinality(A) \in Nat /\ Cardinality(B) \in Nat /\ Cardinality(A \cap B) = 0
  BY <1>5, <1>8, FS_Union, FS_EmptySet, FS_CardinalityType
<1> QED BY <1>4, <1>6, <1>7, <1>9

\* A panic takes away the hooks it unwinds: those that run and those still to
\* be called.
LEMMA PanicDue ==
  ASSUME CInv, CInv', NEW t \in Threads, HookPanic(t), NEW k \in Keys
  PROVE  /\ Due(k)' = Due(k) - (Running(todo[t], k) - Running(todo'[t], k))
                             - (ToCall(todo[t], k) - ToCall(todo'[t], k))
         /\ Due(k) \in Int
         /\ Running(todo[t], k) \in Nat /\ Running(todo'[t], k) \in Nat
         /\ ToCall(todo[t], k) \in Nat /\ ToCall(todo'[t], k) \in Nat
<1> DEFINE n == Len(todo[t])
<1>1. /\ todo[t] # << >> /\ todo[t][1].do = "hook"
      /\ todo[t] \in Seq(Effects) /\ InTurn(todo[t]) /\ n \in Nat \ {0}
      /\ DOMAIN todo[t] = 1 .. n
      /\ todo \in [Threads -> Seq(Effects)] /\ todo' \in [Threads -> Seq(Effects)]
      /\ UNCHANGED <<store, counter>>
  BY HeadThenTail, LenProperties DEF HookPanic, At, CInv, TypeOK, LockInv
<1>2. PICK end \in (UserCode(t) \ {1}) \cup {n + 1} :
        todo' = [todo EXCEPT ![t] = SubSeq(todo[t], end, n)]
  BY DEF HookPanic, CInv, TypeOK
<1>3. end \in 2 .. n + 1
  BY <1>1 DEF UserCode
<1>4. \A i \in DOMAIN todo[t] : todo[t][i].do # "clear"
  <2> SUFFICES ASSUME NEW i \in DOMAIN todo[t] PROVE todo[t][i].do # "clear"
    OBVIOUS
  <2>1. CASE i = 1
    BY <1>1, <2>1
  <2>2. CASE 1 < i
    <3>1. 1 \in DOMAIN todo[t] /\ todo[t][1].do \notin {"add", "reset", "unlock"}
      BY <1>1
    <3>2. todo[t][i].do \in {"hook", "hooks", "guard"}
      BY <1>1, <2>2, <3>1 DEF InTurn
    <3> QED BY <3>2
  <2> QED BY <1>1, <2>1, <2>2
<1> DEFINE rest == SubSeq(todo[t], end, n)
<1>5. /\ rest \in Seq(Effects)
      /\ \A i \in DOMAIN rest : i + end - 1 \in DOMAIN todo[t] /\ rest[i] = todo[t][i + end - 1]
  BY <1>1, <1>3, SuffixInTurn
<1> HIDE DEF rest
<1>6. todo'[t] = rest /\ \A u \in Threads \ {t} : todo'[u] = todo[u]
  BY <1>1, <1>2 DEF rest
<1>7. \A i \in DOMAIN rest : rest[i].do # "clear"
  BY <1>4, <1>5
<1>8. /\ ReportsOf(todo[t], k) = Running(todo[t], k) + ToCall(todo[t], k)
      /\ Running(todo[t], k) \in Nat /\ ToCall(todo[t], k) \in Nat
  BY <1>1, <1>4, ReportsUser
<1>9. /\ ReportsOf(rest, k) = Running(rest, k) + ToCall(rest, k)
      /\ Running(rest, k) \in Nat /\ ToCall(rest, k) \in Nat
  BY <1>5, <1>7, ReportsUser
<1>10. /\ HooksFor(k)' = HooksFor(k) - ReportsOf(todo[t], k) + ReportsOf(todo'[t], k)
       /\ HooksFor(k) \in Nat
  BY <1>1, <1>6, HooksForStep
<1>11. Stored' = Stored
  BY <1>1 DEF Stored
<1>12. HooksFor(k)' = HooksFor(k) - (Running(todo[t], k) - Running(rest, k))
                                  - (ToCall(todo[t], k) - ToCall(rest, k))
  BY <1>6, <1>8, <1>9, <1>10
<1> QED BY <1>6, <1>8, <1>9, <1>10, <1>11, <1>12 DEF Due

\* What makes HooksOwed inductive: how often each key was stored and reported,
\* and not reported, are numbers.
HooksInv ==
  /\ balance \in [Keys -> Int] /\ lost \in [Keys -> Int]
  /\ \A k \in Keys : balance[k] = Due(k) + lost[k]

\* What is due changes with the balance and with what is lost.
LEMMA HooksNext ==
  ASSUME CInv, CInv', HooksInv, [MCNext]_mcvars
  PROVE  HooksInv'
<1>1. ASSUME UNCHANGED <<balance, lost>>, \A k \in Keys : Due(k)' = Due(k)
      PROVE  HooksInv'
  BY <1>1 DEF HooksInv
<1>2. CASE UNCHANGED mcvars
  <2>1. UNCHANGED <<store, todo, balance, lost>>
    BY <1>2 DEF mcvars, vars
  <2> QED BY <2>1 DEF HooksInv, Due, Stored, HooksFor
<1>3. CASE MCCall
  <2>1. PICK t \in Threads, call \in Calls : Call(t, call)
    BY <1>3 DEF MCCall
  <2>2. UNCHANGED <<balance, lost>>
    BY <1>3 DEF MCCall
  <2>3. \A k \in Keys : Due(k)' = Due(k)
    BY <2>1, CallDue
  <2> QED BY <1>1, <2>2, <2>3
<1>4. ASSUME NEW t \in Threads, MCInsert(t) PROVE HooksInv'
  <2> DEFINE key == Head(todo[t]).key
  <2>1. Insert(t) /\ lost' = lost
        /\ balance' = [balance EXCEPT ![key] = IF key \in Stored THEN @ ELSE @ + 1]
    BY <1>4 DEF MCInsert
  <2> HIDE DEF key
  <2>2. ASSUME NEW k \in Keys
        PROVE  balance'[k] \in Int /\ balance'[k] = Due(k)' + lost'[k]
    <3>1. Due(k)' = Due(k) + (IF k = key /\ k \notin Stored THEN 1 ELSE 0) /\ Due(k) \in Int
      BY <2>1, InsertDue DEF key
    <3>2. balance'[k] = balance[k] + (IF k = key /\ k \notin Stored THEN 1 ELSE 0)
      BY <2>1 DEF HooksInv
    <3>3. balance[k] \in Int /\ lost[k] \in Int /\ balance[k] = Due(k) + lost[k]
      BY DEF HooksInv
    <3> QED BY <2>1, <3>1, <3>2, <3>3
  <2>3. balance' \in [Keys -> Int]
    BY <2>1, <2>2 DEF HooksInv
  <2> QED BY <2>1, <2>2, <2>3 DEF HooksInv
<1>5. ASSUME NEW t \in Threads, MCDrain(t) PROVE HooksInv'
  <2>1. Drain(t) /\ UNCHANGED <<balance, lost>>
    BY <1>5 DEF MCDrain
  <2>2. \A k \in Keys : Due(k)' = Due(k)
    BY <2>1, DrainDue
  <2> QED BY <1>1, <2>1, <2>2
<1>6. ASSUME NEW t \in Threads, MCOther(t) PROVE HooksInv'
  <2>1. UNCHANGED <<balance, lost>>
    BY <1>6 DEF MCOther
  <2>2. ASSUME NEW k \in Keys PROVE Due(k)' = Due(k)
    <3>1. CASE Wait(t)
      BY <3>1, WaitDue
    <3>2. CASE Remove(t)
      BY <3>2, RemoveDue
    <3>3. CASE Get(t)
      BY <3>3, GetDue
    <3>4. CASE Drop(t)
      BY <3>4, DropDue
    <3>5. CASE Update(t) \/ Release(t) \/ DropGuard(t)
      <4>1. /\ todo[t] # << >> /\ Then(t, << >>) /\ UNCHANGED store
            /\ todo[t][1].do \notin {"clear", "hook", "hooks"}
        BY <3>5, FirstEffect DEF Update, Release, DropGuard, At
      <4>2. Due(k)' = Due(k) - HookOf(todo[t][1], k) /\ Due(k) \in Int
        BY <4>1, DoneDue
      <4> QED BY <4>1, <4>2 DEF HookOf
    <3>6. CASE CallHook(t)
      BY <3>6, CallHookDue
    <3> QED BY <1>6, <3>1, <3>2, <3>3, <3>4, <3>5, <3>6 DEF MCOther, Continue
  <2> QED BY <1>1, <2>1, <2>2
<1>7. ASSUME NEW t \in Threads, MCHookReturn(t) PROVE HooksInv'
  <2> DEFINE key == Head(todo[t]).key
  <2>1. /\ todo[t] # << >> /\ Then(t, << >>) /\ UNCHANGED store
        /\ todo[t][1].do = "hook" /\ todo[t][1].key = key /\ lost' = lost
        /\ balance' = [balance EXCEPT ![key] = @ - 1]
    BY <1>7, FirstEffect DEF MCHookReturn, HookReturn, At
  <2> HIDE DEF key
  <2>2. ASSUME NEW k \in Keys
        PROVE  balance'[k] \in Int /\ balance'[k] = Due(k)' + lost'[k]
    <3>1. Due(k)' = Due(k) - HookOf(todo[t][1], k) /\ Due(k) \in Int
      BY <2>1, DoneDue
    <3>2. HookOf(todo[t][1], k) = IF k = key THEN 1 ELSE 0
      BY <2>1 DEF HookOf
    <3>3. balance'[k] = balance[k] - (IF k = key THEN 1 ELSE 0)
          /\ balance[k] \in Int /\ lost[k] \in Int /\ balance[k] = Due(k) + lost[k]
      BY <2>1 DEF HooksInv
    <3> QED BY <2>1, <3>1, <3>2, <3>3
  <2>3. balance' \in [Keys -> Int]
    BY <2>1, <2>2 DEF HooksInv
  <2> QED BY <2>1, <2>2, <2>3 DEF HooksInv
<1>8. ASSUME NEW t \in Threads, MCHookPanic(t) PROVE HooksInv'
  <2> DEFINE ran(k) == Running(todo[t], k) - Running(todo'[t], k)
             cut(k) == ToCall(todo[t], k) - ToCall(todo'[t], k)
  <2>1. /\ HookPanic(t)
        /\ balance' = [k \in Keys |-> balance[k] - ran(k)]
        /\ lost' = [k \in Keys |-> lost[k] + cut(k)]
    BY <1>8 DEF MCHookPanic
  <2>2. ASSUME NEW k \in Keys
        PROVE  /\ Due(k)' = Due(k) - ran(k) - cut(k)
               /\ Due(k) \in Int /\ ran(k) \in Int /\ cut(k) \in Int
    BY <2>1, PanicDue
  <2> HIDE DEF ran, cut
  <2>3. ASSUME NEW k \in Keys
        PROVE  /\ balance'[k] \in Int /\ lost'[k] \in Int
               /\ balance'[k] = Due(k)' + lost'[k]
    <3>1. balance[k] \in Int /\ lost[k] \in Int /\ balance[k] = Due(k) + lost[k]
      BY DEF HooksInv
    <3> QED BY <2>1, <2>2, <3>1
  <2>4. balance' \in [Keys -> Int] /\ lost' \in [Keys -> Int]
    BY <2>1, <2>3
  <2> QED BY <2>3, <2>4 DEF HooksInv
<1> QED BY <1>2, <1>3, <1>4, <1>5, <1>6, <1>7, <1>8 DEF MCNext

\* Nothing is stored, reported or lost in an empty cache.
LEMMA HooksInit ==
  ASSUME MCInit
  PROVE  HooksInv
<1> SUFFICES ASSUME NEW k \in Keys PROVE Due(k) = 0
  BY DEF MCInit, HooksInv
<1> DEFINE f == [t \in Threads |-> ReportsOf(todo[t], k)]
<1>1. ASSUME NEW t \in Threads PROVE ReportsOf(todo[t], k) = 0
  <2>1. todo[t] = << >>
    BY DEF MCInit, Init
  <2>2. todo[t] \in Seq(Effects) /\ \A i \in DOMAIN todo[t] : FALSE
    BY <2>1, EmptySeq
  <2> QED BY <2>2, ReportsNone
<1>2. HooksFor(k) = Total(f) /\ \A t \in DOMAIN f : f[t] = 0
  BY <1>1 DEF HooksFor
<1> HIDE DEF f
<1>3. HooksFor(k) = 0
  BY <1>2, SumZero
<1>4. k \notin Stored
  BY DEF MCInit, Init, Stored
<1> QED BY <1>3, <1>4 DEF Due
-----------------------------------------------------------------------------
(* The theorems.                                                            *)

\* Nothing is pending in an empty cache.
LEMMA PendingInit ==
  ASSUME Init, NEW c
  PROVE  Pending(c) = 0
<1> DEFINE f == [t \in Threads |-> PendingOf(todo[t], c)]
<1>1. \A t \in Threads : PendingOf(todo[t], c) = 0
  <2> SUFFICES ASSUME NEW t \in Threads PROVE PendingOf(todo[t], c) = 0
    OBVIOUS
  <2>1. todo[t] = << >>
    BY DEF Init
  <2>2. todo[t] \in Seq(Effects) /\ DOMAIN todo[t] = {}
    BY <2>1, EmptySeq
  <2> QED BY <2>2, PendingUser
<1>2. \A t \in DOMAIN f : f[t] = 0
  BY <1>1
<1>3. Pending(c) = Total(f)
  BY DEF Pending
<1> HIDE DEF f
<1> QED BY <1>2, <1>3, SumZero

\* An empty cache is in balance.
LEMMA BalancedInit ==
  ASSUME Init, NEW c \in Sizing
  PROVE  Balanced(c)
<1> DEFINE g == [s \in Shards |-> Held(c, store[s])]
<1>1. Pending(c) = 0
  BY PendingInit
<1>2. \A s \in Shards : Held(c, store[s]) = 0
  <2> SUFFICES ASSUME NEW s \in Shards PROVE Held(c, store[s]) = 0
    OBVIOUS
  <2>1. DOMAIN store[s] = {}
    BY DEF Init
  <2>2. TotalSize(store[s]) = 0 /\ Cardinality(DOMAIN store[s]) = 0
    BY <2>1, TotalEmpty, FS_EmptySet
  <2> QED BY <2>2 DEF Held
<1>3. StoredOf(c) = 0
  <2>1. \A s \in DOMAIN g : g[s] = 0
    BY <1>2
  <2> HIDE DEF g
  <2>2. Total(g) = 0
    BY <2>1, SumZero
  <2> QED BY <2>2 DEF StoredOf, g
<1>4. counter[c] = 0
  BY DEF Init, Sizing, Counters
<1>5. counter[c] + Pending(c) = 0
  BY <1>1, <1>4
<1> QED BY <1>3, <1>5 DEF Balanced, Congruent

\* No step brings a counter out of balance.
LEMMA BalancedNext ==
  ASSUME CInv, CInv', [Next]_vars, NEW c \in Sizing, Balanced(c)
  PROVE  Balanced(c)'
<1>1. CASE UNCHANGED vars
  BY <1>1 DEF vars, Balanced, Congruent, Pending, StoredOf
<1>2. ASSUME NEW t \in Threads,
             \/ \E call \in Calls : Call(t, call)
             \/ Acquire(t)
             \/ Continue(t)
             \/ UserReturn(t)
             \/ HookPanic(t)
      PROVE  Balanced(c)'
  <2>1. CASE \E call \in Calls : Call(t, call)
    BY <2>1, CallPending, BalancedSame
  <2>2. CASE Wait(t)
    BY <2>2, WaitPending, BalancedSame
  <2>3. CASE Insert(t)
    BY <2>3, InsertBalanced
  <2>4. CASE Remove(t)
    BY <2>4, RemoveBalanced
  <2>5. CASE Get(t)
    <3>1. c \notin {"hits", "misses"}
      BY DEF Sizing
    <3> QED BY <2>5, <3>1, GetPending, BalancedSame
  <2>6. CASE Drain(t)
    BY <2>6, DrainBalanced
  <2>7. CASE Drop(t)
    BY <2>7, DropPending, BalancedSame
  <2>8. CASE Update(t)
    BY <2>8, UpdateBalanced
  <2>9. CASE Release(t) \/ DropGuard(t) \/ HookReturn(t)
    BY <2>9, OverPending, BalancedSame
  <2>10. CASE CallHook(t)
    BY <2>10, CallHookPending, BalancedSame
  <2>11. CASE HookPanic(t)
    BY <2>11, PanicPending, BalancedSame
  <2> QED BY <1>2, <2>1, <2>2, <2>3, <2>4, <2>5, <2>6, <2>7, <2>8, <2>9, <2>10, <2>11
          DEF Acquire, Continue, UserReturn
<1> QED BY <1>1, <1>2 DEF Next

\* No step loses an update, or makes one twice.
LEMMA AccountedNext ==
  ASSUME CInv, CInv', CountersAccounted, [Next]_vars
  PROVE  CountersAccounted'
<1>1. \A c \in Sizing : Balanced(c)
  BY BalancedAll
<1>2. \A c \in Sizing : Balanced(c)'
  BY <1>1, BalancedNext
<1> QED BY <1>2 DEF CountersAccounted, Balanced, Congruent, Sizing,
                   StoredOf, StoredBytes, StoredEntries, Held

\* No update of size() and len() is ever lost or made twice: with the updates
\* still pending they are what the shards hold (cache.rs:250-287, 497-503,
\* 589-597), whatever calls interleave, nest or panic.
THEOREM CountersAreExact == Spec => []CountersAccounted
<1>1. Init => CountersAccounted
  BY BalancedInit, BalancedAll
<1>2. CInv /\ CInv' /\ CountersAccounted /\ [Next]_vars => CountersAccounted'
  BY AccountedNext
<1> QED BY <1>1, <1>2, CacheInvariant, PTL DEF Spec

\* Once every call has returned, size() and len() are what the shards hold, up
\* to the wrap.
THEOREM QuietCountersAreExact ==
  Spec => [](Quiet => /\ counter["current_size"] = StoredBytes % Width
                      /\ counter["entry_count"] = StoredEntries % Width)
<1>1. CInv /\ CountersAccounted =>
        (Quiet => /\ counter["current_size"] = StoredBytes % Width
                  /\ counter["entry_count"] = StoredEntries % Width)
  <2> SUFFICES ASSUME CInv, CountersAccounted, Quiet
               PROVE  /\ counter["current_size"] = StoredBytes % Width
                      /\ counter["entry_count"] = StoredEntries % Width
    OBVIOUS
  <2>1. ASSUME NEW c \in Sizing PROVE (counter[c] + Pending(c)) % Width = counter[c]
    <3> DEFINE f == [t \in Threads |-> PendingOf(todo[t], c)]
    <3>1. \A t \in Threads : PendingOf(todo[t], c) = 0
      <4> SUFFICES ASSUME NEW t \in Threads PROVE PendingOf(todo[t], c) = 0
        OBVIOUS
      <4>1. todo[t] \in Seq(Effects) /\ DOMAIN todo[t] = {}
        <5>1. todo[t] = << >>
          BY DEF Quiet
        <5> QED BY <5>1, EmptySeq
      <4> QED BY <4>1, PendingUser
    <3>2. \A t \in DOMAIN f : f[t] = 0
      BY <3>1
    <3>3. Pending(c) = Total(f)
      BY DEF Pending
    <3> HIDE DEF f
    <3>4. Pending(c) = 0
      BY <3>2, <3>3, SumZero
    <3>5. PICK n \in 0 .. Width - 1 : n = counter[c]
      BY CounterType
    <3>6. n + 0 = n /\ n = Width * 0 + n
      OBVIOUS
    <3>7. n % Width = n
      BY <3>6, ModUnique
    <3> QED BY <3>4, <3>5, <3>6, <3>7
  <2>2. "current_size" \in Sizing /\ "entry_count" \in Sizing
    BY DEF Sizing
  <2> QED BY <2>1, <2>2 DEF CountersAccounted
<1> QED BY <1>1, CacheInvariant, CountersAreExact, PTL

\* A step of the cache, with its history, is one of the cache.
LEMMA HistoryNext == [MCNext]_mcvars => [Next]_vars
BY DEF MCNext, mcvars, vars, MCCall, MCInsert, MCDrain, MCOther, MCHookReturn, MCHookPanic,
       Next, Acquire, Continue, UserReturn

\* Until a clear takes entries away, what the metrics count, with the updates
\* still pending, explains the entries stored: those inserted less those evicted
\* or removed (cache.rs:260, 269, 279, 500, metrics.rs:27-35).
THEOREM MetricsExplainTheEntries == MCSpec => []MetricsExplainEntries
<1>1. MCInit => CInv /\ CountersAccounted /\ MetricsInv
  <2> SUFFICES ASSUME MCInit PROVE CInv /\ CountersAccounted /\ MetricsInv
    OBVIOUS
  <2>1. Init
    BY DEF MCInit
  <2>2. CInv /\ CountersAccounted
    BY <2>1, CacheInit, BalancedInit, BalancedAll
  <2>3. ASSUME NEW c \in Ledger PROVE Worth(c) = 0
    <3>1. counter[c] = 0
      BY <2>1, LedgerCounters DEF Init
    <3>2. Pending(c) = 0
      BY <2>1, PendingInit
    <3> QED BY <3>1, <3>2 DEF Worth
  <2>4. Explained
    <3>1. /\ Worth("entry_count") = 0 /\ Worth("evictions") = 0
          /\ Worth("removals") = 0 /\ Worth("inserts") = 0
      BY <2>3 DEF Ledger
    <3> QED BY <3>1 DEF Explained, Congruent
  <2>5. Untouched
    <3>1. \A t \in Threads : DOMAIN todo[t] = {}
      BY <2>1 DEF Init
    <3> QED BY <3>1 DEF Untouched
  <2> QED BY <2>2, <2>4, <2>5 DEF MetricsInv
<1>2. CInv /\ CountersAccounted /\ MetricsInv /\ [MCNext]_mcvars
        => (CInv /\ CountersAccounted /\ MetricsInv)'
  <2> SUFFICES ASSUME CInv, CountersAccounted, MetricsInv, [MCNext]_mcvars
               PROVE  (CInv /\ CountersAccounted /\ MetricsInv)'
    OBVIOUS
  <2>1. [Next]_vars
    BY HistoryNext
  <2>2. CInv'
    BY <2>1, CacheNext
  <2>3. CountersAccounted'
    BY <2>1, <2>2, AccountedNext
  <2>4. MetricsInv'
    BY <2>2, MetricsNext
  <2> QED BY <2>2, <2>3, <2>4
<1>3. CInv /\ CountersAccounted /\ MetricsInv => MetricsExplainEntries
  <2> SUFFICES ASSUME CInv, CountersAccounted, MetricsInv, ~ cleared /\ MetricsFeature
               PROVE  (Worth("inserts") - Worth("evictions") - Worth("removals")) % Width
                        = StoredEntries % Width
    BY DEF MetricsExplainEntries, Worth
  <2>1. \A c \in Ledger : Worth(c) \in Int
    <3> SUFFICES ASSUME NEW c \in Ledger PROVE Worth(c) \in Int
      OBVIOUS
    <3>1. counter[c] \in Nat
      BY LedgerCounters DEF CInv, TypeOK
    <3>2. Pending(c) \in Nat
      BY PendingNat
    <3> QED BY <3>1, <3>2 DEF Worth
  <2>2. PICK a \in Int, b \in Int, c \in Int, d \in Int :
          /\ a = Worth("entry_count") /\ b = Worth("evictions")
          /\ c = Worth("removals") /\ d = Worth("inserts")
    BY <2>1 DEF Ledger
  <2>3. Congruent(a + b + c - d, 0)
    BY <2>2 DEF MetricsInv, Explained
  <2>4. PICK x \in Int, y \in Int : x = a + b + c - d /\ y = d - b - c
    OBVIOUS
  <2>5. Congruent(x, 0) /\ Congruent(y, y)
    BY <2>3, <2>4 DEF Congruent
  <2>6. Congruent(x + y, 0 + y)
    BY <2>5, CongruentSum
  <2>7. x + y = a /\ 0 + y = y
    BY <2>4
  <2>8. Congruent(a, StoredEntries)
    BY <2>2 DEF CountersAccounted, Worth, Congruent
  <2> QED BY <2>2, <2>4, <2>6, <2>7, <2>8 DEF Congruent
<1> QED BY <1>1, <1>2, <1>3, PTL DEF MCSpec

\* Every departure of a key is reported by exactly one hook, or skipped because
\* a hook before it in the same call panicked (cache.rs:225-226, 280-283, 506,
\* 612-614).
THEOREM DeparturesReportedOnce == MCSpec => []HooksOwed
<1>1. MCInit => CInv /\ HooksInv
  BY CacheInit, HooksInit DEF MCInit
<1>2. CInv /\ HooksInv /\ [MCNext]_mcvars => (CInv /\ HooksInv)'
  BY HistoryNext, CacheNext, HooksNext
<1>3. HooksInv => HooksOwed
  BY DEF HooksInv, HooksOwed, Due
<1> QED BY <1>1, <1>2, <1>3, PTL DEF MCSpec
=============================================================================
