---------------------------- MODULE ShardProofs -----------------------------
(* The safety of a shard for every set of keys, every set of sizes, every   *)
(* capacity and every saturation value: IndInv is inductive, and implies    *)
(* the invariants of module Shard, a shard implements EvictingStore, and a  *)
(* sweep of the clock takes every entry of its bucket once, in turn.        *)
EXTENDS MCShard, AccountingProofs, SequenceTheorems
-----------------------------------------------------------------------------
(* What the operations of a policy bucket preserve, for every set of keys   *)
(* and every bucket length.                                                 *)

BucketType(K) == [list : Seq(K), hand : Nat]

\* PolicyBucket::insert keeps the bucket well formed and adds just its key.
LEMMA BucketInsertOK ==
  ASSUME NEW K, NEW b \in BucketType(K), NEW k \in K, NoRepeat(b), HandOK(b)
  PROVE  /\ BucketInsert(b, k) \in BucketType(K)
         /\ NoRepeat(BucketInsert(b, k))
         /\ HandOK(BucketInsert(b, k))
         /\ KeysOf(BucketInsert(b, k)) = KeysOf(b) \cup {k}
<1> DEFINE list == IF Holds(b, k) THEN b.list ELSE Append(b.list, k)
           c == BucketInsert(b, k)
<1>1. list \in Seq(K) /\ Len(list) > 0
  <2>1. CASE Holds(b, k)
    <3>1. b.list # <<>>
      BY <2>1 DEF Holds, KeysOf
    <3> QED BY <2>1, <3>1 DEF BucketType
  <2>2. CASE ~ Holds(b, k)
    BY <2>2 DEF BucketType
  <2> QED BY <2>1, <2>2
<1>2. c.list = list /\ c.hand = IF b.hand >= Len(list) THEN 0 ELSE b.hand
  BY DEF BucketInsert
<1>3. c \in BucketType(K)
  BY <1>1 DEF BucketType, BucketInsert
<1>4. HandOK(c)
  BY <1>1, <1>2 DEF HandOK, BucketType
<1>5. NoRepeat(c) /\ KeysOf(c) = KeysOf(b) \cup {k}
  <2>1. CASE Holds(b, k)
    BY <1>2, <2>1 DEF NoRepeat, KeysOf, Holds
  <2>2. CASE ~ Holds(b, k)
    <3>1. /\ DOMAIN c.list = 1 .. Len(b.list) + 1
          /\ DOMAIN b.list = 1 .. Len(b.list)
          /\ \A i \in 1 .. Len(b.list) : c.list[i] = b.list[i]
          /\ c.list[Len(b.list) + 1] = k
          /\ Len(b.list) \in Nat
      BY <1>2, <2>2 DEF BucketType
    <3>2. NoRepeat(c)
      BY <2>2, <3>1, SMTT(40) DEF NoRepeat, KeysOf, Holds
    <3>3. ASSUME NEW x PROVE x \in KeysOf(c) <=> x \in KeysOf(b) \cup {k}
      <4>1. x \in KeysOf(c) <=> \E i \in 1 .. Len(b.list) + 1 : x = c.list[i]
        BY <3>1 DEF KeysOf
      <4>2. x \in KeysOf(b) <=> \E i \in 1 .. Len(b.list) : x = b.list[i]
        BY <3>1 DEF KeysOf
      <4> QED BY <3>1, <4>1, <4>2, SMTT(40)
    <3> QED BY <3>2, <3>3
  <2> QED BY <2>1, <2>2
<1> QED BY <1>3, <1>4, <1>5

\* PolicyBucket::remove, with the swap and the moves of the hand, keeps the
\* bucket well formed and takes out just its key.
LEMMA BucketRemoveOK ==
  ASSUME NEW K, NEW b \in BucketType(K), NEW k, NoRepeat(b), HandOK(b)
  PROVE  /\ BucketRemove(b, k) \in BucketType(K)
         /\ NoRepeat(BucketRemove(b, k))
         /\ HandOK(BucketRemove(b, k))
         /\ KeysOf(BucketRemove(b, k)) = KeysOf(b) \ {k}
<1>1. CASE ~ Holds(b, k)
  BY <1>1 DEF BucketRemove, Holds
<1>2. CASE Holds(b, k)
  <2> DEFINE n == Len(b.list)
             r == IndexOf(b, k)
             c == BucketRemove(b, k)
  <2>1. /\ n \in Nat
        /\ DOMAIN b.list = 1 .. n
        /\ b.list \in [1 .. n -> K]
    BY DEF BucketType
  <2>2. r + 1 \in 1 .. n /\ b.list[r + 1] = k /\ r \in Nat /\ r < n
    BY <1>2, <2>1 DEF IndexOf, Holds, KeysOf
  <2>3. /\ c.list = SwapRemove(b.list, r)
        /\ c.hand = IF b.hand = n - 1 /\ r # n - 1 THEN r
                    ELSE IF b.hand >= n - 1 THEN 0 ELSE b.hand
        /\ c \in [list : {c.list}, hand : {c.hand}]
    BY <1>2 DEF BucketRemove
  <2>4. /\ c.list \in [1 .. n - 1 -> K]
        /\ \A i \in 1 .. n - 1 :
             c.list[i] = IF i = r + 1 THEN b.list[n] ELSE b.list[i]
    BY <2>1, <2>2, <2>3 DEF SwapRemove
  <2>5. /\ n - 1 \in Nat /\ c.list \in Seq(K) /\ Len(c.list) = n - 1
        /\ DOMAIN c.list = 1 .. n - 1
    <3>1. n - 1 \in Nat
      BY <2>1, <2>2
    <3>2. c.list \in Seq(K)
      <4>1. c.list \in [1 .. n - 1 -> K]
        BY <2>4
      <4> HIDE DEF c, n
      <4> QED BY <3>1, <4>1, SeqDef
    <3>3. DOMAIN c.list = 1 .. n - 1
      BY <2>4
    <3> HIDE DEF c
    <3> QED BY <3>1, <3>2, <3>3, LenProperties
  <2>6. b.hand \in Nat /\ b.hand < n
    BY <2>1, <2>2 DEF HandOK, BucketType
  <2>7. c \in BucketType(K)
    BY <2>2, <2>3, <2>5, <2>6 DEF BucketType
  <2>8. HandOK(c)
    BY <2>2, <2>3, <2>5, <2>6 DEF HandOK
  <2>9. \A i, j \in 1 .. n : b.list[i] = b.list[j] => i = j
    BY <2>1 DEF NoRepeat
  <2>10. NoRepeat(c)
    <3> DEFINE from(i) == IF i = r + 1 THEN n ELSE i
    <3>1. \A i \in 1 .. n - 1 : from(i) \in 1 .. n /\ c.list[i] = b.list[from(i)]
      BY <2>1, <2>2, <2>4
    <3>2. \A i, j \in 1 .. n - 1 : from(i) = from(j) => i = j
      BY <2>1, <2>2
    <3> HIDE DEF from
    <3> QED BY <2>5, <2>9, <3>1, <3>2 DEF NoRepeat
  <2>11. KeysOf(c) = KeysOf(b) \ {k}
    <3>1. ASSUME NEW x \in KeysOf(c) PROVE x \in KeysOf(b) \ {k}
      <4>1. PICK i \in 1 .. n - 1 : x = c.list[i]
        BY <3>1, <2>5 DEF KeysOf
      <4>2. CASE i = r + 1
        <5>1. n \in 1 .. n /\ n # r + 1 /\ x = b.list[n]
          BY <4>1, <4>2, <2>1, <2>2, <2>4
        <5>2. x # k
          BY <5>1, <2>1, <2>2, <2>9
        <5> QED BY <5>1, <5>2, <2>1 DEF KeysOf
      <4>3. CASE i # r + 1
        <5>1. i \in 1 .. n /\ x = b.list[i] /\ x # k
          BY <4>1, <4>3, <2>1, <2>2, <2>4, <2>9
        <5> QED BY <5>1, <2>1 DEF KeysOf
      <4> QED BY <4>2, <4>3
    <3>2. ASSUME NEW x \in KeysOf(b) \ {k} PROVE x \in KeysOf(c)
      <4>1. PICK i \in 1 .. n : x = b.list[i] /\ i # r + 1
        BY <3>2, <2>1, <2>2 DEF KeysOf
      <4>2. CASE i = n
        <5>1. r + 1 \in 1 .. n - 1 /\ c.list[r + 1] = x
          BY <4>1, <4>2, <2>1, <2>2, <2>4
        <5> QED BY <5>1, <2>5 DEF KeysOf
      <4>3. CASE i # n
        <5>1. i \in 1 .. n - 1 /\ c.list[i] = x
          BY <4>1, <4>3, <2>1, <2>2, <2>4
        <5> QED BY <5>1, <2>5 DEF KeysOf
      <4> QED BY <4>2, <4>3
    <3> QED BY <3>1, <3>2
  <2> QED BY <2>7, <2>8, <2>10, <2>11
<1> QED BY <1>1, <1>2

\* Removing another key leaves the hand on the key it points at, and inserting
\* one does too.
LEMMA BucketRemoveHand ==
  ASSUME NEW K, NEW b \in BucketType(K), NEW k, HandOK(b), b.list # <<>>,
         k # KeyAt(b, b.hand)
  PROVE  KeyAt(BucketRemove(b, k), BucketRemove(b, k).hand) = KeyAt(b, b.hand)
<1>1. CASE ~ Holds(b, k)
  BY <1>1 DEF BucketRemove
<1>2. CASE Holds(b, k)
  <2> DEFINE n == Len(b.list)
             r == IndexOf(b, k)
             c == BucketRemove(b, k)
             h == b.hand
  <2>1. n \in Nat /\ DOMAIN b.list = 1 .. n /\ h \in Nat /\ h < n
    BY DEF BucketType, HandOK
  <2>2. r + 1 \in 1 .. n /\ b.list[r + 1] = k /\ r \in Nat /\ r < n
    BY <1>2, <2>1 DEF IndexOf, Holds, KeysOf
  <2>3. /\ c.list = [j \in 1 .. n - 1 |-> IF j = r + 1 THEN b.list[n] ELSE b.list[j]]
        /\ c.hand = IF h = n - 1 /\ r # n - 1 THEN r
                    ELSE IF h >= n - 1 THEN 0 ELSE h
    BY <1>2 DEF BucketRemove, SwapRemove
  <2>4. h # r
    BY <2>2 DEF KeyAt
  <2> HIDE DEF n, r, c, h
  <2>5. CASE h = n - 1
    <3>1. c.hand = r /\ r + 1 \in 1 .. n - 1
      BY <2>1, <2>2, <2>3, <2>4, <2>5
    <3>2. c.list[r + 1] = b.list[n] /\ h + 1 = n
      BY <2>1, <2>3, <2>5, <3>1
    <3> QED BY <3>1, <3>2 DEF KeyAt, c, h
  <2>6. CASE h # n - 1
    <3>1. c.hand = h /\ h + 1 \in 1 .. n - 1 /\ h + 1 # r + 1
      BY <2>1, <2>2, <2>3, <2>4, <2>6
    <3>2. c.list[h + 1] = b.list[h + 1]
      BY <2>3, <3>1
    <3> QED BY <3>1, <3>2 DEF KeyAt, c, h
  <2> QED BY <2>5, <2>6 DEF c, h
<1> QED BY <1>1, <1>2

\* The hand still points to the same key after an insertion.
LEMMA BucketInsertHand ==
  ASSUME NEW K, NEW b \in BucketType(K), NEW k \in K, HandOK(b), b.list # <<>>
  PROVE  KeyAt(BucketInsert(b, k), BucketInsert(b, k).hand) = KeyAt(b, b.hand)
<1>1. /\ Len(b.list) \in Nat /\ b.list \in Seq(K)
      /\ b.hand \in Nat /\ b.hand < Len(b.list)
  BY DEF BucketType, HandOK
<1>2. CASE Holds(b, k)
  BY <1>1, <1>2 DEF BucketInsert, KeyAt
<1>3. CASE ~ Holds(b, k)
  <2>1. /\ BucketInsert(b, k).list = Append(b.list, k)
        /\ Len(Append(b.list, k)) = Len(b.list) + 1
        /\ BucketInsert(b, k).hand = b.hand
    BY <1>1, <1>3 DEF BucketInsert
  <2>2. Append(b.list, k)[b.hand + 1] = b.list[b.hand + 1]
    BY <1>1
  <2> QED BY <2>1, <2>2 DEF KeyAt
<1> QED BY <1>2, <1>3

\* A new bucket is well formed and empty.
LEMMA NewBucketOK ==
  ASSUME NEW K
  PROVE  /\ NewBucket \in BucketType(K)
         /\ NoRepeat(NewBucket) /\ HandOK(NewBucket) /\ KeysOf(NewBucket) = {}
BY DEF NewBucket, BucketType, NoRepeat, HandOK, KeysOf

\* An empty bucket is one with no keys, and a hand in bounds finds one of them.
LEMMA BucketKeys ==
  ASSUME NEW K, NEW b \in BucketType(K), HandOK(b)
  PROVE  /\ b.list = <<>> <=> KeysOf(b) = {}
         /\ KeysOf(b) \subseteq K
         /\ \A h \in Nat : h < Len(b.list) =>
              HasIndex(b, h) /\ KeyAt(b, h) \in KeysOf(b)
         /\ b.list # <<>> => b.hand < Len(b.list) /\ Len(b.list) > 0
         /\ Len(b.list) \in Nat
<1>1. /\ b.list \in Seq(K) /\ Len(b.list) \in Nat
      /\ DOMAIN b.list = 1 .. Len(b.list) /\ b.list \in [1 .. Len(b.list) -> K]
  BY DEF BucketType
<1>2. b.list = <<>> <=> Len(b.list) = 0
  BY <1>1
<1>3. KeysOf(b) \subseteq K
  BY <1>1 DEF KeysOf
<1>4. \A h \in Nat : h < Len(b.list) => HasIndex(b, h) /\ KeyAt(b, h) \in KeysOf(b)
  BY <1>1 DEF HasIndex, KeyAt, KeysOf
<1>5. b.list = <<>> <=> KeysOf(b) = {}
  <2>1. ASSUME b.list # <<>> PROVE KeysOf(b) # {}
    <3>1. 1 \in DOMAIN b.list
      BY <1>1, <1>2, <2>1
    <3> QED BY <3>1 DEF KeysOf
  <2>2. ASSUME b.list = <<>> PROVE KeysOf(b) = {}
    <3>1. DOMAIN b.list = {}
      BY <1>1, <1>2, <2>2
    <3> QED BY <3>1 DEF KeysOf
  <2> QED BY <2>1, <2>2
<1> QED BY <1>1, <1>2, <1>3, <1>4, <1>5 DEF HandOK
-----------------------------------------------------------------------------
(* A shard.                                                                 *)

USE SizesAssumption, CapacityAssumption, MaxFreqAssumption

\* A partial map of entries is a function from some of the keys to entries.
LEMMA MapsDef ==
  ASSUME NEW m
  PROVE  m \in EntryMaps <=> DOMAIN m \subseteq Keys /\ m \in [DOMAIN m -> Entry]
BY DEF EntryMaps

\* A map of entries less some keys is one.
LEMMA MapsWithout ==
  ASSUME NEW m \in EntryMaps, NEW S
  PROVE  Without(m, S) \in EntryMaps
<1>1. DOMAIN Without(m, S) \subseteq Keys
  BY MapsDef DEF Without, Restrict
<1>2. Without(m, S) \in [DOMAIN Without(m, S) -> Entry]
  BY MapsDef DEF Without, Restrict
<1> QED BY <1>1, <1>2, MapsDef

\* So is one with an entry bound.
LEMMA MapsWith ==
  ASSUME NEW m \in EntryMaps, NEW k \in Keys, NEW e \in Entry
  PROVE  With(m, k, e) \in EntryMaps
<1>1. DOMAIN With(m, k, e) \subseteq Keys
  BY MapsDef DEF With
<1>2. With(m, k, e) \in [DOMAIN With(m, k, e) -> Entry]
  BY MapsDef DEF With
<1> QED BY <1>1, <1>2, MapsDef

\* So is one with an entry replaced.
LEMMA MapsExcept ==
  ASSUME NEW m \in EntryMaps, NEW k \in DOMAIN m, NEW e \in Entry,
         NEW n, n = [m EXCEPT ![k] = e]
  PROVE  n \in EntryMaps
<1>1. DOMAIN n \subseteq Keys
  BY MapsDef
<1>2. n \in [DOMAIN n -> Entry]
  BY MapsDef
<1> QED BY <1>1, <1>2, MapsDef

\* The empty map is one.
LEMMA MapsEmpty == << >> \in EntryMaps
<1>1. DOMAIN << >> = {} /\ << >> \in [{} -> Entry]
  OBVIOUS
<1> QED BY <1>1, MapsDef

\* The fields of an entry of a map.
LEMMA MapsEntry ==
  ASSUME NEW m \in EntryMaps, NEW k \in DOMAIN m
  PROVE  /\ k \in Keys /\ m[k] \in Entry
         /\ m[k].size \in Nat /\ m[k].policy \in Policies
         /\ m[k].frequency \in 0 .. MaxFreq /\ m[k].clock_bit \in BOOLEAN
<1>1. k \in Keys /\ m[k] \in Entry
  BY MapsDef
<1> QED BY <1>1 DEF Entry

\* Leaving entries out of a map leaves it countable.
LEMMA CountableWithout ==
  ASSUME NEW m, NEW S, Countable(m)
  PROVE  Countable(Without(m, S))
<1>1. /\ BytesOf(Without(m, S)) \in SUBSET BytesOf(m)
      /\ DOMAIN Without(m, S) \in SUBSET DOMAIN m
  BY DEF BytesOf, Without, Restrict
<1> QED BY <1>1, FS_Subset DEF Countable

\* The buckets are well formed.
BucketsOK(bs) ==
  /\ bs \in [Policies -> BucketType(Keys)]
  /\ \A p \in Policies : NoRepeat(bs[p]) /\ HandOK(bs[p])

\* Unlinking a key from one bucket leaves the buckets well formed and takes the
\* key from that bucket only.
LEMMA UnlinkOK ==
  ASSUME NEW bs, BucketsOK(bs), NEW q \in Policies, NEW k
  PROVE  /\ BucketsOK(Unlink(bs, q, k))
         /\ KeysOf(Unlink(bs, q, k)[q]) = KeysOf(bs[q]) \ {k}
         /\ \A p \in Policies \ {q} : KeysOf(Unlink(bs, q, k)[p]) = KeysOf(bs[p])
<1>1. bs[q] \in BucketType(Keys) /\ NoRepeat(bs[q]) /\ HandOK(bs[q])
  BY DEF BucketsOK
<1>2. /\ BucketRemove(bs[q], k) \in BucketType(Keys)
      /\ NoRepeat(BucketRemove(bs[q], k))
      /\ HandOK(BucketRemove(bs[q], k))
      /\ KeysOf(BucketRemove(bs[q], k)) = KeysOf(bs[q]) \ {k}
  BY <1>1, BucketRemoveOK
<1> QED BY <1>2 DEF BucketsOK, Unlink, Link

\* Unlinking a key of a map from the bucket of its policy, when the buckets
\* hold the keys of the map.
LEMMA UnlinkStored ==
  ASSUME NEW bs, BucketsOK(bs), NEW m, Partition(bs, m),
         NEW k \in DOMAIN m, NEW q \in Policies, m[k].policy = q
  PROVE  /\ BucketsOK(Unlink(bs, q, k))
         /\ Partition(Unlink(bs, q, k), Without(m, {k}))
<1>1. /\ BucketsOK(Unlink(bs, q, k))
      /\ KeysOf(Unlink(bs, q, k)[q]) = KeysOf(bs[q]) \ {k}
      /\ \A p \in Policies \ {q} : KeysOf(Unlink(bs, q, k)[p]) = KeysOf(bs[p])
  BY UnlinkOK
<1>2. ASSUME NEW p \in Policies
      PROVE  KeysOf(Unlink(bs, q, k)[p])
               = {j \in DOMAIN Without(m, {k}) : Without(m, {k})[j].policy = p}
  <2>1. KeysOf(bs[p]) = {j \in DOMAIN m : m[j].policy = p}
    BY DEF Partition
  <2>2. /\ DOMAIN Without(m, {k}) = DOMAIN m \ {k}
        /\ \A j \in DOMAIN m \ {k} : Without(m, {k})[j] = m[j]
    BY WithoutDef
  <2>3. CASE p = q
    BY <1>1, <2>1, <2>2, <2>3
  <2>4. CASE p # q
    BY <1>1, <2>1, <2>2, <2>4, ZenonT(40)
  <2> QED BY <2>3, <2>4
<1> QED BY <1>1, <1>2 DEF Partition

\* Saving a hand that is in bounds leaves the buckets well formed.
LEMMA SaveHandOK ==
  ASSUME NEW bs, BucketsOK(bs), NEW q \in Policies,
         NEW h \in Nat, h < Len(bs[q].list)
  PROVE  LET cs == [bs EXCEPT ![q].hand = h]
         IN  /\ BucketsOK(cs)
             /\ \A p \in Policies : KeysOf(cs[p]) = KeysOf(bs[p])
<1> DEFINE b == [bs[q] EXCEPT !.hand = h]
<1>1. bs[q] \in BucketType(Keys) /\ NoRepeat(bs[q])
  BY DEF BucketsOK
<1>2. b \in BucketType(Keys) /\ b.list = bs[q].list /\ b.hand = h
  BY <1>1 DEF BucketType
<1>3. NoRepeat(b) /\ KeysOf(b) = KeysOf(bs[q])
  BY <1>1, <1>2 DEF NoRepeat, KeysOf
<1>4. b.list # <<>>
  BY <1>1, <1>2, BucketKeys DEF BucketType
<1>5. HandOK(b)
  BY <1>2, <1>4 DEF HandOK
<1> HIDE DEF b
<1>6. [bs EXCEPT ![q].hand = h] = [bs EXCEPT ![q] = b]
  BY DEF b
<1> QED BY <1>2, <1>3, <1>5, <1>6 DEF BucketsOK

\* Linking a key into one bucket leaves the buckets well formed and adds the
\* key to that bucket only.
LEMMA LinkOK ==
  ASSUME NEW bs, BucketsOK(bs), NEW q \in Policies, NEW k \in Keys
  PROVE  /\ BucketsOK(Link(bs, q, k))
         /\ KeysOf(Link(bs, q, k)[q]) = KeysOf(bs[q]) \cup {k}
         /\ \A p \in Policies \ {q} : KeysOf(Link(bs, q, k)[p]) = KeysOf(bs[p])
<1>1. bs[q] \in BucketType(Keys) /\ NoRepeat(bs[q]) /\ HandOK(bs[q])
  BY DEF BucketsOK
<1>2. /\ BucketInsert(bs[q], k) \in BucketType(Keys)
      /\ NoRepeat(BucketInsert(bs[q], k))
      /\ HandOK(BucketInsert(bs[q], k))
      /\ KeysOf(BucketInsert(bs[q], k)) = KeysOf(bs[q]) \cup {k}
  BY <1>1, BucketInsertOK
<1> QED BY <1>2 DEF BucketsOK, Unlink, Link

\* Maps with the same keys, sizes and policies are filed in the same buckets and
\* have the same total size.
SameShape(m, n) ==
  /\ DOMAIN m = DOMAIN n
  /\ \A k \in DOMAIN m : m[k].size = n[k].size /\ m[k].policy = n[k].policy

\* Maps of the same shape have the same size and are partitioned alike.
LEMMA SameShapeSame ==
  ASSUME NEW m, NEW n, SameShape(m, n)
  PROVE  /\ TotalSize(m) = TotalSize(n)
         /\ Countable(m) => Countable(n)
         /\ \A bs : Partition(bs, m) => Partition(bs, n)
<1>1. BytesOf(m) = BytesOf(n)
  BY TotalSame DEF SameShape
<1>2. ASSUME NEW bs, Partition(bs, m)
      PROVE  Partition(bs, n)
  <2>1. \A p : {k \in DOMAIN m : m[k].policy = p} = {k \in DOMAIN n : n[k].policy = p}
    BY DEF SameShape
  <2> QED BY <1>2, <2>1 DEF Partition
<1> QED BY <1>1, <1>2 DEF TotalSize, Countable, SameShape

\* What the invariant says of the parts of the state.
LEMMA InvFacts ==
  ASSUME IndInv
  PROVE  /\ entries \in EntryMaps /\ BucketsOK(buckets) /\ size_current \in Nat
         /\ Countable(entries) /\ Countable(Counted) /\ Counted \in EntryMaps
         /\ size_current = TotalSize(Counted)
         /\ \A k \in DOMAIN Counted : k \in DOMAIN entries /\ Counted[k] = entries[k]
         /\ Partition(buckets, Counted)
         /\ ins.pc # "idle" <=> ins # NoInsert
         /\ ins # NoInsert => ins \in Inserts
<1>1. /\ entries \in EntryMaps /\ size_current \in Nat
      /\ size_current = TotalSize(Counted)
      /\ Partition(buckets, Counted)
  BY DEF IndInv, TypeOK, BucketsPartition, Accounted
<1>2. BucketsOK(buckets)
  BY DEF IndInv, TypeOK, BucketsPartition, BucketsOK, BucketType
<1>3. Countable(entries)
  BY DEF IndInv
<1>4. Countable(Counted) /\ Counted \in EntryMaps
  BY <1>1, <1>3, CountableWithout, MapsWithout DEF Counted
<1>5. \A k \in DOMAIN Counted : k \in DOMAIN entries /\ Counted[k] = entries[k]
  BY DEF Counted, Without, Restrict
<1>6. ins \in Inserts \cup {NoInsert}
  BY DEF IndInv, TypeOK
<1>7. /\ ins.pc # "idle" <=> ins # NoInsert
      /\ ins # NoInsert => ins \in Inserts
  BY <1>6 DEF Inserts, NoInsert
<1> QED BY <1>1, <1>2, <1>3, <1>4, <1>5, <1>7
-----------------------------------------------------------------------------
\* The initial state satisfies the invariant.
LEMMA InitInv == Init => IndInv
<1> SUFFICES ASSUME Init PROVE IndInv
  OBVIOUS
<1> USE DEF Init
<1>1. TypeOK
  BY MapsEmpty, NewBucketOK DEF TypeOK, BucketType
<1>2. Counted = << >>
  BY DEF Counted
<1>3. DOMAIN entries = {}
  OBVIOUS
<1>4. BucketsPartition
  BY <1>2, <1>3, NewBucketOK DEF BucketsPartition, Partition
<1>5. Countable(entries) /\ TotalSize(entries) = 0
  BY <1>3, TotalEmpty
<1>6. Accounted
  BY <1>2, <1>5 DEF Accounted
<1>7. FitsOrAlone
  BY DEF FitsOrAlone
<1>8. \A p \in Policies : HandOK(buckets[p])
  BY NewBucketOK
<1> QED BY <1>1, <1>4, <1>5, <1>6, <1>7, <1>8 DEF IndInv, NoInsert
-----------------------------------------------------------------------------
\* Assembles the invariant of the next state from its parts.
LEMMA NextInv ==
  ASSUME entries' \in EntryMaps, Countable(entries'), BucketsOK(buckets'),
         size_current' \in Nat, size_current' = TotalSize(Counted'),
         Partition(buckets', Counted'),
         \/ /\ ins' = NoInsert
            /\ size_current' <= Capacity \/ Cardinality(DOMAIN entries') = 1
         \/ /\ ins' \in Inserts
            /\ ins'.pc = "sweep" =>
                 ins'.policy_idx >= 0
                   /\ ins'.hand < Len(buckets'[ins'.policy_idx].list)
            /\ \A p \in Policies : p > ins'.policy_idx => buckets'[p].list = << >>
            /\ Countable(ins'.evicted)
            /\ DOMAIN ins'.evicted \cap (DOMAIN entries' \cup {ins'.key}) = {}
            /\ ins'.stats = [count |-> Cardinality(DOMAIN ins'.evicted),
                             size |-> TotalSize(ins'.evicted)]
  PROVE  IndInv'
<1>1. TypeOK'
  BY DEF TypeOK, BucketsOK, BucketType
<1>2. BucketsPartition'
  BY DEF BucketsPartition, BucketsOK
<1>3. \A p \in Policies : HandOK(buckets'[p])
  BY DEF BucketsOK
<1>4. Countable(entries')
  OBVIOUS
<1>5. CASE ins' = NoInsert
  <2>1. ins'.pc = "idle"
    BY <1>5 DEF NoInsert
  <2>2. FitsOrAlone' /\ Accounted'
    BY <1>5, <2>1 DEF FitsOrAlone, Accounted, NoInsert, Inserts
  <2> QED BY <1>1, <1>2, <1>3, <1>4, <1>5, <2>1, <2>2 DEF IndInv
<1>6. CASE ins' # NoInsert
  <2>1. FitsOrAlone' /\ Accounted'
    BY <1>6 DEF FitsOrAlone, Accounted
  <2> QED BY <1>1, <1>2, <1>3, <1>4, <1>6, <2>1 DEF IndInv, Bucket
<1> QED BY <1>5, <1>6

\* An insert under way is no NoInsert.
LEMMA InsertsIdle == \A i \in Inserts : i # NoInsert
BY DEF Inserts, NoInsert

\* An insert takes the entry that it replaces out of its bucket and the count.
LEMMA BeginInsertInv ==
  ASSUME IndInv, NEW k \in Keys, NEW size \in Sizes, NEW policy \in Policies,
         BeginInsert(k, size, policy)
  PROVE  IndInv'
<1> USE InvFacts DEF BeginInsert
<1>1. /\ ins' \in Inserts /\ ins'.key = k /\ ins'.pc = "evict"
      /\ ins'.policy_idx = 2 /\ ins'.evicted = << >>
      /\ ins'.stats = [count |-> 0, size |-> 0]
  <2>1. NewEntry(size, policy) \in Entry
    BY DEF NewEntry, Entry
  <2> QED BY <2>1, MapsEmpty DEF NewInsert, Inserts
<1>2. Counted = entries /\ Counted' = Without(entries, {k}) /\ entries' = entries
  BY <1>1, InsertsIdle DEF Counted
<1>3. /\ BucketsOK(buckets')
      /\ Partition(buckets', Counted')
      /\ size_current' \in Nat
      /\ size_current' = TotalSize(Counted')
  <2>1. CASE k \in DOMAIN entries
    <3>1. entries[k].policy \in Policies /\ entries[k].size \in Nat
      BY <2>1, MapsEntry
    <3>2. BucketsOK(buckets') /\ Partition(buckets', Without(entries, {k}))
      BY <1>2, <2>1, <3>1, UnlinkStored
    <3>3. size_current' = TotalSize(Without(entries, {k})) /\ size_current' \in Nat
      BY <1>2, <2>1, <3>1, TotalWithout
    <3> QED BY <1>2, <3>2, <3>3
  <2>2. CASE k \notin DOMAIN entries
    <3>1. Without(entries, {k}) = entries
      BY <2>2, MapsDef DEF Without, Restrict
    <3> QED BY <1>2, <2>2, <3>1
  <2> QED BY <2>1, <2>2
<1>4. \A p \in Policies : p > ins'.policy_idx => buckets'[p].list = << >>
  BY <1>1 DEF Policies
<1>5. /\ DOMAIN ins'.evicted = {}
      /\ Cardinality(DOMAIN ins'.evicted) = 0
      /\ Countable(ins'.evicted) /\ TotalSize(ins'.evicted) = 0
  BY <1>1, FS_EmptySet, TotalEmpty
<1> QED BY <1>1, <1>2, <1>3, <1>4, <1>5, NextInv

\* What the invariant says of an insert under way.
LEMMA InsertFacts ==
  ASSUME IndInv, ins # NoInsert
  PROVE  /\ ins \in Inserts
         /\ ins.key \in Keys /\ ins.entry \in Entry /\ ins.policy_idx \in -1 .. 2
         /\ ins.hand \in Nat /\ ins.left \in Nat /\ ins.evicted \in EntryMaps
         /\ ins.entry.size \in Nat /\ ins.entry.policy \in Policies
         /\ Counted = Without(entries, {ins.key})
         /\ \A p \in Policies : p > ins.policy_idx => buckets[p].list = << >>
         /\ Countable(ins.evicted)
         /\ DOMAIN ins.evicted \cap (DOMAIN entries \cup {ins.key}) = {}
         /\ ins.stats = [count |-> Cardinality(DOMAIN ins.evicted),
                         size |-> TotalSize(ins.evicted)]
<1>1. ins \in Inserts
  BY InvFacts
<1>2. /\ ins.key \in Keys /\ ins.entry \in Entry /\ ins.policy_idx \in -1 .. 2
      /\ ins.hand \in Nat /\ ins.left \in Nat /\ ins.evicted \in EntryMaps
  BY <1>1 DEF Inserts
<1>3. ins.entry.size \in Nat /\ ins.entry.policy \in Policies
  BY <1>2 DEF Entry
<1>4. Counted = Without(entries, {ins.key})
  BY DEF Counted
<1> QED BY <1>1, <1>2, <1>3, <1>4 DEF IndInv, Accounted

\* The key under the hand of a sweep is that of a counted entry of its bucket.
LEMMA SweepFacts ==
  ASSUME IndInv, ins.pc = "sweep"
  PROVE  /\ ins # NoInsert /\ ins.policy_idx \in Policies
         /\ ins.hand < Len(Bucket.list) /\ Len(Bucket.list) \in Nat
         /\ HandKey \in DOMAIN Counted /\ HandKey \in DOMAIN entries
         /\ HandKey \in Keys /\ HandKey # ins.key
         /\ entries[HandKey].policy = ins.policy_idx
         /\ HandFound
<1>1. ins # NoInsert
  BY DEF NoInsert
<1>2. ins.policy_idx \in Policies /\ ins.hand \in Nat
  BY <1>1, InsertFacts DEF IndInv, Policies
<1>3. ins.hand < Len(Bucket.list)
  BY DEF IndInv
<1>4. Bucket \in BucketType(Keys) /\ HandOK(Bucket)
  BY <1>2, InvFacts DEF BucketsOK, Bucket
<1>5. HasIndex(Bucket, ins.hand) /\ HandKey \in KeysOf(Bucket) /\ Len(Bucket.list) \in Nat
  BY <1>2, <1>3, <1>4, BucketKeys DEF HandKey
<1>6. KeysOf(Bucket) = {k \in DOMAIN Counted : Counted[k].policy = ins.policy_idx}
  BY <1>2, InvFacts DEF Partition, Bucket
<1>7. /\ HandKey \in DOMAIN Counted /\ Counted[HandKey].policy = ins.policy_idx
      /\ HandKey \in DOMAIN entries /\ Counted[HandKey] = entries[HandKey]
  BY <1>5, <1>6, InvFacts
<1>8. DOMAIN Counted = DOMAIN entries \ {ins.key}
  BY <1>1, InsertFacts, WithoutDef
<1>9. HandKey \in Keys
  BY <1>7, InvFacts, MapsEntry
<1> QED BY <1>1, <1>2, <1>3, <1>5, <1>7, <1>8, <1>9 DEF HandFound

\* A sweep starts at the hand of the first bucket.
LEMMA StartSweepInv ==
  ASSUME IndInv, StartSweep
  PROVE  IndInv'
<1> USE DEF StartSweep
<1>1. ins # NoInsert
  BY DEF NoInsert
<1>2. ins.policy_idx \in Policies
  BY <1>1, InsertFacts DEF Policies
<1>3. Bucket \in BucketType(Keys) /\ HandOK(Bucket)
  BY <1>2, InvFacts DEF BucketsOK, Bucket
<1>4. Bucket.hand \in Nat /\ Len(Bucket.list) \in Nat /\ Bucket.hand < Len(Bucket.list)
  BY <1>3, BucketKeys DEF BucketType
<1>5. /\ ins' \in Inserts /\ ins'.key = ins.key /\ ins'.evicted = ins.evicted
      /\ ins'.stats = ins.stats /\ ins'.policy_idx = ins.policy_idx
      /\ ins'.hand = Bucket.hand
  BY <1>1, <1>4, InsertFacts DEF Inserts
<1>6. Counted' = Counted
  BY <1>1, <1>5, InsertsIdle DEF Counted
<1>7. ins'.hand < Len(buckets'[ins'.policy_idx].list)
  BY <1>4, <1>5 DEF Bucket
<1> QED BY <1>1, <1>2, <1>5, <1>6, <1>7, InvFacts, InsertFacts, NextInv DEF Policies

\* A bucket that is swept gives way to the next one.
LEMMA NextBucketInv ==
  ASSUME IndInv, NextBucket
  PROVE  IndInv'
<1> USE DEF NextBucket
<1>1. ins.policy_idx \in Policies
  BY InsertFacts DEF Policies
<1>2. Bucket.list = << >>
  BY SweepFacts DEF NoVictim
<1>3. /\ ins' \in Inserts /\ ins'.key = ins.key /\ ins'.evicted = ins.evicted
      /\ ins'.stats = ins.stats /\ ins'.policy_idx = ins.policy_idx - 1
      /\ ins'.pc = "evict"
  <2>1. ins.policy_idx - 1 \in -1 .. 2
    BY <1>1 DEF Policies
  <2>2. ins \in Inserts /\ 0 \in Nat
    BY InsertFacts
  <2> QED BY <2>1, <2>2 DEF Inserts
<1>4. Counted' = Counted
  BY <1>3, InsertsIdle DEF Counted
<1>5. \A p \in Policies : p > ins'.policy_idx => buckets'[p].list = << >>
  BY <1>1, <1>2, <1>3, InsertFacts DEF Bucket, Policies
<1> QED BY <1>3, <1>4, <1>5, InvFacts, InsertFacts, NextInv

\* An entry that is passed over loses its bit or its frequency decays.
LEMMA PassOverInv ==
  ASSUME IndInv, PassOver
  PROVE  IndInv'
<1> USE DEF PassOver
<1> DEFINE k == HandKey
           e == Decay(entries[k])
<1>1. /\ ins # NoInsert /\ ins.policy_idx \in Policies
      /\ ins.hand < Len(Bucket.list) /\ Len(Bucket.list) \in Nat
      /\ k \in DOMAIN Counted /\ k \in DOMAIN entries /\ k \in Keys
  BY SweepFacts
<1>2. e \in Entry /\ e.size = entries[k].size /\ e.policy = entries[k].policy
  <2>1. /\ entries[k] \in Entry /\ entries[k].frequency \in 0 .. MaxFreq
        /\ entries[k].clock_bit \in BOOLEAN
    BY <1>1, InvFacts, MapsEntry
  <2>2. CASE entries[k].clock_bit
    BY <2>1, <2>2 DEF Decay, Entry
  <2>3. CASE ~ entries[k].clock_bit
    <3>1. entries[k].frequency - 1 \in 0 .. MaxFreq
      BY <2>1, <2>3 DEF Cold
    <3> QED BY <2>1, <2>3, <3>1 DEF Decay, Entry
  <2> QED BY <2>1, <2>2, <2>3
<1>3. entries' = [entries EXCEPT ![k] = e]
  OBVIOUS
<1> HIDE DEF k, e
<1>4. entries' \in EntryMaps
  <2>1. entries \in EntryMaps
    BY InvFacts
  <2> HIDE DEF PassOver
  <2> QED BY <1>1, <1>2, <1>3, <2>1, MapsExcept
<1>5. SameShape(entries, entries')
  BY <1>1, <1>2, <1>3 DEF SameShape
<1>6. /\ ins' \in Inserts /\ ins'.key = ins.key /\ ins'.evicted = ins.evicted
      /\ ins'.stats = ins.stats /\ ins'.policy_idx = ins.policy_idx
      /\ ins'.hand < Len(Bucket.list)
  <2> DEFINE h == IF ins.hand + 1 >= Len(Bucket.list) THEN 0 ELSE ins.hand + 1
  <2>1. ins \in Inserts /\ ins.left - 1 \in Nat /\ h \in Nat /\ h < Len(Bucket.list)
    BY <1>1, InsertFacts
  <2>2. ins' = [ins EXCEPT !.left = ins.left - 1, !.hand = h]
    OBVIOUS
  <2> HIDE DEF h, PassOver
  <2>3. /\ ins' \in Inserts /\ ins'.key = ins.key /\ ins'.evicted = ins.evicted
        /\ ins'.stats = ins.stats /\ ins'.policy_idx = ins.policy_idx
        /\ ins'.hand = h
    BY <2>1, <2>2 DEF Inserts
  <2> QED BY <2>1, <2>3
<1>7. SameShape(Counted, Counted')
  <2>1. Counted = Without(entries, {ins.key}) /\ Counted' = Without(entries', {ins.key})
    BY <1>1, <1>6, InsertsIdle DEF Counted
  <2> QED BY <1>5, <2>1 DEF SameShape, Without, Restrict
<1>8. /\ Countable(entries') /\ Partition(buckets', Counted')
      /\ size_current' = TotalSize(Counted')
  BY <1>5, <1>7, InvFacts, SameShapeSame
<1>9. ins'.hand < Len(buckets'[ins'.policy_idx].list)
  BY <1>6 DEF Bucket
<1>10. DOMAIN entries' = DOMAIN entries
  BY <1>5 DEF SameShape
<1> QED BY <1>1, <1>4, <1>6, <1>8, <1>9, <1>10, InvFacts, InsertFacts, NextInv DEF Policies

\* Both evictions of a sweep: the victim is the entry under the hand.
LEMMA EvictInv ==
  ASSUME IndInv, ins.pc = "sweep", Evict(HandKey)
  PROVE  IndInv'
<1> DEFINE k == HandKey
           q == ins.policy_idx
           bs == [buckets EXCEPT ![q].hand = ins.hand]
<1>1. /\ ins # NoInsert /\ q \in Policies /\ ins.hand \in Nat
      /\ ins.hand < Len(buckets[q].list)
      /\ k \in DOMAIN Counted /\ k \in DOMAIN entries /\ k \in Keys /\ k # ins.key
      /\ entries[k].policy = q /\ entries[k].size \in Nat /\ entries[k] \in Entry
      /\ Counted[k] = entries[k]
  BY SweepFacts, InsertFacts, InvFacts, MapsEntry DEF Bucket
<1>2. /\ entries' = Without(entries, {k})
      /\ buckets' = Unlink(bs, q, k)
      /\ size_current' = size_current - entries[k].size
      /\ ins' = [ins EXCEPT !.pc = "evict", !.hand = 0, !.left = 0,
                            !.evicted = With(ins.evicted, k, entries[k]),
                            !.stats = [count |-> ins.stats.count + 1,
                                       size |-> ins.stats.size + entries[k].size]]
  BY DEF Evict
<1> HIDE DEF k
<1>3. /\ ins.evicted \in EntryMaps /\ Countable(ins.evicted)
      /\ IsFiniteSet(DOMAIN ins.evicted) /\ k \notin DOMAIN ins.evicted
      /\ ins.stats.count = Cardinality(DOMAIN ins.evicted)
      /\ ins.stats.size = TotalSize(ins.evicted)
      /\ ins.stats.count \in Nat /\ ins.stats.size \in Nat
  BY <1>1, InsertFacts, FS_CardinalityType, TotalType DEF Countable
<1>4. /\ ins' \in Inserts /\ ins'.key = ins.key /\ ins'.policy_idx = q
      /\ ins'.pc = "evict" /\ ins'.evicted = With(ins.evicted, k, entries[k])
      /\ ins'.stats = [count |-> ins.stats.count + 1,
                       size |-> ins.stats.size + entries[k].size]
  <2>1. /\ ins \in Inserts /\ 0 \in Nat
        /\ With(ins.evicted, k, entries[k]) \in EntryMaps
        /\ ins.stats.count + 1 \in Nat /\ ins.stats.size + entries[k].size \in Nat
    BY <1>1, <1>3, InsertFacts, MapsWith
  <2> QED BY <1>2, <2>1 DEF Inserts
<1>5. Counted' = Without(Counted, {k})
  <2>1. Counted = Without(entries, {ins.key}) /\ Counted' = Without(entries', {ins.key})
    BY <1>1, <1>4, InsertsIdle DEF Counted
  <2> QED BY <1>2, <2>1, MapsDef, InvFacts DEF Without, Restrict
<1>6. BucketsOK(buckets') /\ Partition(buckets', Counted')
  <2>1. BucketsOK(bs) /\ \A p \in Policies : KeysOf(bs[p]) = KeysOf(buckets[p])
    BY <1>1, InvFacts, SaveHandOK
  <2> HIDE DEF bs
  <2>2. Partition(bs, Counted)
    BY <2>1, InvFacts DEF Partition
  <2> QED BY <1>1, <1>2, <1>5, <2>1, <2>2, UnlinkStored
<1>7. size_current' = TotalSize(Counted') /\ size_current' \in Nat
  BY <1>1, <1>2, <1>5, InvFacts, TotalWithout
<1>8. entries' \in EntryMaps /\ Countable(entries')
  BY <1>2, InvFacts, MapsWithout, CountableWithout
<1>9. \A p \in Policies : p > ins'.policy_idx => buckets'[p].list = << >>
  <2>1. \A p \in Policies : p > q => buckets'[p] = buckets[p]
    BY <1>1, <1>2, InvFacts DEF Unlink, BucketsOK, Policies
  <2> QED BY <1>1, <1>4, <2>1, InsertFacts
<1>10. /\ DOMAIN ins'.evicted = DOMAIN ins.evicted \cup {k}
       /\ Cardinality(DOMAIN ins'.evicted) = ins.stats.count + 1
       /\ Countable(ins'.evicted)
       /\ TotalSize(ins'.evicted) = ins.stats.size + entries[k].size
  <2>1. DOMAIN ins'.evicted = DOMAIN ins.evicted \cup {k}
    BY <1>4 DEF With
  <2>2. Cardinality(DOMAIN ins'.evicted) = ins.stats.count + 1
    <3>1. IsFiniteSet(DOMAIN ins.evicted)
      BY <1>3 DEF Countable
    <3>2. Cardinality(DOMAIN ins.evicted \cup {k}) = Cardinality(DOMAIN ins.evicted) + 1
      BY <1>3, <3>1, FS_AddElement
    <3> QED BY <1>3, <2>1, <3>2
  <2>3. /\ Countable(ins'.evicted)
        /\ TotalSize(ins'.evicted) = ins.stats.size + entries[k].size
    BY <1>1, <1>3, <1>4, TotalWith
  <2> QED BY <2>1, <2>2, <2>3
<1>11. DOMAIN ins'.evicted \cap (DOMAIN entries' \cup {ins'.key}) = {}
  <2>1. DOMAIN entries' = DOMAIN entries \ {k}
    BY <1>2 DEF Without, Restrict
  <2>2. DOMAIN ins.evicted \cap (DOMAIN entries \cup {ins.key}) = {}
    BY <1>1, InsertFacts
  <2> QED BY <1>1, <1>4, <1>10, <2>1, <2>2
<1>12. ins'.stats = [count |-> Cardinality(DOMAIN ins'.evicted),
                     size |-> TotalSize(ins'.evicted)]
  BY <1>4, <1>10
<1> QED BY <1>4, <1>6, <1>7, <1>8, <1>9, <1>10, <1>11, <1>12, NextInv

\* The insert links its key when the sweep is over.
LEMMA FinishInsertInv ==
  ASSUME IndInv, FinishInsert
  PROVE  IndInv'
<1> DEFINE k == ins.key
           e == ins.entry
           p == ins.entry.policy
<1>1. /\ ins # NoInsert /\ k \in Keys /\ e \in Entry /\ e.size \in Nat
      /\ p \in Policies /\ Counted = Without(entries, {k})
  <2>1. ins # NoInsert
    BY DEF FinishInsert, NoInsert
  <2> QED BY <2>1, InsertFacts
<1>2. /\ entries' = With(entries, k, e)
      /\ buckets' = Link(buckets, p, k)
      /\ size_current' = size_current + e.size
      /\ ins' = NoInsert
      /\ Fits \/ ins.policy_idx < 0
  BY DEF FinishInsert
<1>3. entries' \in EntryMaps
  BY <1>1, <1>2, InvFacts, MapsWith
<1>4. Counted' = entries' /\ entries' = With(Counted, k, e) /\ k \notin DOMAIN Counted
  <2>1. Counted' = entries' /\ k \notin DOMAIN Counted
    BY <1>1, <1>2 DEF Counted, Without, Restrict
  <2>2. DOMAIN With(Counted, k, e) = DOMAIN With(entries, k, e)
    BY <1>1 DEF With, Without, Restrict
  <2>3. \A j \in DOMAIN With(entries, k, e) : With(Counted, k, e)[j] = With(entries, k, e)[j]
    BY <1>1 DEF With, Without, Restrict
  <2>4. With(Counted, k, e) = With(entries, k, e)
    BY <2>2, <2>3 DEF With
  <2> QED BY <1>2, <2>1, <2>4
<1>5. /\ Countable(entries') /\ size_current' = TotalSize(Counted')
      /\ size_current' \in Nat
  BY <1>1, <1>2, <1>4, InvFacts, TotalWith
<1>6. /\ BucketsOK(buckets')
      /\ KeysOf(buckets'[p]) = KeysOf(buckets[p]) \cup {k}
      /\ \A q \in Policies \ {p} : KeysOf(buckets'[q]) = KeysOf(buckets[q])
  <2>1. BucketsOK(buckets)
    BY InvFacts
  <2> HIDE DEF k, e, p
  <2> QED BY <1>1, <1>2, <2>1, LinkOK
<1>7. e.policy = p
  OBVIOUS
<1> HIDE DEF k, e, p
<1>8. Partition(buckets', Counted')
  <2>1. /\ DOMAIN Counted' = DOMAIN Counted \cup {k} /\ Counted'[k] = e
        /\ \A j \in DOMAIN Counted : Counted'[j] = Counted[j]
    BY <1>4 DEF With
  <2>2. \A q \in Policies : KeysOf(buckets[q]) = {j \in DOMAIN Counted : Counted[j].policy = q}
    BY InvFacts DEF Partition
  <2>3. ASSUME NEW q \in Policies
        PROVE  KeysOf(buckets'[q]) = {j \in DOMAIN Counted' : Counted'[j].policy = q}
    <3> DEFINE old == {j \in DOMAIN Counted : Counted[j].policy = q}
               new == {j \in DOMAIN Counted' : Counted'[j].policy = q}
    <3>1. \A j \in DOMAIN Counted : j # k
      BY <1>4
    <3>2. CASE q = p
      <4>1. new = old \cup {k}
        BY <1>7, <2>1, <3>1, <3>2
      <4> QED BY <1>6, <2>2, <3>2, <4>1
    <3>3. CASE q # p
      <4>1. new = old
        BY <1>7, <2>1, <3>1, <3>3
      <4> QED BY <1>6, <2>2, <3>3, <4>1
    <3> QED BY <3>2, <3>3
  <2> QED BY <2>3 DEF Partition
<1>9. size_current' <= Capacity \/ Cardinality(DOMAIN entries') = 1
  <2>1. CASE Fits
    BY <1>2, <2>1 DEF Fits, e
  <2>2. CASE ins.policy_idx < 0
    <3>1. \A q \in Policies : buckets[q].list = << >>
      BY <1>1, <2>2, InsertFacts DEF Policies
    <3>2. \A q \in Policies : KeysOf(buckets[q]) = {}
      BY <3>1 DEF KeysOf
    <3>3. ASSUME NEW j \in DOMAIN Counted PROVE FALSE
      <4>1. Counted[j].policy \in Policies
        BY InvFacts, MapsEntry
      <4> QED BY <3>2, <4>1, InvFacts DEF Partition
    <3>4. DOMAIN entries' = {k}
      BY <1>4, <3>3 DEF With
    <3> QED BY <3>4, FS_Singleton
  <2> QED BY <1>2, <2>1, <2>2
<1> QED BY <1>2, <1>3, <1>5, <1>6, <1>8, <1>9, NextInv

\* A lookup marks its entry.
LEMMA GetRefInv ==
  ASSUME IndInv, NEW k \in Keys, GetRef(k)
  PROVE  IndInv'
<1> PICK f \in 1 .. MaxFreq :
      entries' = [entries EXCEPT ![k].clock_bit = TRUE, ![k].frequency = f]
  BY DEF GetRef
<1> DEFINE e == [entries[k] EXCEPT !.clock_bit = TRUE, !.frequency = f]
<1>1. /\ ins = NoInsert /\ k \in DOMAIN entries /\ ins' = ins
      /\ buckets' = buckets /\ size_current' = size_current
      /\ entries' = [entries EXCEPT ![k] = e]
  BY DEF GetRef
<1>2. e \in Entry /\ e.size = entries[k].size /\ e.policy = entries[k].policy
  <2>1. entries[k] \in Entry
    BY <1>1, InvFacts, MapsEntry
  <2>2. f \in 0 .. MaxFreq
    BY MaxFreqAssumption
  <2> QED BY <2>1, <2>2 DEF Entry
<1> HIDE DEF e
<1>3. entries' \in EntryMaps
  BY <1>1, <1>2, InvFacts, MapsExcept
<1>4. SameShape(entries, entries')
  BY <1>1, <1>2 DEF SameShape
<1>5. Counted = entries /\ Counted' = entries'
  BY <1>1 DEF Counted
<1>6. /\ Countable(entries') /\ Partition(buckets', Counted')
      /\ size_current' = TotalSize(Counted')
  BY <1>1, <1>4, <1>5, InvFacts, SameShapeSame
<1>7. size_current' <= Capacity \/ Cardinality(DOMAIN entries') = 1
  BY <1>1, <1>4 DEF IndInv, FitsOrAlone, SameShape
<1> QED BY <1>1, <1>3, <1>6, <1>7, InvFacts, NextInv

\* A remove unlinks its key.
LEMMA RemoveInv ==
  ASSUME IndInv, NEW k \in Keys, Remove(k)
  PROVE  IndInv'
<1>1. /\ ins = NoInsert /\ k \in DOMAIN entries /\ ins' = ins
      /\ entries' = Without(entries, {k})
      /\ buckets' = Unlink(buckets, entries[k].policy, k)
      /\ size_current' = size_current - entries[k].size
  BY DEF Remove
<1>2. Counted = entries /\ Counted' = entries'
  BY <1>1 DEF Counted
<1>3. entries[k].policy \in Policies /\ entries[k].size \in Nat
  BY <1>1, InvFacts, MapsEntry
<1>4. BucketsOK(buckets') /\ Partition(buckets', Counted')
  BY <1>1, <1>2, <1>3, InvFacts, UnlinkStored
<1>5. /\ entries' \in EntryMaps /\ Countable(entries')
      /\ size_current' = TotalSize(Counted') /\ size_current' \in Nat
  BY <1>1, <1>2, <1>3, InvFacts, MapsWithout, TotalWithout
<1>6. size_current' <= Capacity \/ Cardinality(DOMAIN entries') = 1
  <2>1. CASE size_current <= Capacity
    BY <1>1, <1>3, <2>1, InvFacts
  <2>2. CASE ~ (size_current <= Capacity)
    <3>1. Cardinality(DOMAIN entries) = 1
      BY <1>1, <2>2 DEF IndInv, FitsOrAlone
    <3>2. DOMAIN entries' = {}
      <4>1. IsFiniteSet(DOMAIN entries)
        BY InvFacts DEF Countable
      <4>2. PICK x : DOMAIN entries = {x}
        BY <3>1, <4>1, FS_Singleton
      <4> QED BY <1>1, <4>2 DEF Without, Restrict
    <3>3. size_current' = 0
      BY <1>2, <1>5, <3>2, TotalEmpty
    <3> QED BY <3>3
  <2> QED BY <2>1, <2>2
<1> QED BY <1>1, <1>4, <1>5, <1>6, NextInv

\* A drain empties all.
LEMMA DrainInv ==
  ASSUME IndInv, Drain
  PROVE  IndInv'
<1>1. /\ ins = NoInsert /\ ins' = ins /\ entries' = << >> /\ DOMAIN entries' = {}
      /\ buckets' = [p \in Policies |-> NewBucket] /\ size_current' = 0
  BY DEF Drain
<1>2. Counted' = entries'
  BY <1>1 DEF Counted
<1>3. BucketsOK(buckets') /\ Partition(buckets', Counted')
  BY <1>1, <1>2, NewBucketOK DEF BucketsOK, Partition
<1>4. Countable(entries') /\ TotalSize(entries') = 0
  BY <1>1, TotalEmpty
<1> QED BY <1>1, <1>2, <1>3, <1>4, MapsEmpty, NextInv

\* No step changes the invariant.
LEMMA StepInv == IndInv /\ [Next]_vars => IndInv'
<1> SUFFICES ASSUME IndInv, [Next]_vars PROVE IndInv'
  OBVIOUS
<1>1. ASSUME NEW k \in Keys, NEW size \in Sizes, NEW policy \in Policies,
             BeginInsert(k, size, policy)
      PROVE  IndInv'
  BY <1>1, BeginInsertInv
<1>2. CASE InsertStep
  <2>1. CASE StartSweep   BY <2>1, StartSweepInv
  <2>2. CASE NextBucket   BY <2>2, NextBucketInv
  <2>3. CASE PassOver     BY <2>3, PassOverInv
  <2>4. CASE EvictCold    BY <2>4, EvictInv DEF EvictCold
  <2>5. CASE ForceEvict   BY <2>5, EvictInv DEF ForceEvict
  <2>6. CASE FinishInsert BY <2>6, FinishInsertInv
  <2> QED BY <1>2, <2>1, <2>2, <2>3, <2>4, <2>5, <2>6 DEF InsertStep
<1>3. ASSUME NEW k \in Keys, GetRef(k) PROVE IndInv'
  BY <1>3, GetRefInv
<1>4. ASSUME NEW k \in Keys, Remove(k) PROVE IndInv'
  BY <1>4, RemoveInv
<1>5. CASE Drain
  BY <1>5, DrainInv
<1>6. CASE UNCHANGED vars
  BY <1>6 DEF vars, IndInv, TypeOK, BucketsPartition, Partition, Accounted,
     FitsOrAlone, Counted, Bucket
<1> QED BY <1>1, <1>2, <1>3, <1>4, <1>5, <1>6 DEF Next
-----------------------------------------------------------------------------
\* Every reachable state satisfies the inductive invariant.
THEOREM Invariant == Spec => []IndInv
BY InitInv, StepInv, PTL DEF Spec

\* No variable ever leaves its type: size_current, a usize in the code, never
\* wraps below zero in a subtraction, and no frequency passes its saturation.
THEOREM TypeCorrect == Spec => []TypeOK
<1>1. IndInv => TypeOK
  BY DEF IndInv
<1> QED BY <1>1, Invariant, PTL

\* Whatever swap_remove moves, the buckets always partition the counted keys.
THEOREM BucketsPartitionKeys == Spec => []BucketsPartition
<1>1. IndInv => BucketsPartition
  BY DEF IndInv
<1> QED BY <1>1, Invariant, PTL

\* Neither a saved hand nor the hand of a sweep ever misses a key, so the lookups
\* of evict_from_bucket whose failure would end it early never fail.
THEOREM HandsInBounds == Spec => []HandInBounds
<1>1. IndInv => HandInBounds
  BY SweepFacts DEF IndInv, HandInBounds
<1> QED BY <1>1, Invariant, PTL

\* size_current is always the number of bytes of the counted entries, and the
\* statistics of an insert those of the entries it evicted.
THEOREM BytesAccounted == Spec => []Accounted
<1>1. IndInv => Accounted
  BY DEF IndInv
<1> QED BY <1>1, Invariant, PTL

\* After every operation the shard fits, or holds one entry that cannot fit.
THEOREM CapacityKept == Spec => []FitsOrAlone
<1>1. IndInv => FitsOrAlone
  BY DEF IndInv
<1> QED BY <1>1, Invariant, PTL
-----------------------------------------------------------------------------
\* Unlinking a key from one bucket, or linking one, leaves the entry under each
\* hand under it as long as it is in the bucket.
HandKept(b, c) ==
  b.list # << >> /\ Holds(c, KeyAt(b, b.hand)) => KeyAt(c, c.hand) = KeyAt(b, b.hand)

\* Unlinking a key keeps the hand of every bucket.
LEMMA UnlinkHand ==
  ASSUME NEW bs, BucketsOK(bs), NEW q \in Policies, NEW k, NEW p \in Policies
  PROVE  HandKept(bs[p], Unlink(bs, q, k)[p])
<1>1. bs[p] \in BucketType(Keys) /\ NoRepeat(bs[p]) /\ HandOK(bs[p])
  BY DEF BucketsOK
<1>2. CASE p # q
  BY <1>2 DEF Unlink, HandKept, BucketsOK
<1>3. CASE p = q
  <2>1. Unlink(bs, q, k)[p] = BucketRemove(bs[p], k)
    BY <1>3 DEF Unlink, BucketsOK
  <2>2. CASE k = KeyAt(bs[p], bs[p].hand)
    <3>1. KeysOf(BucketRemove(bs[p], k)) = KeysOf(bs[p]) \ {k}
      BY <1>1, BucketRemoveOK
    <3> QED BY <2>1, <2>2, <3>1 DEF HandKept, Holds
  <2>3. CASE k # KeyAt(bs[p], bs[p].hand)
    BY <1>1, <2>1, <2>3, BucketRemoveHand DEF HandKept
  <2> QED BY <2>2, <2>3
<1> QED BY <1>2, <1>3

\* So does linking one.
LEMMA LinkHand ==
  ASSUME NEW bs, BucketsOK(bs), NEW q \in Policies, NEW k \in Keys, NEW p \in Policies
  PROVE  HandKept(bs[p], Link(bs, q, k)[p])
<1>1. bs[p] \in BucketType(Keys) /\ HandOK(bs[p])
  BY DEF BucketsOK
<1>2. CASE p # q
  BY <1>2 DEF Link, HandKept, BucketsOK
<1>3. CASE p = q
  <2>1. Link(bs, q, k)[p] = BucketInsert(bs[p], k)
    BY <1>3 DEF Link, BucketsOK
  <2> QED BY <1>1, <2>1, BucketInsertHand DEF HandKept
<1> QED BY <1>2, <1>3

\* So does every step but those of a sweep.
LEMMA StepHand ==
  ASSUME IndInv, Next, ins.pc # "sweep", NEW p \in Policies
  PROVE  HandKept(buckets[p], buckets'[p])
<1>1. ASSUME NEW k \in Keys, NEW size \in Sizes, NEW policy \in Policies,
             BeginInsert(k, size, policy)
      PROVE  HandKept(buckets[p], buckets'[p])
  <2>1. CASE k \in DOMAIN entries
    <3>1. entries[k].policy \in Policies /\ BucketsOK(buckets)
      BY <2>1, InvFacts, MapsEntry
    <3>2. buckets' = Unlink(buckets, entries[k].policy, k)
      BY <1>1, <2>1 DEF BeginInsert
    <3> QED BY <3>1, <3>2, UnlinkHand
  <2>2. CASE k \notin DOMAIN entries
    BY <1>1, <2>2 DEF BeginInsert, HandKept
  <2> QED BY <2>1, <2>2
<1>2. CASE InsertStep
  <2>1. CASE StartSweep \/ NextBucket \/ PassOver
    BY <2>1 DEF StartSweep, NextBucket, PassOver, HandKept
  <2>2. ~ EvictCold /\ ~ ForceEvict
    BY DEF EvictCold, ForceEvict
  <2>3. CASE FinishInsert
    <3>1. ins # NoInsert
      BY <2>3 DEF FinishInsert, NoInsert
    <3>2. ins.entry.policy \in Policies /\ ins.key \in Keys /\ BucketsOK(buckets)
      BY <3>1, InsertFacts, InvFacts
    <3>3. buckets' = Link(buckets, ins.entry.policy, ins.key)
      BY <2>3 DEF FinishInsert
    <3> QED BY <3>2, <3>3, LinkHand
  <2> QED BY <1>2, <2>1, <2>2, <2>3 DEF InsertStep
<1>3. ASSUME NEW k \in Keys, GetRef(k) PROVE HandKept(buckets[p], buckets'[p])
  BY <1>3 DEF GetRef, HandKept
<1>4. ASSUME NEW k \in Keys, Remove(k) PROVE HandKept(buckets[p], buckets'[p])
  <2>1. /\ k \in DOMAIN entries
        /\ buckets' = Unlink(buckets, entries[k].policy, k)
    BY <1>4 DEF Remove
  <2>2. entries[k].policy \in Policies /\ BucketsOK(buckets)
    BY <2>1, InvFacts, MapsEntry
  <2> QED BY <2>1, <2>2, UnlinkHand
<1>5. CASE Drain
  <2>1. buckets'[p] = NewBucket
    BY <1>5 DEF Drain
  <2>2. KeysOf(NewBucket) = {}
    BY NewBucketOK
  <2> QED BY <2>1, <2>2 DEF HandKept, Holds
<1> QED BY <1>1, <1>2, <1>3, <1>4, <1>5 DEF Next

\* Between sweeps the entry under a hand keeps its turn, whatever swap_remove
\* moves, until it leaves the bucket.
THEOREM TurnsAreKept == Spec => HandKeepsItsEntry
<1> DEFINE Kept ==
      \A p \in Policies :
        LET b == buckets[p]
        IN  /\ b.list # << >>
            /\ ins.pc # "sweep"
            /\ Holds(b', KeyAt(b, b.hand))
            => KeyAt(b', b.hand') = KeyAt(b, b.hand)
<1>1. IndInv /\ [Next]_vars => [Kept]_vars
  <2> SUFFICES ASSUME IndInv, Next, ins.pc # "sweep", NEW p \in Policies
               PROVE  LET b == buckets[p]
                      IN  /\ b.list # << >> /\ Holds(b', KeyAt(b, b.hand))
                          => KeyAt(b', b.hand') = KeyAt(b, b.hand)
    OBVIOUS
  <2> QED BY StepHand DEF HandKept
<1> QED BY <1>1, Invariant, PTL DEF Spec, HandKeepsItsEntry
-----------------------------------------------------------------------------
(* A shard implements EvictingStore: the eviction loop, whose steps change  *)
(* a bucket, a hand or a frequency at a time, does as a whole what one      *)
(* insert of the abstract store does.  On top of IndInv this needs          *)
(* VictimsNeeded, which relates the victims so far to the buckets the loop  *)
(* has still to reach and to the room that is left.                         *)

\* No step of an insert, and no other step, makes VictimsNeeded false.
LEMMA NeededInit == Init => VictimsNeeded
BY DEF Init, VictimsNeeded

\* A sweep starts while the victims so far were needed.
LEMMA NeededStart ==
  ASSUME IndInv, VictimsNeeded, StartSweep
  PROVE  VictimsNeeded'
<1>1. ins # NoInsert
  BY DEF StartSweep, NoInsert
<1>2. ins \in Inserts /\ ins.entry.size \in Nat /\ size_current \in Nat
  BY <1>1, InsertFacts, InvFacts
<1>3. /\ ins'.entry = ins.entry /\ ins'.evicted = ins.evicted
      /\ ins'.policy_idx = ins.policy_idx /\ size_current' = size_current
  BY <1>2 DEF StartSweep, Inserts
<1>4. size_current + ins.entry.size > Capacity
  BY <1>2 DEF StartSweep, Fits
<1> QED BY <1>1, <1>3, <1>4 DEF VictimsNeeded

\* Going to the next bucket takes no victim.
LEMMA NeededNext ==
  ASSUME IndInv, VictimsNeeded, NextBucket
  PROVE  VictimsNeeded'
<1>1. ins # NoInsert
  BY DEF NextBucket
<1>2. ins \in Inserts /\ ins.evicted \in EntryMaps /\ ins.policy_idx \in -1 .. 2
  BY <1>1, InsertFacts
<1>3. /\ ins'.entry = ins.entry /\ ins'.evicted = ins.evicted /\ ins'.pc = "evict"
      /\ ins'.policy_idx = ins.policy_idx - 1 /\ size_current' = size_current
  BY <1>2 DEF NextBucket, Inserts
<1>4. \A v \in DOMAIN ins.evicted : ins.evicted[v].policy \in 0 .. 2
  BY <1>2, MapsEntry DEF Policies
<1>5. \A v \in DOMAIN ins.evicted : ins.evicted[v].policy >= ins.policy_idx - 1
  BY <1>1, <1>2, <1>4 DEF VictimsNeeded
<1> QED BY <1>1, <1>3, <1>5 DEF VictimsNeeded

\* Passing over an entry takes none either.
LEMMA NeededPassOver ==
  ASSUME IndInv, VictimsNeeded, PassOver
  PROVE  VictimsNeeded'
<1>1. ins # NoInsert /\ ins.pc = "sweep"
  BY SweepFacts DEF PassOver
<1>2. ins \in Inserts
  BY <1>1, InsertFacts
<1>3. /\ ins'.entry = ins.entry /\ ins'.evicted = ins.evicted /\ ins'.pc = ins.pc
      /\ ins'.policy_idx = ins.policy_idx /\ size_current' = size_current
  BY <1>2 DEF PassOver, Inserts
<1> QED BY <1>1, <1>3 DEF VictimsNeeded

\* The key evicted is the last that was needed.
LEMMA NeededEvict ==
  ASSUME IndInv, VictimsNeeded, ins.pc = "sweep", Evict(HandKey)
  PROVE  VictimsNeeded'
<1> DEFINE k == HandKey
<1>1. /\ ins # NoInsert /\ k \in DOMAIN entries /\ k \notin DOMAIN ins.evicted
      /\ entries[k].policy = ins.policy_idx /\ entries[k].size \in Nat
      /\ ins \in Inserts /\ ins.entry.size \in Nat /\ size_current \in Nat
      /\ ins.policy_idx \in Policies
  BY SweepFacts, InsertFacts, InvFacts, MapsEntry
<1>2. /\ size_current' = size_current - entries[k].size
      /\ ins'.entry = ins.entry /\ ins'.policy_idx = ins.policy_idx
      /\ ins'.pc = "evict" /\ ins'.evicted = With(ins.evicted, k, entries[k])
  BY <1>1 DEF Evict, Inserts
<1> HIDE DEF k
<1>3. /\ DOMAIN ins'.evicted = DOMAIN ins.evicted \cup {k}
      /\ ins'.evicted[k] = entries[k]
      /\ \A v \in DOMAIN ins.evicted : ins'.evicted[v] = ins.evicted[v]
  <2>1. ins'.evicted = With(ins.evicted, k, entries[k])
    BY <1>2
  <2>2. k \notin DOMAIN ins.evicted
    BY <1>1
  <2> QED BY <2>1, <2>2 DEF With
<1>4. \A v \in DOMAIN ins'.evicted : ins'.evicted[v].policy >= ins.policy_idx
  BY <1>1, <1>3 DEF VictimsNeeded, Policies
<1>5. size_current + ins.entry.size > Capacity
  BY <1>1 DEF VictimsNeeded
<1>6. size_current' + ins.entry.size + ins'.evicted[k].size > Capacity
  BY <1>1, <1>2, <1>3, <1>5
<1>7. \E last \in DOMAIN ins'.evicted :
        /\ size_current' + ins.entry.size + ins'.evicted[last].size > Capacity
        /\ \A v \in DOMAIN ins'.evicted :
             ins'.evicted[v].policy >= ins'.evicted[last].policy
  BY <1>1, <1>3, <1>4, <1>6
<1> QED BY <1>2, <1>4, <1>7 DEF VictimsNeeded

\* No step takes a victim that was not needed.
LEMMA NeededStep ==
  IndInv /\ VictimsNeeded /\ [Next]_vars => VictimsNeeded'
<1> SUFFICES ASSUME IndInv, VictimsNeeded, [Next]_vars PROVE VictimsNeeded'
  OBVIOUS
<1>1. ASSUME NEW k \in Keys, NEW size \in Sizes, NEW policy \in Policies,
             BeginInsert(k, size, policy)
      PROVE  VictimsNeeded'
  <2>1. DOMAIN ins'.evicted = {} /\ ins'.pc = "evict"
    BY <1>1 DEF BeginInsert, NewInsert
  <2> QED BY <2>1 DEF VictimsNeeded
<1>2. CASE InsertStep
  <2>1. CASE StartSweep   BY <2>1, NeededStart
  <2>2. CASE NextBucket   BY <2>2, NeededNext
  <2>3. CASE PassOver     BY <2>3, NeededPassOver
  <2>4. CASE EvictCold    BY <2>4, NeededEvict DEF EvictCold
  <2>5. CASE ForceEvict   BY <2>5, NeededEvict DEF ForceEvict
  <2>6. CASE FinishInsert BY <2>6 DEF FinishInsert, VictimsNeeded
  <2> QED BY <1>2, <2>1, <2>2, <2>3, <2>4, <2>5, <2>6 DEF InsertStep
<1>3. ASSUME NEW k \in Keys, GetRef(k) \/ Remove(k) PROVE VictimsNeeded'
  BY <1>3 DEF GetRef, Remove, VictimsNeeded
<1>4. CASE Drain
  BY <1>4 DEF Drain, VictimsNeeded
<1>5. CASE UNCHANGED vars
  BY <1>5 DEF vars, VictimsNeeded
<1> QED BY <1>1, <1>2, <1>3, <1>4, <1>5 DEF Next

\* Every victim of an insert is one it had to take: none came from a bucket the
\* loop had still to reach, and without the last one there was no room.
THEOREM OnlyNeededVictims == Spec => []VictimsNeeded
BY NeededInit, NeededStep, Invariant, PTL DEF Spec
-----------------------------------------------------------------------------
\* The entries an insert under way has evicted, and what Store shows for a key.
Evicted == IF ins = NoInsert THEN << >> ELSE ins.evicted
Shown(k) == IF k \in DOMAIN Evicted THEN Evicted[k] ELSE entries[k]

\* What a map of entries looks like in the abstract store.
Shape(m) == [k \in DOMAIN m |-> [size |-> m[k].size, policy |-> m[k].policy]]

\* What the abstract store shows: the entries and those evicted meanwhile.
LEMMA StoreDef ==
  /\ DOMAIN Store = DOMAIN entries \cup DOMAIN Evicted
  /\ \A k \in DOMAIN Store :
       Store[k] = [size |-> Shown(k).size, policy |-> Shown(k).policy]
BY DEF Store, Evicted, Shown

\* Between inserts the abstract store is the map of the entries.
LEMMA StoreIdle ==
  /\ ins = NoInsert => Store = Shape(entries)
  /\ ins' = NoInsert => Store' = Shape(entries')
<1>1. DOMAIN << >> = {}
  OBVIOUS
<1>2. ins = NoInsert => Store = Shape(entries)
  BY <1>1 DEF Store, Shape
<1>3. ins' = NoInsert => Store' = Shape(entries')
  BY <1>1 DEF Store, Shape
<1> QED BY <1>2, <1>3

\* A step that shows the same size and policy for the same keys is a stutter.
LEMMA StoreSame ==
  ASSUME DOMAIN entries' \cup DOMAIN Evicted' = DOMAIN entries \cup DOMAIN Evicted,
         \A k \in DOMAIN entries \cup DOMAIN Evicted :
           Shown(k)'.size = Shown(k).size /\ Shown(k)'.policy = Shown(k).policy
  PROVE  Store' = Store
BY DEF Store, Evicted, Shown

\* Maps with the same keys, sizes and policies look the same.
LEMMA ShapeSame ==
  ASSUME NEW m, NEW n, SameShape(m, n)
  PROVE  Shape(m) = Shape(n)
BY DEF SameShape, Shape

\* The shape of a map less some keys.
LEMMA ShapeWithout ==
  ASSUME NEW m, NEW S
  PROVE  Shape(Without(m, S)) = Without(Shape(m), S)
BY DEF Shape, Without, Restrict

\* The operators of Accounting mean the same in Abstract.
LEMMA SameAccounting ==
  /\ \A m, S : Abstract!Without(m, S) = Without(m, S)
  /\ \A m, k, e : Abstract!With(m, k, e) = With(m, k, e)
  /\ \A m : Abstract!TotalSize(m) = TotalSize(m)
<1>1. \A m, S : Abstract!Without(m, S) = Without(m, S)
  BY DEF Abstract!Without, Without, Abstract!Restrict, Restrict
<1>2. \A m, k, e : Abstract!With(m, k, e) = With(m, k, e)
  BY DEF Abstract!With, With
<1>3. \A m : Abstract!TotalSize(m) = TotalSize(m)
  BY DEF Abstract!TotalSize, TotalSize, Abstract!BytesOf, BytesOf,
         Abstract!Cardinality, Cardinality
<1> QED BY <1>1, <1>2, <1>3
-----------------------------------------------------------------------------
\* The steps of an insert before the last one are stutters.
LEMMA BeginInsertStutters ==
  ASSUME NEW k \in Keys, NEW size \in Sizes, NEW policy \in Policies,
         BeginInsert(k, size, policy)
  PROVE  Store' = Store
<1>1. ins = NoInsert /\ entries' = entries /\ ins' = NewInsert(k, size, policy)
  BY DEF BeginInsert
<1>2. Evicted = << >> /\ Evicted' = << >>
  BY <1>1 DEF Evicted, NewInsert
<1> QED BY <1>1, <1>2, StoreSame DEF Shown

\* A step of a sweep that takes no victim does not show.
LEMMA SameVictimsStutters ==
  ASSUME ins # NoInsert, ins' # NoInsert, ins'.evicted = ins.evicted,
         SameShape(entries, entries')
  PROVE  Store' = Store
<1>1. Evicted' = Evicted
  BY DEF Evicted
<1> QED BY <1>1, StoreSame DEF Shown, SameShape

\* Going from bucket to bucket does not show.
LEMMA LoopStutters ==
  ASSUME IndInv, StartSweep \/ NextBucket
  PROVE  Store' = Store
<1>1. ins # NoInsert
  BY DEF StartSweep, NextBucket, NoInsert
<1>2. ins \in Inserts
  BY <1>1, InsertFacts
<1>3. ins' \in Inserts /\ ins'.evicted = ins.evicted /\ entries' = entries
  <2>1. IndInv'
    BY StartSweepInv, NextBucketInv
  <2>2. /\ ins'.pc # "idle" /\ ins'.evicted = ins.evicted /\ entries' = entries
    BY <1>2 DEF StartSweep, NextBucket, Inserts
  <2> QED BY <2>1, <2>2 DEF IndInv, TypeOK, NoInsert
<1> QED BY <1>1, <1>3, InsertsIdle, SameVictimsStutters DEF SameShape
\* Decaying an entry, or setting its bit, changes nothing that Store shows.
LEMMA PassOverShape ==
  ASSUME IndInv, PassOver
  PROVE  SameShape(entries, entries')
<1>1. HandKey \in DOMAIN entries /\ entries[HandKey] \in Entry
  BY SweepFacts, InvFacts, MapsEntry DEF PassOver
<1>2. /\ Decay(entries[HandKey]).size = entries[HandKey].size
      /\ Decay(entries[HandKey]).policy = entries[HandKey].policy
  BY <1>1 DEF Decay, Entry
<1>3. entries' = [entries EXCEPT ![HandKey] = Decay(entries[HandKey])]
  BY DEF PassOver
<1> QED BY <1>1, <1>2, <1>3 DEF SameShape

\* Nor does passing over an entry.
LEMMA PassOverStutters ==
  ASSUME IndInv, PassOver
  PROVE  Store' = Store
<1>1. ins # NoInsert /\ ins \in Inserts /\ ins.pc = "sweep"
  BY SweepFacts, InsertFacts DEF PassOver
<1>2. ins'.evicted = ins.evicted /\ ins'.pc = "sweep"
  BY <1>1 DEF PassOver, Inserts
<1>3. ins' # NoInsert
  BY <1>2 DEF NoInsert
<1> QED BY <1>1, <1>2, <1>3, PassOverShape, SameVictimsStutters

\* An evicted entry is in the abstract store until the insert returns.
LEMMA EvictStutters ==
  ASSUME IndInv, ins.pc = "sweep", Evict(HandKey)
  PROVE  Store' = Store
<1> DEFINE k == HandKey
<1>1. /\ ins # NoInsert /\ ins \in Inserts /\ k \in DOMAIN entries
      /\ k \notin DOMAIN ins.evicted
  BY SweepFacts, InsertFacts
<1>2. /\ entries' = Without(entries, {k})
      /\ ins'.evicted = With(ins.evicted, k, entries[k]) /\ ins'.pc = "evict"
  BY <1>1 DEF Evict, Inserts
<1> HIDE DEF k
<1>3. Evicted = ins.evicted /\ Evicted' = With(ins.evicted, k, entries[k])
  BY <1>1, <1>2 DEF Evicted, NoInsert
<1>4. DOMAIN entries' \cup DOMAIN Evicted' = DOMAIN entries \cup DOMAIN Evicted
  BY <1>1, <1>2, <1>3 DEF With, Without, Restrict
<1>5. ASSUME NEW j \in DOMAIN entries \cup DOMAIN Evicted
      PROVE  Shown(j)' = Shown(j)
  <2>1. Shown(j)' = IF j \in DOMAIN Evicted' THEN Evicted'[j] ELSE entries'[j]
    BY DEF Shown
  <2>2. CASE j = k
    BY <1>1, <1>3, <2>1, <2>2 DEF With, Shown
  <2>3. CASE j # k
    <3>1. /\ j \in DOMAIN Evicted' <=> j \in DOMAIN Evicted
          /\ j \in DOMAIN Evicted => Evicted'[j] = Evicted[j]
      BY <1>3, <2>3 DEF With
    <3>2. j \notin DOMAIN Evicted => entries'[j] = entries[j]
      BY <1>2, <1>5, <2>3 DEF Without, Restrict
    <3> QED BY <2>1, <3>1, <3>2 DEF Shown
  <2> QED BY <2>2, <2>3
<1> QED BY <1>4, <1>5, StoreSame

\* Nor does a lookup.
LEMMA GetRefStutters ==
  ASSUME IndInv, NEW k \in Keys, GetRef(k)
  PROVE  Store' = Store
<1>1. PICK f \in 1 .. MaxFreq :
        entries' = [entries EXCEPT ![k].clock_bit = TRUE, ![k].frequency = f]
  BY DEF GetRef
<1>2. ins = NoInsert /\ ins' = NoInsert /\ k \in DOMAIN entries
  BY DEF GetRef
<1>3. entries[k] \in Entry
  BY <1>2, InvFacts, MapsEntry
<1>4. SameShape(entries, entries')
  BY <1>1, <1>2, <1>3 DEF SameShape, Entry
<1> QED BY <1>2, <1>4, StoreIdle, ShapeSame
-----------------------------------------------------------------------------
\* remove and drain are steps of the abstract store.
LEMMA RemoveImplements ==
  ASSUME NEW k \in Keys, Remove(k)
  PROVE  Abstract!Remove(k)
<1>1. /\ ins = NoInsert /\ ins' = NoInsert /\ k \in DOMAIN entries
      /\ entries' = Without(entries, {k})
  BY DEF Remove
<1>2. Store = Shape(entries) /\ Store' = Shape(entries')
  BY <1>1, StoreIdle
<1>3. k \in DOMAIN Store
  BY <1>1, <1>2 DEF Shape
<1>4. Store' = Without(Store, {k})
  BY <1>1, <1>2, ShapeWithout
<1> QED BY <1>3, <1>4, SameAccounting DEF Abstract!Remove

\* The shape of an empty shard is empty.
LEMMA NoEntriesShape == Shape(<< >>) = << >>
BY DEF Shape

\* A drain is one of the abstract store.
LEMMA DrainImplements ==
  ASSUME Drain
  PROVE  Abstract!Drain
<1>1. ins' = NoInsert /\ entries' = << >>
  BY DEF Drain
<1>2. Store' = << >>
  BY <1>1, StoreIdle, NoEntriesShape
<1> QED BY <1>2 DEF Abstract!Drain, Abstract!NoEntries
-----------------------------------------------------------------------------
\* The map in which an insert chooses its victims: the entries still counted
\* and those already evicted, but not the one being replaced.
Others == Without(Store, {ins.key})

\* Others has the counted entries and the victims so far, which are apart.
LEMMA OthersDef ==
  ASSUME IndInv, ins # NoInsert
  PROVE  /\ DOMAIN Others = DOMAIN Counted \cup DOMAIN ins.evicted
         /\ DOMAIN Counted \cap DOMAIN ins.evicted = {}
         /\ \A k \in DOMAIN Counted : /\ Others[k].size = Counted[k].size
                                      /\ Others[k].policy = Counted[k].policy
         /\ \A k \in DOMAIN ins.evicted : /\ Others[k].size = ins.evicted[k].size
                                          /\ Others[k].policy = ins.evicted[k].policy
<1>1. /\ Counted = Without(entries, {ins.key})
      /\ DOMAIN ins.evicted \cap (DOMAIN entries \cup {ins.key}) = {}
  BY InsertFacts
<1>2. /\ DOMAIN Counted = DOMAIN entries \ {ins.key}
      /\ \A k \in DOMAIN Counted : Counted[k] = entries[k]
  BY <1>1 DEF Without, Restrict
<1>3. Evicted = ins.evicted
  BY DEF Evicted
<1>4. /\ DOMAIN Others = DOMAIN Store \ {ins.key}
      /\ \A k \in DOMAIN Others : Others[k] = Store[k]
  BY DEF Others, Without, Restrict
<1>5. DOMAIN Others = DOMAIN Counted \cup DOMAIN ins.evicted
  BY <1>1, <1>2, <1>3, <1>4, StoreDef
<1>6. \A k \in DOMAIN Others :
        Others[k].size = Shown(k).size /\ Others[k].policy = Shown(k).policy
  <2>1. ASSUME NEW k \in DOMAIN Others
        PROVE  Others[k] = [size |-> Shown(k).size, policy |-> Shown(k).policy]
    BY <1>4, StoreDef
  <2> QED BY <2>1
<1>7. /\ \A k \in DOMAIN Counted : Shown(k) = Counted[k]
      /\ \A k \in DOMAIN ins.evicted : Shown(k) = ins.evicted[k]
  BY <1>1, <1>2, <1>3 DEF Shown
<1>8. DOMAIN Counted \cap DOMAIN ins.evicted = {}
  BY <1>1, <1>2
<1>9. \A k \in DOMAIN Counted : /\ Others[k].size = Counted[k].size
                                 /\ Others[k].policy = Counted[k].policy
  <2>1. TAKE k \in DOMAIN Counted
  <2>2. k \in DOMAIN Others /\ Shown(k) = Counted[k]
    BY <1>5, <1>7
  <2> QED BY <2>2, <1>6
<1>10. \A k \in DOMAIN ins.evicted :
         /\ Others[k].size = ins.evicted[k].size
         /\ Others[k].policy = ins.evicted[k].policy
  <2>1. TAKE k \in DOMAIN ins.evicted
  <2>2. k \in DOMAIN Others /\ Shown(k) = ins.evicted[k]
    BY <1>5, <1>7
  <2> QED BY <2>2, <1>6
<1> QED BY <1>5, <1>8, <1>9, <1>10

\* Without all victims the map is that of the counted entries; with one of them
\* back it is larger by that one.
LEMMA RoomWithout ==
  ASSUME IndInv, ins # NoInsert
  PROVE  /\ TotalSize(Without(Others, DOMAIN ins.evicted)) = size_current
         /\ \A last \in DOMAIN ins.evicted :
              TotalSize(Without(Others, DOMAIN ins.evicted \ {last}))
                = size_current + ins.evicted[last].size
<1> DEFINE V == DOMAIN ins.evicted
<1>1. Countable(Counted) /\ size_current = TotalSize(Counted)
  BY InvFacts
<1>2. TotalSize(Without(Others, V)) = TotalSize(Counted)
  <2> DEFINE rest == Without(Others, V)
  <2>1. /\ DOMAIN rest = DOMAIN Others \ V
        /\ \A k \in DOMAIN rest : rest[k] = Others[k]
    BY DEF Without, Restrict
  <2> HIDE DEF rest
  <2>2. SameShape(Counted, rest)
    BY <2>1, OthersDef DEF SameShape
  <2>3. TotalSize(Counted) = TotalSize(rest)
    BY <2>2, SameShapeSame
  <2> QED BY <2>3 DEF rest
<1>3. ASSUME NEW last \in V
      PROVE  TotalSize(Without(Others, V \ {last}))
               = size_current + ins.evicted[last].size
  <2> DEFINE more == Without(Others, V \ {last})
  <2>1. /\ DOMAIN more = DOMAIN Others \ (V \ {last})
        /\ \A k \in DOMAIN more : more[k] = Others[k]
    BY DEF Without, Restrict
  <2> HIDE DEF more
  <2>2. /\ last \notin DOMAIN Counted
        /\ DOMAIN more = DOMAIN Counted \cup {last}
        /\ \A k \in DOMAIN Counted : more[k].size = Counted[k].size
        /\ more[last].size = ins.evicted[last].size
    BY <2>1, OthersDef
  <2>3. more[last].size \in Nat
    BY <2>2, InsertFacts, MapsEntry
  <2>4. TotalSize(more) = TotalSize(Counted) + more[last].size
    BY <1>1, <2>2, <2>3, TotalAdd
  <2> QED BY <1>1, <2>2, <2>4 DEF more
<1> QED BY <1>1, <1>2, <1>3

\* The entries still counted are in the buckets the loop has not left behind.
LEMMA CountedAhead ==
  ASSUME IndInv, ins # NoInsert, NEW k \in DOMAIN Counted
  PROVE  Counted[k].policy \in Policies /\ Counted[k].policy <= ins.policy_idx
<1>1. Counted[k].policy \in Policies /\ ins.policy_idx \in -1 .. 2
  BY InvFacts, MapsEntry, InsertFacts
<1>2. k \in KeysOf(buckets[Counted[k].policy])
  BY <1>1, InvFacts DEF Partition
<1>3. buckets[Counted[k].policy].list # << >>
  BY <1>2 DEF KeysOf
<1> QED BY <1>1, <1>3, InsertFacts DEF Policies

\* When the loop ends, its victims are such as the abstract store may choose.
LEMMA VictimsChosen ==
  ASSUME IndInv, VictimsNeeded, FinishInsert
  PROVE  DOMAIN ins.evicted \in Abstract!Victims(Others, ins.entry.size)
<1> DEFINE V == DOMAIN ins.evicted
           Room(S) == TotalSize(Without(Others, S)) + ins.entry.size <= Capacity
<1>1. /\ ins # NoInsert /\ ins \in Inserts /\ ins.entry.size \in Nat
      /\ size_current \in Nat /\ ins.evicted \in EntryMaps
      /\ ins.policy_idx \in -1 .. 2
  <2>1. ins # NoInsert
    BY DEF FinishInsert, NoInsert
  <2> QED BY <2>1, InsertFacts, InvFacts
<1>2. V \in SUBSET DOMAIN Others
  BY <1>1, OthersDef
<1>3. Room(V) \/ V = DOMAIN Others
  <2>1. CASE Fits
    BY <1>1, <2>1, RoomWithout DEF Fits
  <2>2. CASE ins.policy_idx < 0
    <3>1. ASSUME NEW k \in DOMAIN Counted PROVE FALSE
      BY <1>1, <2>2, CountedAhead DEF Policies
    <3> QED BY <1>1, <3>1, OthersDef
  <2> QED BY <2>1, <2>2 DEF FinishInsert
<1>4. ASSUME NEW v \in V, NEW s \in DOMAIN Others \ V
      PROVE  Others[v].policy >= Others[s].policy
  <2>1. s \in DOMAIN Counted /\ Others[s].policy = Counted[s].policy
    BY <1>1, OthersDef
  <2>2. Counted[s].policy \in Policies /\ Counted[s].policy <= ins.policy_idx
    BY <1>1, <2>1, CountedAhead
  <2>3. /\ ins.evicted[v].policy \in Policies
        /\ Others[v].policy = ins.evicted[v].policy
    BY <1>1, OthersDef, MapsEntry
  <2>4. ins.evicted[v].policy >= ins.policy_idx
    BY <1>1 DEF VictimsNeeded
  <2> QED BY <1>1, <2>1, <2>2, <2>3, <2>4 DEF Policies
<1>5. V # {} => \E last \in V :
        /\ ~ Room(V \ {last})
        /\ \A v \in V : Others[v].policy >= Others[last].policy
  <2> SUFFICES ASSUME V # {}
               PROVE  \E last \in V :
                        /\ ~ Room(V \ {last})
                        /\ \A v \in V : Others[v].policy >= Others[last].policy
    OBVIOUS
  <2>1. PICK last \in V :
          /\ size_current + ins.entry.size + ins.evicted[last].size > Capacity
          /\ \A v \in V : ins.evicted[v].policy >= ins.evicted[last].policy
    BY <1>1 DEF VictimsNeeded
  <2>2. ins.evicted[last].size \in Nat
    BY <1>1, MapsEntry
  <2>3. TotalSize(Without(Others, V \ {last})) = size_current + ins.evicted[last].size
    BY <1>1, RoomWithout
  <2>4. ~ Room(V \ {last})
    BY <1>1, <2>1, <2>2, <2>3
  <2>5. \A v \in V : Others[v].policy >= Others[last].policy
    BY <1>1, <2>1, OthersDef
  <2> QED BY <2>4, <2>5
<1> QED BY <1>2, <1>3, <1>4, <1>5, SameAccounting DEF Abstract!Victims
\* The last step of an insert is the insert of the abstract store.
LEMMA FinishImplements ==
  ASSUME IndInv, VictimsNeeded, FinishInsert
  PROVE  /\ ins.key \in Keys /\ ins.entry.size \in Sizes /\ ins.entry.policy \in 0 .. 2
         /\ Abstract!Insert(ins.key, ins.entry.size, ins.entry.policy)
<1> DEFINE k == ins.key
           e == ins.entry
           V == DOMAIN ins.evicted
           shown == [size |-> e.size, policy |-> e.policy]
           rest == Without(Others, V)
<1>1. /\ ins # NoInsert /\ k \in Keys /\ e \in Entry
      /\ e.size \in Sizes /\ e.policy \in 0 .. 2
      /\ Counted = Without(entries, {k})
  <2>1. ins # NoInsert
    BY DEF FinishInsert, NoInsert
  <2>2. k \in Keys /\ e \in Entry /\ Counted = Without(entries, {k})
    BY <2>1, InsertFacts
  <2> QED BY <2>1, <2>2 DEF Entry, Policies
<1>2. ins' = NoInsert /\ entries' = With(entries, k, e)
  BY DEF FinishInsert
<1>3. Store' = Shape(entries')
  BY <1>2, StoreIdle
<1>4. /\ DOMAIN rest = DOMAIN Others \ V
      /\ \A j \in DOMAIN rest : rest[j] = Others[j]
  BY DEF Without, Restrict
<1>5. /\ DOMAIN Others = DOMAIN Counted \cup V
      /\ DOMAIN Counted \cap V = {}
      /\ \A j \in DOMAIN Counted : /\ Others[j].size = Counted[j].size
                                   /\ Others[j].policy = Counted[j].policy
  BY <1>1, OthersDef
<1>6. \A j \in DOMAIN Others :
        Others[j] = [size |-> Others[j].size, policy |-> Others[j].policy]
  <2>1. /\ DOMAIN Others = DOMAIN Store \ {k}
        /\ \A j \in DOMAIN Others : Others[j] = Store[j]
    BY DEF Others, Without, Restrict
  <2>2. ASSUME NEW j \in DOMAIN Others
        PROVE  Others[j] = [size |-> Others[j].size, policy |-> Others[j].policy]
    <3>1. Others[j] = [size |-> Shown(j).size, policy |-> Shown(j).policy]
      BY <2>1, StoreDef
    <3> QED BY <3>1
  <2> QED BY <2>2
<1>7. /\ DOMAIN Counted = DOMAIN entries \ {k}
      /\ \A j \in DOMAIN Counted : Counted[j] = entries[j]
  BY <1>1 DEF Without, Restrict
<1> HIDE DEF k, e, V, rest
<1>8. Store' = With(rest, k, shown)
  <2>1. DOMAIN rest = DOMAIN Counted /\ DOMAIN Counted = DOMAIN entries \ {k}
    BY <1>4, <1>5, <1>7
  <2>2. \A j \in DOMAIN Counted :
          rest[j] = [size |-> entries[j].size, policy |-> entries[j].policy]
    BY <1>4, <1>5, <1>6, <1>7
  <2>3. Shape(entries')
          = [j \in DOMAIN entries \cup {k} |->
               [size |-> With(entries, k, e)[j].size,
                policy |-> With(entries, k, e)[j].policy]]
    BY <1>2 DEF Shape, With
  <2>4. ASSUME NEW j \in DOMAIN entries \cup {k}
        PROVE  [size |-> With(entries, k, e)[j].size,
                policy |-> With(entries, k, e)[j].policy]
                 = IF j = k THEN shown ELSE rest[j]
    BY <2>1, <2>2 DEF With
  <2>5. With(rest, k, shown)
          = [j \in DOMAIN entries \cup {k} |-> IF j = k THEN shown ELSE rest[j]]
    <3>1. DOMAIN rest \cup {k} = DOMAIN entries \cup {k}
      BY <2>1
    <3> QED BY <3>1 DEF With
  <2> HIDE DEF shown
  <2> QED BY <1>3, <2>3, <2>4, <2>5
<1>9. V \in Abstract!Victims(Others, e.size)
  BY VictimsChosen DEF V, e
<1>10. Others = Abstract!Without(Store, {k}) /\ rest = Abstract!Without(Others, V)
  BY SameAccounting DEF Others, k, rest
<1>11. Store' = Abstract!With(rest, k, [size |-> e.size, policy |-> e.policy])
  BY <1>8, SameAccounting
<1>12. Abstract!Insert(k, e.size, e.policy)
  BY <1>9, <1>10, <1>11 DEF Abstract!Insert
<1> QED BY <1>1, <1>12 DEF k, e
-----------------------------------------------------------------------------
\* An empty shard shows an empty store.
LEMMA InitImplements == Init => Abstract!Init
<1> SUFFICES ASSUME Init PROVE Abstract!Init
  OBVIOUS
<1>1. Store = << >>
  BY StoreIdle, NoEntriesShape DEF Init
<1> QED BY <1>1 DEF Abstract!Init, Abstract!NoEntries

\* Every step of the shard is one of the abstract store, or does not show.
LEMMA StepImplements ==
  IndInv /\ VictimsNeeded /\ [Next]_vars => [Abstract!Next]_Store
<1> SUFFICES ASSUME IndInv, VictimsNeeded, [Next]_vars
             PROVE  [Abstract!Next]_Store
  OBVIOUS
<1>1. ASSUME NEW k \in Keys, NEW size \in Sizes, NEW policy \in Policies,
             BeginInsert(k, size, policy)
      PROVE  [Abstract!Next]_Store
  BY <1>1, BeginInsertStutters
<1>2. CASE InsertStep
  <2>1. CASE StartSweep \/ NextBucket
    BY <2>1, LoopStutters
  <2>2. CASE PassOver
    BY <2>2, PassOverStutters
  <2>3. CASE EvictCold \/ ForceEvict
    BY <2>3, EvictStutters DEF EvictCold, ForceEvict
  <2>4. CASE FinishInsert
    BY <2>4, FinishImplements DEF Abstract!Next
  <2> QED BY <1>2, <2>1, <2>2, <2>3, <2>4 DEF InsertStep
<1>3. ASSUME NEW k \in Keys, GetRef(k) PROVE [Abstract!Next]_Store
  BY <1>3, GetRefStutters
<1>4. ASSUME NEW k \in Keys, Remove(k) PROVE [Abstract!Next]_Store
  BY <1>4, RemoveImplements DEF Abstract!Next
<1>5. CASE Drain
  BY <1>5, DrainImplements DEF Abstract!Next
<1>6. CASE UNCHANGED vars
  BY <1>6 DEF vars, Store
<1> QED BY <1>1, <1>2, <1>3, <1>4, <1>5, <1>6 DEF Next

\* The eviction loop of a shard, over three buckets with their clocks, chooses as
\* a whole what one insert of the abstract store may choose: entries of lower
\* priority first, no more of them than the new entry needs, never the entry it
\* replaces, until there is room or no other entry is left.
THEOREM ShardImplementsStore == Spec => ImplementsStore
BY InitImplements, StepImplements, Invariant, OnlyNeededVictims, PTL
   DEF Spec, ImplementsStore, Abstract!Spec
-----------------------------------------------------------------------------
(* What one sweep of the clock does to the entries, wherever its hand       *)
(* starts and wraps: each entry of the bucket decays once at most, no other *)
(* entry decays, and the victim was cold if any entry of its bucket was.    *)
(* SweepInv says how far a sweep has come.                                  *)

\* The next step of a sweep passes over the index under its hand, and no other.
LEMMA PassedNext ==
  ASSUME NEW n \in Nat, NEW start \in Nat, start < n,
         NEW reach \in Nat, start <= reach, reach < start + n,
         NEW h \in Nat, h = IF reach < n THEN reach ELSE reach - n
  PROVE  /\ h < n
         /\ ~ Passed(h, start, reach, n) /\ Passed(h, start, reach + 1, n)
         /\ \A i \in 0 .. n - 1 : i # h =>
              (Passed(i, start, reach + 1, n) <=> Passed(i, start, reach, n))
         /\ (IF h + 1 >= n THEN 0 ELSE h + 1)
              = IF reach + 1 < n THEN reach + 1 ELSE (reach + 1) - n
BY DEF Passed

\* A sweep that starts has passed over nothing, one that ends over everything.
LEMMA PassedEnds ==
  ASSUME NEW n \in Nat, NEW start \in Nat, start < n, NEW i \in 0 .. n - 1
  PROVE  ~ Passed(i, start, start, n) /\ Passed(i, start, start + n, n)
BY DEF Passed

\* An entry that decays loses one of its warmth.
LEMMA DecayWarmth ==
  ASSUME NEW e \in Entry, ~ Cold(e)
  PROVE  Warmth(Decay(e)) = Warmth(e) - 1 /\ Decay(e).policy = e.policy
<1>1. e.frequency \in 0 .. MaxFreq /\ e.clock_bit \in BOOLEAN
  BY DEF Entry
<1>2. CASE e.clock_bit
  <2>1. Decay(e) = [e EXCEPT !.clock_bit = FALSE]
    BY <1>2 DEF Decay
  <2>2. /\ Decay(e).frequency = e.frequency /\ ~ Decay(e).clock_bit
        /\ Decay(e).policy = e.policy
    BY <2>1 DEF Entry
  <2> QED BY <1>1, <1>2, <2>2 DEF Warmth
<1>3. CASE ~ e.clock_bit
  <2>1. Decay(e) = [e EXCEPT !.frequency = e.frequency - 1]
    BY <1>3 DEF Decay
  <2>2. /\ Decay(e).frequency = e.frequency - 1 /\ ~ Decay(e).clock_bit
        /\ Decay(e).policy = e.policy
    BY <1>3, <2>1 DEF Entry
  <2> QED BY <1>1, <1>3, <2>2 DEF Warmth
<1> QED BY <1>2, <1>3
-----------------------------------------------------------------------------
\* The bucket of a sweep, which the sweep does not change before it evicts.
LEMMA SweepBucket ==
  ASSUME IndInv, ins.pc = "sweep"
  PROVE  /\ ins \in Inserts /\ ins.left \in Nat /\ ins.hand \in Nat
         /\ Len(Bucket.list) \in Nat /\ ins.hand < Len(Bucket.list)
         /\ Bucket.hand \in Nat /\ Bucket.hand < Len(Bucket.list)
         /\ NoRepeat(Bucket)
         /\ KeysOf(Bucket) = {KeyAt(Bucket, i) : i \in 0 .. Len(Bucket.list) - 1}
         /\ \A i, j \in 0 .. Len(Bucket.list) - 1 :
              KeyAt(Bucket, i) = KeyAt(Bucket, j) => i = j
         /\ KeysOf(Bucket) = {k \in DOMAIN Counted : entries[k].policy = ins.policy_idx}
<1>1. ins \in Inserts /\ ins.left \in Nat /\ ins.hand \in Nat
  BY SweepFacts, InsertFacts
<1>2. ins.policy_idx \in Policies /\ ins.hand < Len(Bucket.list)
  BY SweepFacts
<1>3. Bucket \in BucketType(Keys) /\ NoRepeat(Bucket) /\ HandOK(Bucket)
  BY <1>2, InvFacts DEF BucketsOK, Bucket
<1>4. /\ Len(Bucket.list) \in Nat /\ Bucket.hand \in Nat
      /\ DOMAIN Bucket.list = 1 .. Len(Bucket.list)
  BY <1>3 DEF BucketType
<1>5. Bucket.list # << >>
  BY <1>1, <1>2, <1>4
<1>6. Bucket.hand < Len(Bucket.list)
  BY <1>3, <1>5 DEF HandOK
<1>7. KeysOf(Bucket) = {KeyAt(Bucket, i) : i \in 0 .. Len(Bucket.list) - 1}
  <2>1. ASSUME NEW i \in 0 .. Len(Bucket.list) - 1
        PROVE  KeyAt(Bucket, i) \in KeysOf(Bucket)
    BY <1>4 DEF KeyAt, KeysOf
  <2>2. ASSUME NEW k \in KeysOf(Bucket)
        PROVE  \E i \in 0 .. Len(Bucket.list) - 1 : k = KeyAt(Bucket, i)
    <3>1. PICK j \in 1 .. Len(Bucket.list) : k = Bucket.list[j]
      BY <1>4 DEF KeysOf
    <3>2. j - 1 \in 0 .. Len(Bucket.list) - 1 /\ (j - 1) + 1 = j
      BY <1>4
    <3> QED BY <3>1, <3>2 DEF KeyAt
  <2> QED BY <2>1, <2>2
<1>8. \A i, j \in 0 .. Len(Bucket.list) - 1 :
        KeyAt(Bucket, i) = KeyAt(Bucket, j) => i = j
  BY <1>3, <1>4 DEF NoRepeat, KeyAt
<1>9. KeysOf(Bucket) = {k \in DOMAIN Counted : entries[k].policy = ins.policy_idx}
  <2>1. KeysOf(Bucket) = {k \in DOMAIN Counted : Counted[k].policy = ins.policy_idx}
    BY <1>2, InvFacts DEF Partition, Bucket
  <2> QED BY <2>1, InvFacts
<1> QED BY <1>1, <1>2, <1>3, <1>4, <1>6, <1>7, <1>8, <1>9
-----------------------------------------------------------------------------
\* Where SweepInv comes from: a sweep starts, and an iteration passes over a key.
LEMMA StartSweepSweeps ==
  ASSUME IndInv, StartSweep, before' = entries
  PROVE  SweepInv'
<1>1. IndInv' /\ ins'.pc = "sweep"
  <2>1. ins # NoInsert
    BY DEF StartSweep, NoInsert
  <2>2. ins \in Inserts
    BY <2>1, InsertFacts
  <2> QED BY <2>2, StartSweepInv DEF StartSweep, Inserts
<1>2. /\ Bucket' = Bucket /\ ins'.hand = Bucket.hand
      /\ ins'.left = Len(Bucket.list) /\ entries' = entries
  <2>1. ins # NoInsert
    BY DEF StartSweep, NoInsert
  <2>2. ins \in Inserts
    BY <2>1, InsertFacts
  <2> QED BY <2>2 DEF StartSweep, Inserts, Bucket
<1> DEFINE n == Len(Bucket.list)
           start == Bucket.hand
           reach == start + (n - ins'.left)
<1>3. n \in Nat /\ start \in Nat /\ start < n
  <2>1. ins # NoInsert /\ ins.policy_idx >= 0 /\ Bucket.list # << >>
    BY DEF StartSweep, NoInsert
  <2>2. ins.policy_idx \in Policies
    BY <2>1, InsertFacts DEF Policies
  <2>3. Bucket \in BucketType(Keys) /\ HandOK(Bucket)
    BY <2>2, InvFacts DEF BucketsOK, Bucket
  <2> QED BY <2>1, <2>3, BucketKeys DEF BucketType
<1>4. reach = start
  BY <1>2, <1>3
<1>5. entries' \in [DOMAIN entries' -> Entry]
  BY <1>1, MapsDef DEF IndInv, TypeOK
<1>6. \A i \in 0 .. n - 1 : ~ Passed(i, start, start, n)
  BY <1>3, PassedEnds
<1> QED BY <1>2, <1>3, <1>4, <1>5, <1>6 DEF SweepInv

\* Passing over an entry keeps the record of the sweep.
LEMMA PassOverSweeps ==
  ASSUME IndInv, SweepInv, PassOver, before' = before
  PROVE  SweepInv'
<1> DEFINE n == Len(Bucket.list)
           start == Bucket.hand
           reach == start + (n - ins.left)
           h == ins.hand
           k == HandKey
<1>1. /\ ins.pc = "sweep" /\ ins.left > 0 /\ ins \in Inserts
      /\ n \in Nat /\ start \in Nat /\ start < n /\ h \in Nat /\ ins.left \in Nat
      /\ \A i, j \in 0 .. n - 1 : KeyAt(Bucket, i) = KeyAt(Bucket, j) => i = j
      /\ k \in KeysOf(Bucket) /\ k \in DOMAIN entries
  <2>1. ins.pc = "sweep" /\ ins.left > 0
    BY DEF PassOver
  <2>2. HandKey \in DOMAIN Counted /\ HandKey \in DOMAIN entries
        /\ entries[HandKey].policy = ins.policy_idx
    BY <2>1, SweepFacts
  <2> QED BY <2>1, <2>2, SweepBucket
<1>2. /\ ins.left <= n
      /\ h = IF reach < n THEN reach ELSE reach - n
      /\ before \in [DOMAIN entries -> Entry]
      /\ \A i \in 0 .. n - 1 :
           IF Passed(i, start, reach, n)
           THEN /\ ~ Cold(before[KeyAt(Bucket, i)])
                /\ entries[KeyAt(Bucket, i)] = Decay(before[KeyAt(Bucket, i)])
           ELSE entries[KeyAt(Bucket, i)] = before[KeyAt(Bucket, i)]
      /\ \A j \in DOMAIN entries : ~ Holds(Bucket, j) => entries[j] = before[j]
  BY <1>1 DEF SweepInv
<1>3. /\ Bucket' = Bucket /\ ins'.pc = "sweep" /\ ins'.left = ins.left - 1
      /\ ins'.hand = IF h + 1 >= n THEN 0 ELSE h + 1
      /\ entries' = [entries EXCEPT ![k] = Decay(entries[k])]
      /\ ~ Cold(entries[k])
  BY <1>1 DEF PassOver, Inserts, Bucket
<1>4. k = KeyAt(Bucket, h)
  BY DEF HandKey
<1>5. start + (n - ins'.left) = reach + 1 /\ reach \in Nat /\ start <= reach /\ reach < start + n
  <2>1. n \in Nat /\ start \in Nat /\ ins.left \in Nat /\ ins.left > 0 /\ ins.left <= n
    BY <1>1, <1>2
  <2>2. ins'.left = ins.left - 1
    BY <1>3
  <2> HIDE DEF n, start
  <2> QED BY <2>1, <2>2
<1> HIDE DEF n, start, reach, h, k
<1>6. /\ h < n
      /\ ~ Passed(h, start, reach, n) /\ Passed(h, start, reach + 1, n)
      /\ \A i \in 0 .. n - 1 : i # h =>
           (Passed(i, start, reach + 1, n) <=> Passed(i, start, reach, n))
      /\ (IF h + 1 >= n THEN 0 ELSE h + 1)
           = IF reach + 1 < n THEN reach + 1 ELSE (reach + 1) - n
  <2>1. n \in Nat /\ start \in Nat /\ start < n /\ h \in Nat
    BY <1>1
  <2>2. reach \in Nat /\ start <= reach /\ reach < start + n
    BY <1>5
  <2>3. h = IF reach < n THEN reach ELSE reach - n
    BY <1>2
  <2> QED BY <2>1, <2>2, <2>3, PassedNext, ZenonT(40)
<1>7. h \in 0 .. n - 1
  BY <1>1, <1>6
<1>8. entries[k] = before[k]
  BY <1>2, <1>4, <1>6, <1>7
<1>9. DOMAIN entries' = DOMAIN entries
      /\ entries'[k] = Decay(before[k]) /\ ~ Cold(before[k])
      /\ \A j \in DOMAIN entries : j # k => entries'[j] = entries[j]
  BY <1>1, <1>3, <1>8
<1>10. ASSUME NEW i \in 0 .. n - 1
       PROVE  IF Passed(i, start, reach + 1, n)
              THEN /\ ~ Cold(before[KeyAt(Bucket, i)])
                   /\ entries'[KeyAt(Bucket, i)] = Decay(before[KeyAt(Bucket, i)])
              ELSE entries'[KeyAt(Bucket, i)] = before[KeyAt(Bucket, i)]
  <2>1. CASE i = h
    BY <1>4, <1>6, <1>9, <2>1
  <2>2. CASE i # h
    <3>1. KeyAt(Bucket, i) # k
      BY <1>1, <1>4, <1>7, <2>2
    <3>2. entries'[KeyAt(Bucket, i)] = entries[KeyAt(Bucket, i)]
      BY <1>3, <3>1
    <3>3. Passed(i, start, reach + 1, n) <=> Passed(i, start, reach, n)
      BY <1>6, <2>2
    <3> QED BY <1>2, <3>2, <3>3
  <2> QED BY <2>1, <2>2
<1>11. ASSUME NEW j \in DOMAIN entries', ~ Holds(Bucket, j)
       PROVE  entries'[j] = before[j]
  <2>1. j # k
    BY <1>1, <1>11 DEF Holds
  <2> QED BY <1>2, <1>9, <1>11, <2>1
<1>12. ins'.left <= n
  BY <1>1, <1>2, <1>3
<1>13. ins'.hand = IF reach + 1 < n THEN reach + 1 ELSE (reach + 1) - n
  BY <1>3, <1>6
<1>14. before \in [DOMAIN entries' -> Entry]
  BY <1>2, <1>9
<1>15. /\ Len(Bucket'.list) = n /\ Bucket'.hand = start /\ before' = before
       /\ Bucket'.hand + (Len(Bucket'.list) - ins'.left) = reach + 1
  BY <1>3, <1>5 DEF n, start
<1> QED BY <1>3, <1>10, <1>11, <1>12, <1>13, <1>14, <1>15 DEF SweepInv

\* Every step keeps the record of the sweep.
LEMMA SweepStep ==
  IndInv /\ SweepInv /\ [SweepNext]_<<vars, before>> => SweepInv'
<1> SUFFICES ASSUME IndInv, SweepInv, [SweepNext]_<<vars, before>>, ins'.pc = "sweep"
             PROVE  SweepInv'
  BY DEF SweepInv
<1>1. CASE UNCHANGED <<vars, before>>
  BY <1>1 DEF vars, SweepInv, Bucket
<1>2. CASE SweepNext
  <2>1. before' = IF ins.pc = "sweep" THEN before ELSE entries
    BY <1>2 DEF SweepNext
  <2>2. StartSweep \/ PassOver
    <3>1. ASSUME NEW k \in Keys, NEW size \in Sizes, NEW policy \in Policies,
                 BeginInsert(k, size, policy)
          PROVE  FALSE
      BY <3>1 DEF BeginInsert, NewInsert
    <3>2. ASSUME NEW k \in Keys, GetRef(k) \/ Remove(k) PROVE FALSE
      BY <3>2 DEF GetRef, Remove, NoInsert
    <3>3. ~ Drain
      BY DEF Drain, NoInsert
    <3>4. ~ FinishInsert
      BY DEF FinishInsert, NoInsert
    <3>5. ~ NextBucket
      <4>1. ASSUME NextBucket PROVE ins \in Inserts
        BY <4>1, InsertFacts DEF NextBucket
      <4> QED BY <4>1 DEF NextBucket, Inserts
    <3>6. ~ EvictCold /\ ~ ForceEvict
      <4>1. ASSUME ins.pc = "sweep" PROVE ins \in Inserts
        BY <4>1, InsertFacts, SweepFacts
      <4> QED BY <4>1 DEF EvictCold, ForceEvict, Evict, Inserts
    <3> QED BY <1>2, <3>1, <3>2, <3>3, <3>4, <3>5, <3>6 DEF SweepNext, Next, InsertStep
  <2>3. CASE StartSweep
    BY <2>1, <2>3, StartSweepSweeps DEF StartSweep
  <2>4. CASE PassOver
    BY <2>1, <2>4, PassOverSweeps DEF PassOver
  <2> QED BY <2>2, <2>3, <2>4
<1> QED BY <1>1, <1>2
\* Every reachable state of the shard with its history satisfies both invariants.
LEMMA SweepInvariant == SweepSpec => [](IndInv /\ SweepInv)
<1>1. SweepInit => IndInv /\ SweepInv
  BY InitInv DEF SweepInit, Init, SweepInv, NoInsert
<1>2. IndInv /\ SweepInv /\ [SweepNext]_<<vars, before>> => (IndInv /\ SweepInv)'
  <2>1. [SweepNext]_<<vars, before>> => [Next]_vars
    BY DEF SweepNext
  <2>2. IndInv /\ [SweepNext]_<<vars, before>> => IndInv'
    BY <2>1, StepInv
  <2> QED BY <2>2, SweepStep
<1> QED BY <1>1, <1>2, PTL DEF SweepSpec
-----------------------------------------------------------------------------
\* The entries of a swept bucket are those of its policy, when the sweep began
\* as now, and each of them is as it was or has decayed once.
LEMMA SweptEntry ==
  ASSUME IndInv, SweepInv, ins.pc = "sweep", NEW k \in DOMAIN entries
  PROVE  /\ before[k] \in Entry /\ before[k].policy = entries[k].policy
         /\ \/ entries[k] = before[k]
            \/ /\ k \in KeysOf(Bucket) /\ entries[k].policy = ins.policy_idx
               /\ ~ Cold(before[k]) /\ entries[k] = Decay(before[k])
<1>1. before[k] \in Entry
  BY DEF SweepInv
<1>2. CASE k \notin KeysOf(Bucket)
  BY <1>1, <1>2 DEF SweepInv, Holds
<1>3. CASE k \in KeysOf(Bucket)
  <2>1. PICK i \in 0 .. Len(Bucket.list) - 1 : k = KeyAt(Bucket, i)
    BY <1>3, SweepBucket
  <2>2. \/ entries[k] = before[k]
        \/ ~ Cold(before[k]) /\ entries[k] = Decay(before[k])
    BY <2>1 DEF SweepInv
  <2>3. entries[k].policy = ins.policy_idx
    BY <1>3, SweepBucket
  <2> QED BY <1>1, <1>3, <2>2, <2>3, DecayWarmth
<1> QED BY <1>2, <1>3

\* A sweep has decayed the entries it passed over, once each, and no others,
\* and its hand is as far from where it started as it has keys behind it.
THEOREM SweepsInOrder == SweepSpec => []SweepInv
BY SweepInvariant, PTL

\* While a bucket is swept no entry decays twice, and no entry of another bucket
\* decays, from whatever index the hand starts.
THEOREM EveryEntryDecaysOnce == SweepSpec => []DecaysOnce
<1>1. IndInv /\ SweepInv => DecaysOnce
  <2> SUFFICES ASSUME IndInv, SweepInv, ins.pc = "sweep", NEW k \in DOMAIN entries
               PROVE  Warmth(entries[k]) >= Warmth(before[k])
                        - (IF before[k].policy = ins.policy_idx THEN 1 ELSE 0)
    BY DEF DecaysOnce
  <2>1. /\ before[k] \in Entry /\ before[k].policy = entries[k].policy
        /\ \/ entries[k] = before[k]
           \/ /\ entries[k].policy = ins.policy_idx
              /\ ~ Cold(before[k]) /\ entries[k] = Decay(before[k])
    BY SweptEntry
  <2>2. Warmth(before[k]) \in Nat
    BY <2>1 DEF Entry, Warmth
  <2>3. CASE entries[k] = before[k]
    BY <2>2, <2>3
  <2>4. CASE entries[k] # before[k]
    BY <2>1, <2>2, <2>4, DecayWarmth
  <2> QED BY <2>3, <2>4
<1> QED BY <1>1, SweepInvariant, PTL

\* The entry under the hand has not been passed before the sweep is complete;
\* when it is complete, every entry of the bucket has.
LEMMA SweepReach ==
  ASSUME IndInv, SweepInv, ins.pc = "sweep"
  PROVE  /\ ins.left > 0 => entries[HandKey] = before[HandKey]
         /\ ins.left = 0 => \A k \in KeysOf(Bucket) : ~ Cold(before[k])
<1> DEFINE n == Len(Bucket.list)
           start == Bucket.hand
           reach == start + (n - ins.left)
           h == ins.hand
<1>1. /\ n \in Nat /\ start \in Nat /\ start < n /\ h \in Nat
      /\ ins.left \in Nat /\ ins.left <= n
      /\ KeysOf(Bucket) = {KeyAt(Bucket, i) : i \in 0 .. n - 1}
  BY SweepBucket DEF SweepInv
<1>2. h = IF reach < n THEN reach ELSE reach - n
  BY DEF SweepInv
<1>3. \A i \in 0 .. n - 1 :
        IF Passed(i, start, reach, n)
        THEN ~ Cold(before[KeyAt(Bucket, i)])
        ELSE entries[KeyAt(Bucket, i)] = before[KeyAt(Bucket, i)]
  BY DEF SweepInv
<1>4. HandKey = KeyAt(Bucket, h)
  BY DEF HandKey
<1> HIDE DEF n, start, h
<1>5. ASSUME ins.left > 0 PROVE entries[HandKey] = before[HandKey]
  <2>1. reach \in Nat /\ start <= reach /\ reach < start + n
    BY <1>1, <1>5
  <2> HIDE DEF reach
  <2>2. h < n /\ ~ Passed(h, start, reach, n)
    BY <1>1, <1>2, <2>1 DEF Passed
  <2> QED BY <1>1, <1>3, <1>4, <2>2
<1>6. ASSUME ins.left = 0, NEW k \in KeysOf(Bucket) PROVE ~ Cold(before[k])
  <2>1. PICK i \in 0 .. n - 1 : k = KeyAt(Bucket, i)
    BY <1>1
  <2>2. reach = start + n
    BY <1>1, <1>6
  <2>3. Passed(i, start, reach, n)
    BY <1>1, <2>2, PassedEnds
  <2> QED BY <1>3, <2>1, <2>3
<1> QED BY <1>5, <1>6

\* What a sweep evicts was cold when it reached the bucket, or nothing there was.
THEOREM ColdEntriesGoFirst == SweepSpec => ColdestFirst
<1> DEFINE Coldest ==
      \A k \in DOMAIN entries \ DOMAIN entries' :
        ins.pc = "sweep" =>
          \/ Cold(before[k])
          \/ \A j \in DOMAIN Counted :
               before[j].policy = before[k].policy => ~ Cold(before[j])
<1>1. IndInv /\ SweepInv /\ [SweepNext]_<<vars, before>> => [Coldest]_<<vars, before>>
  <2> SUFFICES ASSUME IndInv, SweepInv, SweepNext, ins.pc = "sweep",
                      NEW k \in DOMAIN entries \ DOMAIN entries'
               PROVE  \/ Cold(before[k])
                      \/ \A j \in DOMAIN Counted :
                           before[j].policy = before[k].policy => ~ Cold(before[j])
    OBVIOUS
  <2>1. k = HandKey /\ (EvictCold \/ ForceEvict)
    <3>1. ins # NoInsert
      BY DEF NoInsert
    <3>2. InsertStep
      BY <3>1 DEF SweepNext, Next, BeginInsert, GetRef, Remove, Drain
    <3>3. ~ StartSweep /\ ~ FinishInsert
      BY DEF StartSweep, FinishInsert
    <3>4. ~ NextBucket
      BY DEF NextBucket
    <3>5. ~ PassOver
      <4>1. PassOver => DOMAIN entries' = DOMAIN entries
        BY DEF PassOver
      <4> QED BY <4>1
    <3>6. EvictCold \/ ForceEvict
      BY <3>2, <3>3, <3>4, <3>5 DEF InsertStep
    <3>7. DOMAIN entries' = DOMAIN entries \ {HandKey}
      BY <3>6 DEF EvictCold, ForceEvict, Evict, Without, Restrict
    <3> QED BY <3>6, <3>7
  <2>2. CASE EvictCold
    BY <2>1, <2>2, SweepReach DEF EvictCold
  <2>3. CASE ForceEvict
    <3>1. \A j \in KeysOf(Bucket) : ~ Cold(before[j])
      BY <2>3, SweepReach DEF ForceEvict
    <3>2. before[k].policy = ins.policy_idx
      BY <2>1, SweepFacts, SweptEntry
    <3>3. ASSUME NEW j \in DOMAIN Counted, before[j].policy = before[k].policy
          PROVE  j \in KeysOf(Bucket)
      <4>1. j \in DOMAIN entries
        BY InvFacts
      <4>2. entries[j].policy = ins.policy_idx
        BY <3>2, <3>3, <4>1, SweptEntry
      <4> QED BY <4>2, SweepBucket
    <3> QED BY <3>1, <3>3
  <2> QED BY <2>1, <2>2, <2>3
<1> QED BY <1>1, SweepInvariant, PTL DEF SweepSpec, ColdestFirst
=============================================================================
