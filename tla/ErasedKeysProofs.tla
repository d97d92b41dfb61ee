-------------------------- MODULE ErasedKeysProofs --------------------------
(* Keys of any types, with any hashes and any forms: what a lookup finds,   *)
(* what the buckets link, what the hooks are given, and that to the rest of *)
(* the cache a key is an atom.                                              *)
EXTENDS MCErasedKeys, AccountingProofs

\* The entries of m in shard s, their last keys and their identities.
InShard(m, s) == {x \in m : ShardOf(x.key.hash) = s}
LastKeys(m) == {Erased(x.value) : x \in m}
Identities(m) == {Identity(x.key.data) : x \in m}
-----------------------------------------------------------------------------
\* ErasedKey::new gives a key with its type, its hash and its data.
LEMMA ErasedType ==
  ASSUME ChosenOK, NEW d \in Data
  PROVE  /\ Erased(d) \in ErasedKey /\ Erased(d).data = d
         /\ Erased(d).type_id = d.type
         /\ Erased(d).hash = hash_of[Identity(d)] /\ hash_of[Identity(d)] \in Hashes
<1>1. d.type \in KeyTypes /\ d.name \in Names
  BY DEF Data
<1>2. hash_of[<<d.type, d.name>>] = hash_of[Identity(d)] /\ hash_of[Identity(d)] \in Hashes
  BY <1>1 DEF ChosenOK, Identity
<1> QED BY <1>1, <1>2 DEF Erased, ErasedKey

\* Two keys are equal when they have the same identity: the hash and the type
\* that eq compares first follow from it.
LEMMA EqualIsIdentity ==
  ASSUME ChosenOK, NEW a \in Data, NEW b \in Data
  PROVE  Equal(Erased(a), Erased(b)) <=> Identity(a) = Identity(b)
<1>1. /\ Erased(a).data = a /\ Erased(a).type_id = a.type
      /\ Erased(a).hash = hash_of[Identity(a)]
      /\ Erased(b).data = b /\ Erased(b).type_id = b.type
      /\ Erased(b).hash = hash_of[Identity(b)]
  BY ErasedType
<1>2. Equal(Erased(a), Erased(b)) <=>
        /\ hash_of[Identity(a)] = hash_of[Identity(b)] /\ a.type = b.type
        /\ a.name = b.name
  BY <1>1 DEF Equal, SameKey
<1>3. Identity(a) = Identity(b) <=> a.type = b.type /\ a.name = b.name
  BY DEF Identity
<1> QED BY <1>2, <1>3

\* What is known of an entry.
LEMMA EntryFacts ==
  ASSUME ChosenOK, NEW m, MapOK(m), NEW x \in m
  PROVE  /\ x.key.data \in Data /\ x.value \in Data /\ x.policy \in Policies
         /\ x.key \in ErasedKey /\ x.key = Erased(x.key.data)
         /\ Identity(x.value) = Identity(x.key.data)
         /\ x.key.hash = hash_of[Identity(x.key.data)]
         /\ x.key.type_id = x.key.data.type /\ x.value.type = x.key.data.type
         /\ x.key.data.type \in KeyTypes
<1>1. /\ x.value \in Data /\ x.policy \in Policies /\ x.key \in ErasedKey
      /\ x.key = Erased(x.key.data) /\ Identity(x.value) = Identity(x.key.data)
  BY DEF MapOK, Distinct
<1>2. x.key.data \in Data
  BY <1>1 DEF ErasedKey
<1>3. /\ x.key.hash = hash_of[Identity(x.key.data)]
      /\ x.key.type_id = x.key.data.type
  BY <1>1, <1>2, ErasedType
<1>4. x.value.type = x.key.data.type /\ x.key.data.type \in KeyTypes
  BY <1>1, <1>2 DEF Identity, Data
<1> QED BY <1>1, <1>2, <1>3, <1>4

\* An entry is equal to a key when they have the same identity.
LEMMA EntryEqual ==
  ASSUME ChosenOK, NEW m, MapOK(m), NEW x \in m, NEW d \in Data
  PROVE  /\ Equal(Erased(d), x.key) <=> Identity(d) = Identity(x.key.data)
         /\ Equal(Erased(x.value), Erased(d)) <=> Identity(x.key.data) = Identity(d)
<1>1. /\ x.key.data \in Data /\ x.value \in Data /\ x.key = Erased(x.key.data)
      /\ Identity(x.value) = Identity(x.key.data)
  BY EntryFacts
<1>2. Equal(Erased(d), Erased(x.key.data)) <=> Identity(d) = Identity(x.key.data)
  BY <1>1, EqualIsIdentity
<1>3. Equal(Erased(x.value), Erased(d)) <=> Identity(x.value) = Identity(d)
  BY <1>1, EqualIsIdentity
<1> QED BY <1>1, <1>2, <1>3

\* The three forms of a lookup find the entry stored for the identity they ask
\* for; a query with another hash finds nothing.
LEMMA FindIsStored ==
  ASSUME ChosenOK, MapOK(map), NEW d \in Data
  PROVE  /\ Find(Erased(d)) = StoredFor(Identity(d))
         /\ FindRef(KeyRef(d)) = StoredFor(Identity(d))
         /\ \A h \in Hashes : FindBy(KeyLookup(d, h)) =
              IF h = hash_of[Identity(d)] THEN StoredFor(Identity(d)) ELSE {}
<1>1. /\ Erased(d).hash = hash_of[Identity(d)]
      /\ hash_of[<<d.type, d.name>>] = hash_of[Identity(d)]
  BY ErasedType DEF Identity
<1>2. ASSUME NEW x \in map
      PROVE  /\ Identity(x.key.data) = Identity(d) => x.key.hash = hash_of[Identity(d)]
             /\ x.key.type_id = x.key.data.type
             /\ Equal(Erased(d), x.key) <=> Identity(x.key.data) = Identity(d)
             /\ (d.type = x.key.data.type /\ d.name = x.key.data.name)
                  <=> Identity(x.key.data) = Identity(d)
  <2>1. /\ x.key.hash = hash_of[Identity(x.key.data)]
        /\ x.key.type_id = x.key.data.type
    BY EntryFacts
  <2>2. Equal(Erased(d), x.key) <=> Identity(d) = Identity(x.key.data)
    BY EntryEqual
  <2>3. (d.type = x.key.data.type /\ d.name = x.key.data.name)
          <=> Identity(x.key.data) = Identity(d)
    BY DEF Identity
  <2> QED BY <2>1, <2>2, <2>3
<1>3. Find(Erased(d)) = StoredFor(Identity(d))
  BY <1>1, <1>2 DEF Find, In, StoredFor
<1>4. FindRef(KeyRef(d)) = StoredFor(Identity(d))
  <2>1. /\ KeyRef(d).hash = hash_of[Identity(d)] /\ KeyRef(d).key = d
        /\ KeyRef(d).type_id = d.type
    BY <1>1 DEF KeyRef
  <2>2. ASSUME NEW x \in map
        PROVE  x \in FindRef(KeyRef(d)) <=> Identity(x.key.data) = Identity(d)
    BY <1>2, <2>1 DEF FindRef, In, RefEquals, SameKey
  <2>3. FindRef(KeyRef(d)) \subseteq map
    BY DEF FindRef, In
  <2> QED BY <2>2, <2>3 DEF StoredFor
<1>5. ASSUME NEW h \in Hashes
      PROVE  FindBy(KeyLookup(d, h)) =
               IF h = hash_of[Identity(d)] THEN StoredFor(Identity(d)) ELSE {}
  <2>1. /\ KeyLookup(d, h).hash = h /\ KeyLookup(d, h).key = d
        /\ KeyLookup(d, h).type_id = d.type
    BY DEF KeyLookup
  <2>2. ASSUME NEW x \in map
        PROVE  x \in FindBy(KeyLookup(d, h)) <=>
                 h = hash_of[Identity(d)] /\ Identity(x.key.data) = Identity(d)
    BY <1>2, <2>1 DEF FindBy, In, LookupEquals, SameKey
  <2>3. FindBy(KeyLookup(d, h)) \subseteq map
    BY DEF FindBy, In
  <2> QED BY <2>2, <2>3 DEF StoredFor
<1> QED BY <1>3, <1>4, <1>5

\* At most one entry is stored for an identity.
LEMMA StoredOnce ==
  ASSUME MapOK(map), NEW i
  PROVE  \/ StoredFor(i) = {}
         \/ \E x \in map : StoredFor(i) = {x} /\ Identity(x.key.data) = i
<1> SUFFICES ASSUME StoredFor(i) # {}
             PROVE  \E x \in map : StoredFor(i) = {x} /\ Identity(x.key.data) = i
  OBVIOUS
<1>1. PICK x \in map : Identity(x.key.data) = i
  BY DEF StoredFor
<1>2. StoredFor(i) = {x}
  BY <1>1 DEF StoredFor, MapOK, Distinct
<1> QED BY <1>1, <1>2
-----------------------------------------------------------------------------
(* What the buckets link.                                                   *)

\* The entries of m that have none of the identities of D.
Spared(m, D) == {x \in m : \A d \in D : Identity(d) # Identity(x.key.data)}

\* A map with fewer entries.
LEMMA SmallerMap ==
  ASSUME NEW m, MapOK(m), NEW n, n \subseteq m
  PROVE  MapOK(n)
<1>1. IsFiniteSet(n)
  BY FS_Subset DEF MapOK, Distinct
<1> QED BY <1>1 DEF MapOK, Distinct

\* Each key of the buckets has the policy and the value of one entry.
LEMMA LinkedEntry ==
  ASSUME NEW m, NEW p \in Policies, NEW b \in BucketsFor(m)[p]
  PROVE  \E x \in m : x.policy = p /\ b = Erased(x.value)
BY DEF BucketsFor

\* Taking keys out of the buckets leaves the buckets of the entries with other
\* identities: no bucket loses the key of another entry because of its hash.
LEMMA UnlinkedDef ==
  ASSUME ChosenOK, NEW m, MapOK(m), NEW D \in SUBSET Data
  PROVE  Unlinked(BucketsFor(m), {Erased(d) : d \in D}) = BucketsFor(Spared(m, D))
<1>1. ASSUME NEW x \in m
      PROVE  (\A k \in {Erased(d) : d \in D} : ~ Equal(k, Erased(x.value)))
               <=> x \in Spared(m, D)
  <2>1. x.value \in Data /\ Identity(x.value) = Identity(x.key.data)
    BY EntryFacts
  <2>2. \A d \in D : Equal(Erased(d), Erased(x.value)) <=> Identity(d) = Identity(x.value)
    BY <2>1, EqualIsIdentity
  <2> QED BY <2>1, <2>2 DEF Spared
<1>2. ASSUME NEW p \in Policies
      PROVE  {b \in BucketsFor(m)[p] : \A k \in {Erased(d) : d \in D} : ~ Equal(k, b)}
               = {Erased(x.value) : x \in {y \in Spared(m, D) : y.policy = p}}
  <2>1. BucketsFor(m)[p] = {Erased(x.value) : x \in {y \in m : y.policy = p}}
    BY DEF BucketsFor
  <2>2. Spared(m, D) \subseteq m
    BY DEF Spared
  <2> QED BY <1>1, <2>1, <2>2
<1> QED BY <1>2 DEF Unlinked, BucketsFor

\* The map that a shard's buckets are to the store: the last keys of its
\* entries, each with size 1 and the entry's policy.
LEMMA LinkedDef ==
  ASSUME ChosenOK, NEW m, MapOK(m), NEW s
  PROVE  /\ DOMAIN Linked(BucketsFor(m), s) = LastKeys(InShard(m, s))
         /\ \A x \in InShard(m, s) : Linked(BucketsFor(m), s)[Erased(x.value)]
                                      = [size |-> 1, policy |-> x.policy]
<1> DEFINE keys(p) == {b \in BucketsFor(m)[p] : ShardOf(b.hash) = s}
           all == UNION {keys(p) : p \in Policies}
<1>1. ASSUME NEW x \in m
      PROVE  /\ x.policy \in Policies /\ x.value \in Data
             /\ Erased(x.value).hash = x.key.hash /\ Erased(x.value).data = x.value
             /\ Identity(x.value) = Identity(x.key.data)
  <2>1. /\ x.policy \in Policies /\ x.value \in Data
        /\ Identity(x.value) = Identity(x.key.data)
        /\ x.key.hash = hash_of[Identity(x.key.data)]
    BY EntryFacts
  <2>2. Erased(x.value).hash = hash_of[Identity(x.value)] /\ Erased(x.value).data = x.value
    BY <2>1, ErasedType
  <2> QED BY <2>1, <2>2
<1>2. ASSUME NEW p \in Policies
      PROVE  keys(p) = {Erased(x.value) : x \in {y \in m : y.policy = p /\ ShardOf(y.key.hash) = s}}
  <2>1. BucketsFor(m)[p] = {Erased(x.value) : x \in {y \in m : y.policy = p}}
    BY DEF BucketsFor
  <2> QED BY <1>1, <2>1
<1>3. Linked(BucketsFor(m), s)
        = [b \in all |-> [size |-> 1, policy |-> CHOOSE p \in Policies : b \in keys(p)]]
  BY DEF Linked
<1>4. all = {Erased(x.value) : x \in {y \in m : ShardOf(y.key.hash) = s}}
  <2>1. ASSUME NEW b \in all
        PROVE  b \in {Erased(x.value) : x \in {y \in m : ShardOf(y.key.hash) = s}}
    <3>1. PICK p \in Policies : b \in keys(p)
      BY <2>1
    <3> HIDE DEF keys
    <3> QED BY <1>2, <3>1
  <2>2. ASSUME NEW x \in m, ShardOf(x.key.hash) = s
        PROVE  Erased(x.value) \in all
    <3>1. x.policy \in Policies
      BY <1>1
    <3>2. Erased(x.value) \in keys(x.policy)
      <4> HIDE DEF keys
      <4> QED BY <1>2, <2>2, <3>1
    <3> QED BY <3>1, <3>2
  <2> HIDE DEF all
  <2> QED BY <2>1, <2>2
<1>5. ASSUME NEW x \in m, ShardOf(x.key.hash) = s
      PROVE  (CHOOSE p \in Policies : Erased(x.value) \in keys(p)) = x.policy
  <2> HIDE DEF keys
  <2>1. x.policy \in Policies /\ Erased(x.value) \in keys(x.policy)
    BY <1>1, <1>2, <1>5
  <2>2. ASSUME NEW p \in Policies, Erased(x.value) \in keys(p) PROVE p = x.policy
    <3>1. PICK y \in m : y.policy = p /\ Erased(x.value) = Erased(y.value)
      BY <1>2, <2>2
    <3>2. x.value = y.value
      BY <1>1, <3>1
    <3>3. Identity(x.key.data) = Identity(y.key.data)
      BY <1>1, <3>2
    <3> QED BY <3>1, <3>3 DEF MapOK, Distinct
  <2> QED BY <2>1, <2>2
<1> HIDE DEF all, keys
<1>6. DOMAIN Linked(BucketsFor(m), s) = LastKeys(InShard(m, s))
  BY <1>3, <1>4 DEF LastKeys, InShard
<1>7. ASSUME NEW x \in InShard(m, s)
      PROVE  Linked(BucketsFor(m), s)[Erased(x.value)] = [size |-> 1, policy |-> x.policy]
  <2>1. x \in m /\ ShardOf(x.key.hash) = s
    BY DEF InShard
  <2> QED BY <1>3, <1>4, <1>5, <2>1
<1> QED BY <1>6, <1>7
-----------------------------------------------------------------------------
(* What each operation does, told by identities.                            *)

\* The bucket of the entry that an insert replaces, and the bucket of one that
\* is removed, lose its key and no other.
LEMMA UnlinkStoredFor ==
  ASSUME KeysInv, NEW d \in Data
  PROVE  Unlinked(buckets, {x.key : x \in Find(Erased(d))})
           = BucketsFor(map \ StoredFor(Identity(d)))
<1> DEFINE i == Identity(d)
           D == {x.key.data : x \in StoredFor(i)}
<1>1. Find(Erased(d)) = StoredFor(i) /\ ChosenOK /\ MapOK(map) /\ buckets = BucketsFor(map)
  BY FindIsStored DEF KeysInv
<1>2. \A x \in StoredFor(i) : /\ x \in map /\ x.key = Erased(x.key.data)
                              /\ x.key.data \in Data /\ Identity(x.key.data) = i
  BY <1>1, EntryFacts DEF StoredFor
<1>3. {x.key : x \in StoredFor(i)} = {Erased(e) : e \in D} /\ D \in SUBSET Data
  BY <1>2
<1>4. Spared(map, D) = map \ StoredFor(i)
  <2>1. ASSUME NEW x \in map
        PROVE  (\A e \in D : Identity(e) # Identity(x.key.data)) <=> x \notin StoredFor(i)
    <3>1. x \in StoredFor(i) <=> Identity(x.key.data) = i
      BY DEF StoredFor
    <3> QED BY <1>2, <3>1
  <2> QED BY <2>1 DEF Spared
<1> HIDE DEF i, D
<1>5. Unlinked(BucketsFor(map), {Erased(e) : e \in D}) = BucketsFor(Spared(map, D))
  BY <1>1, <1>3, UnlinkedDef
<1> QED BY <1>1, <1>3, <1>4, <1>5 DEF i

\* The store's victims are keys it links.
LEMMA VictimsLinked ==
  ASSUME NEW others, NEW needed, NEW V \in Contract!Victims(others, needed)
  PROVE  V \subseteq DOMAIN others
BY DEF Contract!Victims

\* An insert takes some other entries of the shard, and the one with the
\* identity of its key if there is one, out of map and buckets and puts the new
\* one in, under the key that was there before it.
Inserted(d, policy, G, key) ==
  /\ G \subseteq map /\ key \in Data /\ Identity(key) = Identity(d)
  /\ \A x \in G : /\ Identity(x.key.data) # Identity(d)
                  /\ ShardOf(x.key.hash) = ShardOf(hash_of[Identity(d)])
  /\ {Erased(x.value) : x \in G}
       \in Contract!Victims(Linked(BucketsFor(map \ StoredFor(Identity(d))),
                                   ShardOf(hash_of[Identity(d)])), 1)
  /\ map' = (map \ (G \cup StoredFor(Identity(d))))
              \cup {[key |-> Erased(key), value |-> d, policy |-> policy]}
  /\ buckets' = BucketsFor(map')
  /\ returned' = {x.value : x \in StoredFor(Identity(d))}
  /\ heard' = Report("on_evict", {Erased(x.value) : x \in G})
  /\ UNCHANGED <<hash_of, lifecycle>>

\* An insert removes some entries from the map and stores one, under the key
\* of the entry it replaces if there is one.
LEMMA InsertFacts ==
  ASSUME KeysInv, NEW d \in Data, NEW policy \in Policies, Insert(d, policy)
  PROVE  \E G, key : Inserted(d, policy, G, key)
<1> DEFINE i == Identity(d)
           k == Erased(d)
           s == ShardOf(hash_of[i])
           old == StoredFor(i)
           M == map \ old
           entry(e) == [key |-> e, value |-> d, policy |-> policy]
<1>1. ChosenOK /\ MapOK(map) /\ buckets = BucketsFor(map) /\ MapOK(M)
  BY SmallerMap DEF KeysInv
<1>2. Find(k) = old /\ Replaced(k) = BucketsFor(M) /\ ShardOf(k.hash) = s
  BY <1>1, FindIsStored, UnlinkStoredFor, ErasedType DEF Replaced
<1>3. PICK V \in Contract!Victims(Linked(BucketsFor(M), s), 1) :
        LET left == {x \in M : \A v \in V : ~ Equal(v, x.key)}
            bs == Unlinked(BucketsFor(M), V)
        IN  /\ map' = left \cup (IF old = {} THEN {entry(k)}
                                 ELSE {entry(x.key) : x \in old})
            /\ buckets' = [bs EXCEPT ![policy] =
                 IF \E b \in @ : Equal(k, b) THEN @ ELSE @ \cup {k}]
            /\ returned' = ValuesOf(d.type, old)
            /\ heard' = Report("on_evict", V)
            /\ UNCHANGED <<hash_of, lifecycle>>
  <2> HIDE DEF i, s, old
  <2> QED BY <1>2 DEF Insert, k
<1> DEFINE G == {x \in M : ShardOf(x.key.hash) = s /\ Erased(x.value) \in V}
           D == {x.value : x \in G}
<1>4. \A x \in map : /\ x.value \in Data /\ x.key.data \in Data
                     /\ Identity(x.value) = Identity(x.key.data)
                     /\ x.key = Erased(x.key.data)
  BY <1>1, EntryFacts
<1>5. V = {Erased(x.value) : x \in G}
  <2>1. V \subseteq {Erased(x.value) : x \in {y \in M : ShardOf(y.key.hash) = s}}
    <3> HIDE DEF M, s
    <3>1. V \subseteq DOMAIN Linked(BucketsFor(M), s)
      BY VictimsLinked
    <3>2. DOMAIN Linked(BucketsFor(M), s) = LastKeys(InShard(M, s))
      BY <1>1, LinkedDef
    <3> QED BY <3>1, <3>2 DEF LastKeys, InShard
  <2> HIDE DEF M, s
  <2> QED BY <2>1
<1>6. \A x \in G : x \in map /\ Identity(x.key.data) # i /\ ShardOf(x.key.hash) = s
  BY DEF StoredFor
<1>7. ASSUME NEW x \in M
      PROVE  /\ (\A v \in V : ~ Equal(v, x.key)) <=> x \notin G
             /\ (\A e \in D : Identity(e) # Identity(x.key.data)) <=> x \notin G
  <2>1. \A y \in G : /\ y \in map /\ y.value \in Data
                     /\ Identity(y.value) = Identity(x.key.data) <=> y = x
    BY <1>1, <1>4 DEF MapOK, Distinct
  <2>2. \A y \in G : Equal(Erased(y.value), x.key) <=> y = x
    <3> SUFFICES ASSUME NEW y \in G PROVE Equal(Erased(y.value), x.key) <=> y = x
      OBVIOUS
    <3>1. y.value \in Data /\ x \in map
      BY <2>1
    <3>2. Equal(Erased(y.value), x.key) <=> Identity(y.value) = Identity(x.key.data)
      BY <1>1, <3>1, EntryEqual
    <3> QED BY <2>1, <3>2
  <2> HIDE DEF G, M
  <2> QED BY <1>5, <2>1, <2>2
<1>8. {x \in M : \A v \in V : ~ Equal(v, x.key)} = M \ G /\ Spared(M, D) = M \ G
  <2> HIDE DEF M, G, D
  <2> QED BY <1>7 DEF Spared
<1>9. Unlinked(BucketsFor(M), V) = BucketsFor(M \ G)
  <2>1. V = {Erased(e) : e \in D}
    BY <1>5
  <2>2. D \in SUBSET Data
    BY <1>4
  <2> HIDE DEF M, G, D
  <2> QED BY <1>1, <1>8, <2>1, <2>2, UnlinkedDef
<1>10. PICK key \in Data : /\ Identity(key) = i
                           /\ map' = (M \ G) \cup {entry(Erased(key))}
  <2>1. CASE old = {}
    BY <1>3, <1>8, <2>1
  <2>2. CASE old # {}
    <3>1. PICK x \in map : old = {x} /\ Identity(x.key.data) = i
      BY <1>1, <2>2, StoredOnce
    <3>2. {entry(y.key) : y \in old} = {entry(Erased(x.key.data))}
      BY <1>4, <3>1
    <3>3. x.key.data \in Data
      BY <1>4
    <3> HIDE DEF M, G, entry, old
    <3> QED BY <1>3, <1>8, <2>2, <3>1, <3>2, <3>3
  <2> QED BY <2>1, <2>2
<1>11. buckets' = BucketsFor(map')
  <2> DEFINE bs == BucketsFor(M \ G)
  <2>1. \A b \in bs[policy] : ~ Equal(k, b)
    <3> SUFFICES ASSUME NEW b \in bs[policy] PROVE ~ Equal(k, b)
      OBVIOUS
    <3>1. PICK x \in M \ G : b = Erased(x.value)
      BY LinkedEntry
    <3>2. x.value \in Data /\ Identity(x.value) # i
      BY <1>4, <3>1 DEF StoredFor
    <3> QED BY <1>1, <3>1, <3>2, EqualIsIdentity
  <2>2. buckets' = [bs EXCEPT ![policy] = @ \cup {k}]
    <3> HIDE DEF M, G, k
    <3>1. bs \in [Policies -> SUBSET {Erased(x.value) : x \in M}]
      BY DEF BucketsFor
    <3> HIDE DEF bs
    <3> QED BY <1>3, <1>9, <2>1, <3>1 DEF bs
  <2>3. ASSUME NEW p \in Policies
        PROVE  BucketsFor(map')[p] = IF p = policy THEN bs[p] \cup {k} ELSE bs[p]
    <3> HIDE DEF M, G
    <3>1. /\ entry(Erased(key)).policy = policy
          /\ entry(Erased(key)).value = d
      OBVIOUS
    <3> HIDE DEF entry
    <3> QED BY <1>10, <3>1 DEF BucketsFor
  <2>4. /\ BucketsFor(map') = [p \in Policies |-> BucketsFor(map')[p]]
        /\ bs = [p \in Policies |-> bs[p]]
    BY DEF BucketsFor
  <2> HIDE DEF bs, M, G, k
  <2> QED BY <2>2, <2>3, <2>4
<1>12. returned' = {x.value : x \in old}
  <2>1. \A x \in old : x.value.type = d.type
    BY <1>4 DEF StoredFor, Identity
  <2> QED BY <1>3, <2>1 DEF ValuesOf
<1>13. Inserted(d, policy, G, key)
  <2>1. map' = (map \ (G \cup old)) \cup {entry(Erased(key))}
    BY <1>10
  <2>2. G \subseteq map /\ UNCHANGED <<hash_of, lifecycle>> /\ heard' = Report("on_evict", V)
    BY <1>3
  <2> HIDE DEF G
  <2> QED BY <1>3, <1>5, <1>6, <1>10, <1>11, <1>12, <2>1, <2>2 DEF Inserted
<1> QED BY <1>13

\* A removal takes the entry with the identity of its key out of both.
LEMMA RemoveFacts ==
  ASSUME KeysInv, NEW d \in Data, Remove(d)
  PROVE  /\ map' = map \ StoredFor(Identity(d)) /\ buckets' = BucketsFor(map')
         /\ returned' = {x.value : x \in StoredFor(Identity(d))}
         /\ heard' = Report("on_remove", {x.key : x \in StoredFor(Identity(d))})
         /\ UNCHANGED <<hash_of, lifecycle>>
<1>1. Find(Erased(d)) = StoredFor(Identity(d))
  BY FindIsStored DEF KeysInv
<1>2. /\ map' = map \ StoredFor(Identity(d)) /\ buckets' = BucketsFor(map')
      /\ heard' = Report("on_remove", {x.key : x \in StoredFor(Identity(d))})
      /\ returned' = ValuesOf(d.type, StoredFor(Identity(d)))
      /\ UNCHANGED <<hash_of, lifecycle>>
  BY <1>1, UnlinkStoredFor DEF Remove
<1>3. \A x \in StoredFor(Identity(d)) : x.value.type = d.type
  <2> SUFFICES ASSUME NEW x \in map, Identity(x.key.data) = Identity(d)
               PROVE  x.value.type = d.type
    BY DEF StoredFor
  <2> QED BY EntryFacts DEF KeysInv, Identity
<1> QED BY <1>2, <1>3 DEF ValuesOf

\* An empty map has empty buckets.
LEMMA NoBuckets == BucketsFor({}) = [p \in Policies |-> {}]
BY DEF BucketsFor
-----------------------------------------------------------------------------
(* The hooks.                                                               *)

Hooks == {"on_evict", "on_remove", "on_clear"}

\* The hook that user code runs, and the keys it runs it for.
Told(hook) == IF lifecycle.kind = "custom" THEN hook ELSE "on_evict"
Audible(K) ==
  IF lifecycle.kind = "default" THEN {}
  ELSE {k \in K : lifecycle.kind = "typed" => k.data.type = lifecycle.type}

\* The adapters and the defaults of Lifecycle come to one call for each key.
LEMMA ReportDef ==
  ASSUME ChosenOK, NEW hook, NEW K
  PROVE  Report(hook, K) = {[hook |-> Told(hook), key |-> k.data] : k \in Audible(K)}
<1>1. Report(hook, K) = UNION {Hear(hook, k.data) : k \in K}
  BY DEF Report, Forwarded
<1>2. lifecycle.kind \in {"custom", "evict_only", "default", "typed"}
  BY DEF ChosenOK, Lifecycles
<1>3. CASE lifecycle.kind = "default"
  BY <1>1, <1>3 DEF Hear, Audible
<1>4. CASE lifecycle.kind = "custom"
  <2>1. \A k \in K : Hear(hook, k.data) = {[hook |-> hook, key |-> k.data]}
    BY <1>4 DEF Hear
  <2> QED BY <1>1, <1>4, <2>1 DEF Told, Audible
<1>5. CASE lifecycle.kind = "evict_only"
  <2>1. \A k \in K : Hear(hook, k.data) = {[hook |-> "on_evict", key |-> k.data]}
    BY <1>5 DEF Hear
  <2> QED BY <1>1, <1>5, <2>1 DEF Told, Audible
<1>6. CASE lifecycle.kind = "typed"
  <2>1. \A k \in K : Hear(hook, k.data) =
          {[hook |-> "on_evict", key |-> k.data] : T \in {lifecycle.type} \cap {k.data.type}}
    BY <1>6 DEF Hear
  <2>2. ASSUME NEW k \in K
        PROVE  Hear(hook, k.data) =
                 IF k.data.type = lifecycle.type
                 THEN {[hook |-> "on_evict", key |-> k.data]} ELSE {}
    BY <2>1
  <2>3. Audible(K) = {k \in K : k.data.type = lifecycle.type} /\ Told(hook) = "on_evict"
    BY <1>6 DEF Audible, Told
  <2> DEFINE told(k) == [hook |-> "on_evict", key |-> k.data]
  <2>4. UNION {Hear(hook, k.data) : k \in K} = {told(k) : k \in Audible(K)}
    <3>1. ASSUME NEW k \in K
          PROVE  Hear(hook, k.data) = IF k \in Audible(K) THEN {told(k)} ELSE {}
      BY <2>2, <2>3
    <3>2. Audible(K) \subseteq K
      BY <2>3
    <3> HIDE DEF told
    <3> QED BY <3>1, <3>2
  <2> QED BY <1>1, <2>3, <2>4
<1> QED BY <1>2, <1>3, <1>4, <1>5, <1>6

\* Keys of clients reach the hooks as they are, and a typed callback gets keys
\* of its type only.
LEMMA ReportType ==
  ASSUME ChosenOK, NEW hook \in Hooks, NEW K, \A k \in K : k.data \in Data
  PROVE  Report(hook, K) \subseteq
           [hook : Hooks,
            key : IF lifecycle.kind = "typed"
                  THEN {d \in Data : d.type = lifecycle.type} ELSE Data]
<1>1. Told(hook) \in Hooks
  BY DEF Told, Hooks
<1> DEFINE D == IF lifecycle.kind = "typed"
                THEN {d \in Data : d.type = lifecycle.type} ELSE Data
<1>2. \A k \in Audible(K) : k.data \in D
  BY DEF Audible
<1> HIDE DEF D
<1>3. {[hook |-> Told(hook), key |-> k.data] : k \in Audible(K)} \subseteq [hook : Hooks, key : D]
  BY <1>1, <1>2
<1> QED BY <1>3, ReportDef DEF D
-----------------------------------------------------------------------------
(* The invariant.                                                           *)

\* The new cache has no keys.
LEMMA KeysInvInit ==
  ASSUME CallsInit
  PROVE  KeysInv /\ TypeOK
<1>1. ChosenOK /\ map = {} /\ buckets = [p \in Policies |-> {}] /\ returned = {} /\ heard = {}
  BY DEF CallsInit, Init, ChosenOK
<1>2. MapOK(map)
  BY <1>1, FS_EmptySet DEF MapOK, Distinct
<1> QED BY <1>1, <1>2, NoBuckets DEF KeysInv, TypeOK

\* A step that leaves the map well formed and the buckets in step with it.
LEMMA KeysInvStep ==
  ASSUME KeysInv, MapOK(map'), buckets' = BucketsFor(map'), UNCHANGED <<hash_of, lifecycle>>
  PROVE  KeysInv'
<1>1. ChosenOK'
  BY DEF KeysInv, ChosenOK
<1>2. MapOK(map)'
  BY DEF MapOK, Distinct, Erased
<1>3. buckets' = BucketsFor(map)'
  BY DEF BucketsFor, Erased
<1> QED BY <1>1, <1>2, <1>3 DEF KeysInv

\* TypeOK but for what the last operation returned and reported.
LEMMA StoredTypes ==
  ASSUME KeysInv
  PROVE  /\ map \subseteq [key : ErasedKey, value : Data, policy : Policies]
         /\ \A x \in map : x.key.type_id = x.key.data.type /\ x.value.type = x.key.type_id
         /\ buckets \in [Policies -> SUBSET ErasedKey]
<1>1. ChosenOK /\ MapOK(map) /\ buckets = BucketsFor(map)
  BY DEF KeysInv
<1>2. \A x \in map : /\ x.key.type_id = x.key.data.type /\ x.value.type = x.key.type_id
                     /\ Erased(x.value) \in ErasedKey
  <2> SUFFICES ASSUME NEW x \in map
               PROVE  /\ x.key.type_id = x.key.data.type /\ x.value.type = x.key.type_id
                      /\ Erased(x.value) \in ErasedKey
    OBVIOUS
  <2>1. /\ x.key.type_id = x.key.data.type /\ x.value.type = x.key.data.type
        /\ x.value \in Data
    BY <1>1, EntryFacts
  <2> QED BY <1>1, <2>1, ErasedType
<1>3. buckets \in [Policies -> SUBSET ErasedKey]
  BY <1>1, <1>2 DEF BucketsFor
<1> QED BY <1>1, <1>2, <1>3 DEF MapOK, Distinct

\* What a step has to say of its hooks and its value to keep the types.
LEMMA TypeOKStep ==
  ASSUME KeysInv', ChosenOK, UNCHANGED lifecycle,
         returned' \in {{}} \cup {{d} : d \in Data},
         NEW hook \in Hooks, NEW K, \A k \in K : k.data \in Data,
         heard' = Report(hook, K)
  PROVE  TypeOK'
<1>1. heard' \subseteq
        [hook : Hooks,
         key : IF lifecycle.kind = "typed"
               THEN {d \in Data : d.type = lifecycle.type} ELSE Data]
  BY ReportType
<1>2. ChosenOK' /\ MapOK(map)' /\ buckets' = BucketsFor(map)'
  BY DEF KeysInv
<1>3. \A x \in map' : x.key.type_id = x.key.data.type /\ x.value.type = x.key.type_id
  <2> SUFFICES ASSUME NEW x \in map'
               PROVE  x.key.type_id = x.key.data.type /\ x.value.type = x.key.type_id
    OBVIOUS
  <2>1. /\ x.key.type_id = x.key.data.type /\ x.key.data \in Data /\ x.value \in Data
        /\ Identity(x.value) = Identity(x.key.data)
    <3>1. /\ x.key \in ErasedKey /\ x.value \in Data
          /\ Identity(x.value) = Identity(x.key.data)
          /\ x.key = (Erased(x.key.data))'
      BY <1>2 DEF MapOK, Distinct
    <3>2. x.key.type_id = x.key.data.type
      BY <3>1 DEF Erased
    <3> QED BY <3>1, <3>2 DEF ErasedKey
  <2> QED BY <2>1 DEF Identity
<1>4. buckets' \in [Policies -> SUBSET ErasedKey]
  <2>1. ASSUME NEW x \in map' PROVE (Erased(x.value))' \in ErasedKey
    <3>1. x.value \in Data
      BY <1>2 DEF MapOK, Distinct
    <3> QED BY <1>2, <3>1 DEF ChosenOK, Erased, ErasedKey, Data
  <2> QED BY <1>2, <2>1 DEF BucketsFor
<1> QED BY <1>1, <1>2, <1>3, <1>4 DEF TypeOK, Hooks, MapOK, Distinct

\* What is returned is one value or none.
LEMMA ReturnedType ==
  ASSUME KeysInv, NEW i
  PROVE  {x.value : x \in StoredFor(i)} \in {{}} \cup {{d} : d \in Data}
<1>1. MapOK(map)
  BY DEF KeysInv
<1>2. CASE StoredFor(i) = {}
  BY <1>2
<1>3. CASE StoredFor(i) # {}
  <2>1. PICK x \in map : StoredFor(i) = {x}
    BY <1>1, <1>3, StoredOnce
  <2>2. x.value \in Data
    BY <1>1 DEF MapOK, Distinct
  <2> QED BY <2>1, <2>2
<1> QED BY <1>2, <1>3

\* One lemma per operation: it keeps the invariant and the types.
LEMMA InsertInv ==
  ASSUME KeysInv, NEW d \in Data, NEW policy \in Policies, Insert(d, policy)
  PROVE  KeysInv' /\ TypeOK'
<1> DEFINE i == Identity(d)
<1>1. PICK G, key : Inserted(d, policy, G, key)
  BY InsertFacts
<1> DEFINE rest == map \ (G \cup StoredFor(i))
           new == [key |-> Erased(key), value |-> d, policy |-> policy]
<1>2. /\ ChosenOK /\ MapOK(map) /\ MapOK(rest) /\ map' = rest \cup {new}
      /\ key \in Data /\ Identity(key) = i
  BY <1>1, SmallerMap DEF Inserted, KeysInv
<1>3. Erased(key) \in ErasedKey /\ Erased(key).data = key
  BY <1>2, ErasedType
<1>4. \A x \in rest : Identity(x.key.data) # i
  BY DEF StoredFor
<1>5. MapOK(map')
  <2>1. IsFiniteSet(map')
    BY <1>2, FS_AddElement DEF MapOK, Distinct
  <2>2. new \in [key : ErasedKey, value : Data, policy : Policies]
    BY <1>3
  <2>3. new.key = Erased(new.key.data) /\ Identity(new.value) = Identity(new.key.data)
    BY <1>2, <1>3
  <2>4. Identity(new.key.data) = i
    BY <1>2, <1>3
  <2> HIDE DEF new, rest, i
  <2> QED BY <1>2, <1>4, <2>1, <2>2, <2>3, <2>4 DEF MapOK, Distinct
<1>6. KeysInv'
  BY <1>1, <1>5, KeysInvStep DEF Inserted
<1>7. \A x \in G : Erased(x.value).data \in Data
  <2> SUFFICES ASSUME NEW x \in map PROVE Erased(x.value).data \in Data
    BY <1>1 DEF Inserted
  <2>1. x.value \in Data
    BY <1>2, EntryFacts
  <2> QED BY <1>2, <2>1, ErasedType
<1>8. \A k \in {Erased(x.value) : x \in G} : k.data \in Data
  BY <1>7
<1>9. TypeOK'
  <2>1. /\ returned' \in {{}} \cup {{v} : v \in Data} /\ UNCHANGED lifecycle
        /\ heard' = Report("on_evict", {Erased(x.value) : x \in G})
    BY <1>1, ReturnedType DEF Inserted
  <2>2. "on_evict" \in Hooks
    BY DEF Hooks
  <2> QED BY <1>2, <1>6, <1>8, <2>1, <2>2, TypeOKStep
<1> QED BY <1>6, <1>9

\* A remove takes the key from the map and from its bucket.
LEMMA RemoveInv ==
  ASSUME KeysInv, NEW d \in Data, Remove(d)
  PROVE  KeysInv' /\ TypeOK'
<1>1. ChosenOK /\ MapOK(map)
  BY DEF KeysInv
<1>2. /\ map' = map \ StoredFor(Identity(d)) /\ buckets' = BucketsFor(map')
      /\ returned' = {x.value : x \in StoredFor(Identity(d))}
      /\ heard' = Report("on_remove", {x.key : x \in StoredFor(Identity(d))})
      /\ UNCHANGED <<hash_of, lifecycle>>
  BY RemoveFacts
<1>3. MapOK(map')
  BY <1>1, <1>2, SmallerMap
<1>4. KeysInv'
  BY <1>2, <1>3, KeysInvStep
<1>5. \A k \in {x.key : x \in StoredFor(Identity(d))} : k.data \in Data
  BY <1>1, EntryFacts DEF StoredFor
<1>6. "on_remove" \in Hooks /\ returned' \in {{}} \cup {{v} : v \in Data}
  BY <1>2, ReturnedType DEF Hooks
<1> QED BY <1>1, <1>2, <1>4, <1>5, <1>6, TypeOKStep

\* A clear takes away all of them.
LEMMA ClearInv ==
  ASSUME KeysInv, Clear
  PROVE  KeysInv' /\ TypeOK'
<1>1. ChosenOK /\ MapOK(map)
  BY DEF KeysInv
<1>2. /\ map' = {} /\ buckets' = BucketsFor(map') /\ returned' = {}
      /\ heard' = Report("on_clear", {x.key : x \in map})
      /\ UNCHANGED <<hash_of, lifecycle>>
  BY NoBuckets DEF Clear
<1>3. MapOK(map')
  BY <1>1, <1>2, SmallerMap
<1>4. KeysInv'
  BY <1>2, <1>3, KeysInvStep
<1>5. \A k \in {x.key : x \in map} : k.data \in Data
  BY <1>1, EntryFacts
<1>6. "on_clear" \in Hooks
  BY DEF Hooks
<1> QED BY <1>1, <1>2, <1>4, <1>5, <1>6, TypeOKStep

\* So do the calls, and what comes between them.
LEMMA KeysInvNext ==
  ASSUME KeysInv, TypeOK, [Calls(Policies)]_mcvars
  PROVE  KeysInv' /\ TypeOK'
<1>1. CASE Insertion(Policies)
  BY <1>1, InsertInv DEF Insertion
<1>2. CASE Removal
  BY <1>2, RemoveInv DEF Removal
<1>3. CASE Clearing
  BY <1>3, ClearInv DEF Clearing
<1>4. CASE Forget
  BY <1>4 DEF Forget, KeysInv, ChosenOK, MapOK, Distinct, BucketsFor, Erased, TypeOK
<1>5. CASE UNCHANGED mcvars
  BY <1>5 DEF mcvars, vars, KeysInv, ChosenOK, MapOK, Distinct, BucketsFor, Erased, TypeOK
<1> QED BY <1>1, <1>2, <1>3, <1>4, <1>5 DEF Calls

\* Calls keep the map free of equal keys, and the buckets what it determines.
LEMMA KeysAndTypes == CallsSpec => [](KeysInv /\ TypeOK)
<1>1. CallsInit => KeysInv /\ TypeOK
  BY KeysInvInit
<1>2. (KeysInv /\ TypeOK) /\ [Calls(Policies)]_mcvars => (KeysInv /\ TypeOK)'
  BY KeysInvNext
<1> QED BY <1>1, <1>2, PTL DEF CallsSpec
-----------------------------------------------------------------------------
(* The theorems.                                                            *)

\* The map never has two entries for equal keys, and it determines the buckets:
\* no call leaves a key linked that is not stored, or stored that is not linked.
THEOREM KeysInvariant == CallsSpec => []KeysInv
<1>1. KeysInv /\ TypeOK => KeysInv
  OBVIOUS
<1> QED BY <1>1, KeysAndTypes, PTL

\* Every value in the map belongs to the type of its key, and a typed callback
\* gets keys of its type only, however hashes collide.
THEOREM KeysHaveTypes == CallsSpec => []TypeOK
<1>1. KeysInv /\ TypeOK => TypeOK
  OBVIOUS
<1> QED BY <1>1, KeysAndTypes, PTL

\* By its owned form, by reference and by a query, a key is found as the one
\* entry stored for it; a query with a wrong hash finds nothing.
THEOREM LookupsFindTheirKey == CallsSpec => []LookupsAgree
<1>1. KeysInv => LookupsAgree
  <2> SUFFICES ASSUME KeysInv, NEW d \in Data
               PROVE  /\ Cardinality(StoredFor(Identity(d))) <= 1
                      /\ Find(Erased(d)) = StoredFor(Identity(d))
                      /\ FindRef(KeyRef(d)) = StoredFor(Identity(d))
                      /\ \A h \in Hashes : FindBy(KeyLookup(d, h)) =
                           IF h = hash_of[Identity(d)] THEN StoredFor(Identity(d)) ELSE {}
    BY DEF LookupsAgree
  <2>1. ChosenOK /\ MapOK(map)
    BY DEF KeysInv
  <2>2. Cardinality(StoredFor(Identity(d))) <= 1
    <3>1. Cardinality({}) = 0 /\ \A x : Cardinality({x}) = 1
      BY FS_EmptySet, FS_Singleton
    <3>2. \/ StoredFor(Identity(d)) = {}
          \/ \E x : StoredFor(Identity(d)) = {x}
      BY <2>1, StoredOnce
    <3>3. Cardinality(StoredFor(Identity(d))) \in {0, 1}
      BY <3>1, <3>2
    <3> QED BY <3>3
  <2> QED BY <2>1, <2>2, FindIsStored
<1> QED BY <1>1, KeysAndTypes, PTL

\* Map and buckets agree up to Eq and no further: each entry is linked once,
\* under its policy, by the key that its value came with.
THEOREM BucketsFollowTheMap == CallsSpec => []MapAndBucketsAgree
<1>1. KeysInv => MapAndBucketsAgree
  <2> SUFFICES ASSUME KeysInv PROVE MapAndBucketsAgree
    OBVIOUS
  <2>1. ChosenOK /\ MapOK(map) /\ buckets = BucketsFor(map)
    BY DEF KeysInv
  <2>2. ASSUME NEW x \in map
        PROVE  /\ x.value \in Data /\ x.key.data \in Data /\ x.policy \in Policies
               /\ Erased(x.value).data = x.value /\ x.key = Erased(x.key.data)
               /\ Equal(Erased(x.value), x.key)
    <3>1. /\ x.value \in Data /\ x.key.data \in Data /\ x.policy \in Policies
          /\ x.key = Erased(x.key.data) /\ Identity(x.value) = Identity(x.key.data)
      BY <2>1, EntryFacts
    <3>2. Equal(Erased(x.value), x.key) <=> Identity(x.value) = Identity(x.key.data)
      BY <2>1, <3>1, EntryEqual
    <3> QED BY <2>1, <3>1, <3>2, ErasedType
  <2>3. ASSUME NEW p \in Policies, NEW b \in buckets[p]
        PROVE  \E x \in map : Equal(b, x.key) /\ x.policy = p /\ b.data = x.value
    <3>1. PICK x \in map : x.policy = p /\ b = Erased(x.value)
      BY <2>1, LinkedEntry
    <3> QED BY <2>2, <3>1
  <2>4. ASSUME NEW x \in map
        PROVE  Cardinality({b \in buckets[x.policy] : Equal(x.key, b)}) = 1
    <3>1. Erased(x.value) \in buckets[x.policy]
      BY <2>1, <2>2 DEF BucketsFor
    <3>2. ASSUME NEW b \in buckets[x.policy]
          PROVE  Equal(x.key, b) <=> b = Erased(x.value)
      <4>1. PICK y \in map : y.policy = x.policy /\ b = Erased(y.value)
        BY <2>1, <2>2, LinkedEntry
      <4>2. y.value \in Data /\ Identity(y.value) = Identity(y.key.data)
        BY <2>1, EntryFacts
      <4>3. Equal(Erased(x.key.data), Erased(y.value)) <=> Identity(x.key.data) = Identity(y.value)
        BY <2>1, <2>2, <4>2, EqualIsIdentity
      <4>4. Identity(x.key.data) = Identity(y.key.data) <=> x = y
        BY <2>1 DEF MapOK, Distinct
      <4>5. Erased(x.value).data = x.value /\ Erased(y.value).data = y.value
            /\ Identity(x.value) = Identity(x.key.data)
        BY <2>1, <2>2, <4>2, ErasedType, EntryFacts
      <4> QED BY <2>2, <4>1, <4>2, <4>3, <4>4, <4>5
    <3>3. {b \in buckets[x.policy] : Equal(x.key, b)} = {Erased(x.value)}
      BY <3>1, <3>2
    <3> QED BY <3>3, FS_Singleton
  <2> QED BY <2>3, <2>4 DEF MapAndBucketsAgree
<1> QED BY <1>1, KeysAndTypes, PTL

\* insert and remove return the value last stored for an equal key, and nothing
\* if there is none: no downcast fails or meets the value of another key.
THEOREM OwnValuesReturn == CallsSpec => ReturnsOwnValue
<1>1. KeysInv /\ [Calls(Policies)]_mcvars =>
        [call'.name \in {"insert", "remove"} =>
           returned' = {x.value : x \in StoredFor(call'.key)}]_mcvars
  <2> SUFFICES ASSUME KeysInv, Calls(Policies), call'.name \in {"insert", "remove"}
               PROVE  returned' = {x.value : x \in StoredFor(call'.key)}
    OBVIOUS
  <2>1. CASE Insertion(Policies)
    <3>1. PICK d \in Data, policy \in Policies :
            Insert(d, policy) /\ call'.key = Identity(d)
      BY <2>1 DEF Insertion
    <3>2. PICK G, key : Inserted(d, policy, G, key)
      BY <3>1, InsertFacts
    <3> QED BY <3>1, <3>2 DEF Inserted
  <2>2. CASE Removal
    <3>1. PICK d \in Data : Remove(d) /\ call'.key = Identity(d)
      BY <2>2 DEF Removal
    <3> QED BY <3>1, RemoveFacts
  <2>3. CASE Clearing \/ Forget
    BY <2>3 DEF Clearing, Forget
  <2> QED BY <2>1, <2>2, <2>3 DEF Calls
<1> QED BY <1>1, KeysAndTypes, PTL DEF CallsSpec, ReturnsOwnValue

\* What a call tells the hooks: one report, by the hook of the call, of keys
\* with the identities that leave, each once.  They are the keys the buckets
\* had, for insert, and those the map has, otherwise.
Departure(hook, K) ==
  /\ hook = CASE call'.name = "insert" -> "on_evict"
              [] call'.name = "remove" -> "on_remove"
              [] OTHER -> "on_clear"
  /\ heard' = Report(hook, K)
  /\ IsFiniteSet(K)
  /\ {Identity(k.data) : k \in K} = Present \ Present'
  /\ \A a, b \in K : Identity(a.data) = Identity(b.data) => a = b
  /\ \A k \in K : \E x \in StoredFor(Identity(k.data)) :
       k.data = IF call'.name = "insert" THEN x.value ELSE x.key.data

\* The keys of the entries of a set, in either form, depart with it.
LEMMA KeysDepart ==
  ASSUME MapOK(map), NEW G \in SUBSET map, NEW f, DOMAIN f = G,
         \A x \in G : Identity(f[x].data) = Identity(x.key.data)
  PROVE  LET K == {f[x] : x \in G}
         IN  /\ IsFiniteSet(K)
             /\ {Identity(k.data) : k \in K} = {Identity(x.key.data) : x \in G}
             /\ \A a, b \in K : Identity(a.data) = Identity(b.data) => a = b
<1> DEFINE K == {f[x] : x \in G}
<1>1. IsFiniteSet(G)
  BY FS_Subset DEF MapOK, Distinct
<1>2. [x \in G |-> f[x]] \in Surjection(G, K)
  BY DEF Surjection
<1>3. IsFiniteSet(K)
  <2> HIDE DEF K
  <2> QED BY <1>1, <1>2, FS_Surjection
<1>4. {Identity(k.data) : k \in K} = {Identity(x.key.data) : x \in G}
  OBVIOUS
<1>5. \A x, y \in G : Identity(x.key.data) = Identity(y.key.data) => x = y
  BY DEF MapOK, Distinct
<1>6. \A a, b \in K : Identity(a.data) = Identity(b.data) => a = b
  BY <1>5
<1> QED BY <1>3, <1>4, <1>6

\* An insert reports what it evicts, by the keys of the buckets.
LEMMA InsertDeparts ==
  ASSUME KeysInv, Insertion(Policies)
  PROVE  \E K : Departure("on_evict", K)
<1>1. PICK d \in Data, policy \in Policies : Insert(d, policy) /\ call'.name = "insert"
  BY DEF Insertion
<1>2. PICK G, key : Inserted(d, policy, G, key)
  BY <1>1, InsertFacts
<1> DEFINE i == Identity(d)
           f == [x \in G |-> Erased(x.value)]
           K == {Erased(x.value) : x \in G}
<1>3. ChosenOK /\ MapOK(map) /\ G \in SUBSET map
  BY <1>2 DEF KeysInv, Inserted
<1>4. ASSUME NEW x \in G
      PROVE  /\ f[x] = Erased(x.value) /\ f[x].data = x.value
             /\ Identity(x.value) = Identity(x.key.data)
  <2>1. x.value \in Data /\ Identity(x.value) = Identity(x.key.data)
    BY <1>3, EntryFacts
  <2> QED BY <1>3, <2>1, ErasedType
<1>5. K = {f[x] : x \in G} /\ DOMAIN f = G
  OBVIOUS
<1>6. /\ IsFiniteSet(K)
      /\ {Identity(k.data) : k \in K} = {Identity(x.key.data) : x \in G}
      /\ \A a, b \in K : Identity(a.data) = Identity(b.data) => a = b
  <2>1. \A x \in G : Identity(f[x].data) = Identity(x.key.data)
    BY <1>4
  <2> HIDE DEF f, K
  <2> QED BY <1>3, <1>5, <2>1, KeysDepart
<1>7. {Identity(x.key.data) : x \in G} = Present \ Present'
  <2>1. Erased(key).data = key /\ Identity(key) = i
    BY <1>2, <1>3, ErasedType DEF Inserted
  <2>2. Present' = {Identity(x.key.data) : x \in map \ (G \cup StoredFor(i))} \cup {i}
    <3> DEFINE new == [key |-> Erased(key), value |-> d, policy |-> policy]
    <3>1. map' = (map \ (G \cup StoredFor(i))) \cup {new}
      BY <1>2 DEF Inserted
    <3>2. Identity(new.key.data) = i
      BY <2>1
    <3>3. Present' = {Identity(x.key.data) : x \in map'}
      BY DEF Present, Identity
    <3> HIDE DEF new, i
    <3> QED BY <3>1, <3>2, <3>3
  <2>3. \A x \in G : Identity(x.key.data) # i
    BY <1>2 DEF Inserted
  <2>4. \A x, y \in map : Identity(x.key.data) = Identity(y.key.data) => x = y
    BY <1>3 DEF MapOK, Distinct
  <2>5. \A x \in map : x \in StoredFor(i) <=> Identity(x.key.data) = i
    BY DEF StoredFor
  <2> HIDE DEF i
  <2> QED BY <1>3, <2>2, <2>3, <2>4, <2>5 DEF Present
<1>8. \A k \in K : \E x \in StoredFor(Identity(k.data)) : k.data = x.value
  <2> SUFFICES ASSUME NEW x \in G
               PROVE  x \in StoredFor(Identity(Erased(x.value).data))
                      /\ Erased(x.value).data = x.value
    OBVIOUS
  <2> QED BY <1>3, <1>4 DEF StoredFor
<1>9. heard' = Report("on_evict", K)
  BY <1>2 DEF Inserted
<1> HIDE DEF K
<1> QED BY <1>1, <1>6, <1>7, <1>8, <1>9 DEF Departure

\* remove and clear report the keys of the map.
LEMMA MapKeysDepart ==
  ASSUME KeysInv, NEW G \in SUBSET map, map' = map \ G, call'.name # "insert",
         NEW hook, hook = IF call'.name = "remove" THEN "on_remove" ELSE "on_clear",
         heard' = Report(hook, {x.key : x \in G})
  PROVE  Departure(hook, {x.key : x \in G})
<1> DEFINE f == [x \in G |-> x.key]
           K == {x.key : x \in G}
<1>1. MapOK(map)
  BY DEF KeysInv
<1>2. K = {f[x] : x \in G} /\ DOMAIN f = G
  OBVIOUS
<1>3. /\ IsFiniteSet(K)
      /\ {Identity(k.data) : k \in K} = {Identity(x.key.data) : x \in G}
      /\ \A a, b \in K : Identity(a.data) = Identity(b.data) => a = b
  <2>1. \A x \in G : Identity(f[x].data) = Identity(x.key.data)
    OBVIOUS
  <2> HIDE DEF f, K
  <2> QED BY <1>1, <1>2, <2>1, KeysDepart
<1>4. {Identity(x.key.data) : x \in G} = Present \ Present'
  <2>1. Present' = {Identity(x.key.data) : x \in map \ G}
    BY DEF Present, Identity
  <2>2. \A x, y \in map : Identity(x.key.data) = Identity(y.key.data) => x = y
    BY <1>1 DEF MapOK, Distinct
  <2> QED BY <2>1, <2>2 DEF Present
<1>5. \A k \in K : \E x \in StoredFor(Identity(k.data)) : k.data = x.key.data
  BY DEF StoredFor
<1> HIDE DEF K
<1> QED BY <1>3, <1>4, <1>5 DEF Departure, K

\* Every call makes one report, of the keys that leave.
LEMMA CallDeparts ==
  ASSUME KeysInv, Calls(Policies)
  PROVE  \E hook \in Hooks : \E K : Departure(hook, K)
<1>1. CASE Insertion(Policies)
  BY <1>1, InsertDeparts DEF Hooks
<1>2. CASE Removal
  <2>1. PICK d \in Data : Remove(d) /\ call'.name = "remove"
    BY <1>2 DEF Removal
  <2>2. /\ map' = map \ StoredFor(Identity(d))
        /\ heard' = Report("on_remove", {x.key : x \in StoredFor(Identity(d))})
    BY <2>1, RemoveFacts
  <2>3. StoredFor(Identity(d)) \in SUBSET map
    BY DEF StoredFor
  <2>4. Departure("on_remove", {x.key : x \in StoredFor(Identity(d))})
    BY <2>1, <2>2, <2>3, MapKeysDepart
  <2> QED BY <2>4 DEF Hooks
<1>3. CASE Clearing
  <2>1. /\ map' = map \ map /\ call'.name = "clear"
        /\ heard' = Report("on_clear", {x.key : x \in map})
    BY <1>3 DEF Clearing, Clear
  <2>2. Departure("on_clear", {x.key : x \in map})
    BY <2>1, MapKeysDepart
  <2> QED BY <2>2 DEF Hooks
<1>4. CASE Forget
  <2>1. {} \in SUBSET map /\ map' = map \ {} /\ call'.name = "none"
    BY <1>4 DEF Forget
  <2>2. heard' = Report("on_clear", {x.key : x \in {}})
    BY <1>4 DEF Forget, Report
  <2>3. Departure("on_clear", {x.key : x \in {}})
    BY <2>1, <2>2, MapKeysDepart
  <2> QED BY <2>3 DEF Hooks
<1> QED BY <1>1, <1>2, <1>3, <1>4 DEF Calls

\* on_remove and on_clear are given the key that the map stores, on_evict the
\* key of the last insert.
THEOREM HooksGiveStoredKeys == CallsSpec => HooksGetStoredKeys
<1>1. KeysInv /\ [Calls(Policies)]_mcvars =>
        [\A h \in heard' : \E x \in StoredFor(Identity(h.key)) :
           h.key = IF call'.name = "insert" THEN x.value ELSE x.key.data]_mcvars
  <2> SUFFICES ASSUME KeysInv, Calls(Policies), NEW h \in heard'
               PROVE  \E x \in StoredFor(Identity(h.key)) :
                        h.key = IF call'.name = "insert" THEN x.value ELSE x.key.data
    OBVIOUS
  <2>0. PICK hook \in Hooks : \E K : Departure(hook, K)
    BY CallDeparts
  <2>1. PICK K : Departure(hook, K)
    BY <2>0
  <2>2. heard' = {[hook |-> Told(hook), key |-> k.data] : k \in Audible(K)}
    BY <2>1, ReportDef DEF Departure, KeysInv
  <2>3. PICK k \in K : h.key = k.data
    BY <2>2 DEF Audible
  <2> QED BY <2>1, <2>3 DEF Departure
<1> QED BY <1>1, KeysAndTypes, PTL DEF CallsSpec, HooksGetStoredKeys

\* A set and its image under a function that is one to one on it have as many
\* elements.
LEMMA ImageCount ==
  ASSUME NEW f, IsFiniteSet(DOMAIN f), \A x, y \in DOMAIN f : f[x] = f[y] => x = y
  PROVE  Cardinality({f[x] : x \in DOMAIN f}) = Cardinality(DOMAIN f)
<1> DEFINE S == DOMAIN f
           T == {f[x] : x \in S}
           g == [x \in S |-> f[x]]
<1>1. g \in Bijection(S, T)
  <2>1. g \in [S -> T] /\ \A x \in S : g[x] = f[x]
    OBVIOUS
  <2>2. \A x, y \in DOMAIN g : g[x] = g[y] => x = y
    OBVIOUS
  <2>3. \A t \in T : \E x \in S : g[x] = t
    OBVIOUS
  <2> HIDE DEF S, T, g
  <2> QED BY <2>1, <2>2, <2>3 DEF Bijection, Injection, Surjection, IsInjective
<1>2. ExistsBijection(S, T)
  BY <1>1 DEF ExistsBijection
<1> HIDE DEF S, T, g
<1>3. Cardinality(T) = Cardinality(S)
  BY <1>2, FS_Bijection DEF S
<1> QED BY <1>3 DEF S, T

\* User code hears of each departure once, by the hook that belongs to the
\* call; a typed lifecycle hears of the departures of its own type only.
THEOREM DeparturesAreHeardOnce == CallsSpec => HooksHearDepartures
<1> DEFINE gone == Present \ Present'
           audible == CASE lifecycle.kind = "default" -> {}
                        [] lifecycle.kind = "typed" -> {i \in gone : i[1] = lifecycle.type}
                        [] OTHER -> gone
           hook == IF lifecycle.kind # "custom" THEN "on_evict"
                   ELSE CASE call'.name = "insert" -> "on_evict"
                          [] call'.name = "remove" -> "on_remove"
                          [] OTHER -> "on_clear"
<1>1. ASSUME KeysInv, Calls(Policies)
      PROVE  /\ Cardinality(heard') = Cardinality(audible)
             /\ {<<h.hook, Identity(h.key)>> : h \in heard'} = {hook} \X audible
  <2>0. PICK called \in Hooks : \E K : Departure(called, K)
    BY <1>1, CallDeparts
  <2>1. PICK K : Departure(called, K)
    BY <2>0
  <2> DEFINE A == Audible(K)
             f == [k \in A |-> Identity(k.data)]
             g == [k \in A |-> [hook |-> Told(called), key |-> k.data]]
  <2>2. hook = Told(called)
    <3>1. called = CASE call'.name = "insert" -> "on_evict"
                     [] call'.name = "remove" -> "on_remove"
                     [] OTHER -> "on_clear"
      BY <2>1 DEF Departure
    <3>2. CASE lifecycle.kind # "custom"
      BY <3>2 DEF Told
    <3>3. CASE lifecycle.kind = "custom"
      BY <3>1, <3>3 DEF Told
    <3> QED BY <3>2, <3>3
  <2>3. /\ ChosenOK /\ heard' = Report(called, K) /\ IsFiniteSet(K)
        /\ {Identity(k.data) : k \in K} = gone
        /\ \A a, b \in K : Identity(a.data) = Identity(b.data) => a = b
    BY <1>1, <2>1 DEF Departure, KeysInv
  <2>4. A \subseteq K
    BY DEF Audible
  <2>5. audible = {f[k] : k \in DOMAIN f}
    <3>1. audible = {Identity(k.data) : k \in A}
      <4>1. CASE lifecycle.kind = "default"
        BY <4>1 DEF Audible
      <4>2. CASE lifecycle.kind = "typed"
        <5>1. A = {k \in K : k.data.type = lifecycle.type}
          BY <4>2 DEF Audible
        <5>2. audible = {i \in gone : i[1] = lifecycle.type}
          BY <4>2
        <5>3. \A k \in K : Identity(k.data)[1] = k.data.type
          BY DEF Identity
        <5> HIDE DEF A, audible, gone
        <5> QED BY <2>3, <5>1, <5>2, <5>3
      <4>3. CASE lifecycle.kind \notin {"default", "typed"}
        <5>1. A = K /\ audible = gone
          BY <4>3 DEF Audible
        <5> QED BY <2>3, <5>1
      <4> QED BY <4>1, <4>2, <4>3
    <3> HIDE DEF audible, A
    <3> QED BY <3>1
  <2>6. heard' = {g[k] : k \in DOMAIN g}
    <3>1. heard' = {[hook |-> Told(called), key |-> k.data] : k \in A}
      BY <2>3, ReportDef
    <3> HIDE DEF A
    <3> QED BY <3>1
  <2>7. Cardinality(heard') = Cardinality(audible)
    <3>1. DOMAIN f = A /\ DOMAIN g = A /\ IsFiniteSet(A)
      BY <2>3, <2>4, FS_Subset
    <3>2. \A a, b \in A : f[a] = f[b] => a = b
      BY <2>3, <2>4
    <3>3. \A a, b \in A : g[a] = g[b] => a = b
      <4>1. \A a \in A : g[a].key = a.data
        OBVIOUS
      <4> HIDE DEF g, A
      <4> QED BY <2>3, <2>4, <4>1
    <3> HIDE DEF f, g, A, audible
    <3>4. Cardinality(audible) = Cardinality(A)
      BY <2>5, <3>1, <3>2, ImageCount
    <3>5. Cardinality(heard') = Cardinality(A)
      BY <2>6, <3>1, <3>3, ImageCount
    <3> QED BY <3>4, <3>5
  <2>8. {<<h.hook, Identity(h.key)>> : h \in heard'} = {hook} \X audible
    <3>1. \A k \in A : <<g[k].hook, Identity(g[k].key)>> = <<hook, f[k]>>
      BY <2>2
    <3>2. DOMAIN f = A /\ DOMAIN g = A
      OBVIOUS
    <3> HIDE DEF f, g, A, audible, hook
    <3>3. {<<h.hook, Identity(h.key)>> : h \in heard'} = {<<hook, f[k]>> : k \in A}
      BY <2>6, <3>1, <3>2
    <3> QED BY <2>5, <3>2, <3>3
  <2> QED BY <2>7, <2>8
<1>2. KeysInv /\ [Calls(Policies)]_mcvars =>
        [/\ Cardinality(heard') = Cardinality(audible)
         /\ {<<h.hook, Identity(h.key)>> : h \in heard'} = {hook} \X audible]_mcvars
  <2> HIDE DEF gone, audible, hook
  <2> QED BY <1>1
<1> QED BY <1>2, KeysAndTypes, PTL DEF CallsSpec, HooksHearDepartures
-----------------------------------------------------------------------------
(* Seen through Eq, each shard does what a store of atoms does.             *)

\* The store that the entries of a map in shard s are.
AtomsOf(m, s) ==
  LET here == {x \in m : ShardOf(x.key.hash) = s}
  IN  [i \in {Identity(x.key.data) : x \in here} |->
         [size |-> 1,
          policy |-> (CHOOSE x \in here : Identity(x.key.data) = i).policy]]

\* Atoms as a function of the map, before and after a step.
LEMMA AtomsAre ==
  /\ \A s : Atoms(s) = AtomsOf(map, s)
  /\ \A s : Atoms(s)' = AtomsOf(map', s)
BY DEF Atoms, AtomsOf, In, ShardOf, Identity

\* The atoms of a shard are the identities of its entries, with their policies.
LEMMA AtomsDef ==
  ASSUME NEW m, Distinct(m), NEW s
  PROVE  /\ DOMAIN AtomsOf(m, s) = Identities(InShard(m, s))
         /\ \A x \in InShard(m, s) :
              AtomsOf(m, s)[Identity(x.key.data)] = [size |-> 1, policy |-> x.policy]
<1> DEFINE here == InShard(m, s)
<1>1. AtomsOf(m, s) = [i \in {Identity(x.key.data) : x \in here} |->
         [size |-> 1,
          policy |-> (CHOOSE x \in here : Identity(x.key.data) = i).policy]]
  BY DEF AtomsOf, InShard
<1>2. ASSUME NEW x \in here
      PROVE  (CHOOSE y \in here : Identity(y.key.data) = Identity(x.key.data)) = x
  BY <1>2 DEF Distinct, InShard
<1>3. DOMAIN AtomsOf(m, s) = Identities(here)
  BY <1>1 DEF Identities
<1>4. \A x \in here :
        AtomsOf(m, s)[Identity(x.key.data)] = [size |-> 1, policy |-> x.policy]
  <2> DEFINE who(i) == CHOOSE x \in here : Identity(x.key.data) = i
  <2>1. /\ AtomsOf(m, s) = [i \in {Identity(x.key.data) : x \in here} |->
                             [size |-> 1, policy |-> who(i).policy]]
        /\ \A x \in here : who(Identity(x.key.data)) = x
    BY <1>1, <1>2
  <2> HIDE DEF who, here
  <2> QED BY <2>1
<1> QED BY <1>3, <1>4

\* Entries of size 1 are counted one by one.
LEMMA UnitTotal ==
  ASSUME NEW m, IsFiniteSet(DOMAIN m), \A k \in DOMAIN m : m[k].size = 1
  PROVE  TotalSize(m) = Cardinality(DOMAIN m)
<1> DEFINE f == [k \in DOMAIN m |-> <<k, 1>>]
<1>1. BytesOf(m) = {f[k] : k \in DOMAIN f}
  <2>1. \A k \in DOMAIN m : {k} \X (1 .. m[k].size) = {<<k, 1>>}
    <3>1. 1 .. 1 = {1}
      OBVIOUS
    <3> QED BY <3>1
  <2>2. BytesOf(m) = UNION {{k} \X (1 .. m[k].size) : k \in DOMAIN m}
    BY DEF BytesOf
  <2>3. BytesOf(m) = UNION {{<<k, 1>>} : k \in DOMAIN m}
    BY <2>1, <2>2
  <2> QED BY <2>3
<1>2. \A x, y \in DOMAIN f : f[x] = f[y] => x = y
  OBVIOUS
<1>3. DOMAIN f = DOMAIN m
  OBVIOUS
<1> HIDE DEF f
<1> QED BY <1>1, <1>2, <1>3, ImageCount DEF TotalSize

\* Two maps of entries of size 1 whose keys correspond.
Renamed(m, n, f) ==
  /\ IsFiniteSet(DOMAIN m)
  /\ DOMAIN f = DOMAIN m /\ DOMAIN n = {f[k] : k \in DOMAIN m}
  /\ \A j, k \in DOMAIN m : f[j] = f[k] => j = k
  /\ \A k \in DOMAIN m : /\ m[k].size = 1 /\ n[f[k]].size = 1
                         /\ n[f[k]].policy = m[k].policy

\* Without keys that correspond, they still have the same total size.
LEMMA RenamedTotal ==
  ASSUME NEW m, NEW n, NEW f, Renamed(m, n, f), NEW S \in SUBSET DOMAIN m
  PROVE  TotalSize(Without(m, S)) = TotalSize(Without(n, {f[k] : k \in S}))
<1> DEFINE a == Without(m, S)
           b == Without(n, {f[k] : k \in S})
           g == [k \in DOMAIN m \ S |-> f[k]]
<1>1. /\ DOMAIN a = DOMAIN m \ S /\ \A k \in DOMAIN a : a[k] = m[k]
      /\ DOMAIN b = DOMAIN n \ {f[k] : k \in S} /\ \A i \in DOMAIN b : b[i] = n[i]
  BY DEF Without, Restrict
<1> HIDE DEF a, b
<1>2. DOMAIN b = {f[k] : k \in DOMAIN m \ S}
  <2>1. DOMAIN b = {f[k] : k \in DOMAIN m} \ {f[k] : k \in S}
    BY <1>1 DEF Renamed
  <2>2. \A j, k \in DOMAIN m : f[j] = f[k] => j = k
    BY DEF Renamed
  <2> QED BY <2>1, <2>2
<1>3. DOMAIN b = {g[k] : k \in DOMAIN g} /\ DOMAIN g = DOMAIN a
  BY <1>1, <1>2
<1>4. IsFiniteSet(DOMAIN a)
  BY <1>1, FS_Subset DEF Renamed
<1>5. \A j, k \in DOMAIN g : g[j] = g[k] => j = k
  BY DEF Renamed
<1>6. IsFiniteSet(DOMAIN b) /\ Cardinality(DOMAIN b) = Cardinality(DOMAIN a)
  <2> HIDE DEF a, b, g
  <2>1. Cardinality(DOMAIN b) = Cardinality(DOMAIN a)
    BY <1>3, <1>4, <1>5, ImageCount
  <2>2. [k \in DOMAIN g |-> g[k]] \in Surjection(DOMAIN a, DOMAIN b)
    BY <1>3 DEF Surjection
  <2> QED BY <1>4, <2>1, <2>2, FS_Surjection
<1>7. (\A k \in DOMAIN a : a[k].size = 1) /\ \A i \in DOMAIN b : b[i].size = 1
  <2>1. \A k \in DOMAIN m : m[k].size = 1 /\ n[f[k]].size = 1
    BY DEF Renamed
  <2> QED BY <1>1, <1>2, <2>1
<1>8. TotalSize(a) = Cardinality(DOMAIN a) /\ TotalSize(b) = Cardinality(DOMAIN b)
  BY <1>4, <1>6, <1>7, UnitTotal
<1> QED BY <1>6, <1>8 DEF a, b

\* The stores use the same sizes.
LEMMA SameAccounting ==
  /\ \A m : Contract!TotalSize(m) = TotalSize(m)
  /\ \A m, S : Contract!Without(m, S) = Without(m, S)
  /\ \A s, m : Abstract(s)!TotalSize(m) = TotalSize(m)
  /\ \A s, m, S : Abstract(s)!Without(m, S) = Without(m, S)
  /\ \A s, m, k, e : Abstract(s)!With(m, k, e) = With(m, k, e)
<1>1. \A m : Contract!TotalSize(m) = TotalSize(m)
  BY DEF Contract!TotalSize, TotalSize, Contract!BytesOf, BytesOf,
         Contract!Cardinality, Cardinality
<1>2. \A m, S : Contract!Without(m, S) = Without(m, S)
  BY DEF Contract!Without, Without, Contract!Restrict, Restrict
<1>3. \A s, m : Abstract(s)!TotalSize(m) = TotalSize(m)
  BY DEF Abstract!TotalSize, TotalSize, Abstract!BytesOf, BytesOf,
         Abstract!Cardinality, Cardinality
<1>4. \A s, m, S : Abstract(s)!Without(m, S) = Without(m, S)
  BY DEF Abstract!Without, Without, Abstract!Restrict, Restrict
<1>5. \A s, m, k, e : Abstract(s)!With(m, k, e) = With(m, k, e)
  BY DEF Abstract!With, With
<1> QED BY <1>1, <1>2, <1>3, <1>4, <1>5

\* What may be evicted in one map may be evicted in the other.
LEMMA RenamedVictims ==
  ASSUME NEW m, NEW n, NEW f, Renamed(m, n, f), NEW V \in Contract!Victims(m, 1), NEW s
  PROVE  {f[k] : k \in V} \in Abstract(s)!Victims(n, 1)
<1> DEFINE W == {f[k] : k \in V}
<1>1. /\ V \in SUBSET DOMAIN m
      /\ TotalSize(Without(m, V)) + 1 <= Capacity \/ V = DOMAIN m
      /\ \A v \in V, t \in DOMAIN m \ V : m[v].policy >= m[t].policy
      /\ V # {} => \E last \in V :
           /\ ~ (TotalSize(Without(m, V \ {last})) + 1 <= Capacity)
           /\ \A v \in V : m[v].policy >= m[last].policy
  BY SameAccounting DEF Contract!Victims
<1>2. W \in SUBSET DOMAIN n
  BY <1>1 DEF Renamed
<1>3. TotalSize(Without(n, W)) = TotalSize(Without(m, V))
  BY <1>1, RenamedTotal
<1>4. V = DOMAIN m => W = DOMAIN n
  BY DEF Renamed
<1>5. \A v \in W, t \in DOMAIN n \ W : n[v].policy >= n[t].policy
  BY <1>1 DEF Renamed
<1>6. ASSUME W # {}
      PROVE  \E last \in W :
               /\ ~ (TotalSize(Without(n, W \ {last})) + 1 <= Capacity)
               /\ \A v \in W : n[v].policy >= n[last].policy
  <2>1. PICK last \in V : /\ ~ (TotalSize(Without(m, V \ {last})) + 1 <= Capacity)
                          /\ \A v \in V : m[v].policy >= m[last].policy
    BY <1>1, <1>6
  <2>2. W \ {f[last]} = {f[k] : k \in V \ {last}}
    BY <1>1 DEF Renamed
  <2>3. TotalSize(Without(n, W \ {f[last]})) = TotalSize(Without(m, V \ {last}))
    <3>1. V \ {last} \in SUBSET DOMAIN m
      BY <1>1
    <3> HIDE DEF W
    <3> QED BY <2>2, <3>1, RenamedTotal
  <2>4. \A v \in W : n[v].policy >= n[f[last]].policy
    BY <1>1, <2>1 DEF Renamed
  <2> QED BY <2>1, <2>3, <2>4
<1> HIDE DEF W
<1> QED BY <1>1, <1>2, <1>3, <1>4, <1>5, <1>6, SameAccounting DEF Abstract!Victims, W

\* A map of atoms is determined by its domain and its values.
LEMMA AtomsEqual ==
  ASSUME NEW m, NEW s, NEW g, g = [i \in DOMAIN g |-> g[i]],
         DOMAIN AtomsOf(m, s) = DOMAIN g,
         \A i \in DOMAIN g : AtomsOf(m, s)[i] = g[i]
  PROVE  AtomsOf(m, s) = g
<1>1. AtomsOf(m, s) = [i \in DOMAIN AtomsOf(m, s) |-> AtomsOf(m, s)[i]]
  BY DEF AtomsOf
<1> QED BY <1>1

\* The keys the buckets of a shard link correspond to its atoms.
LEMMA LinkedRenamed ==
  ASSUME ChosenOK, MapOK(map), NEW i, NEW s
  PROVE  LET L == Linked(BucketsFor(map \ StoredFor(i)), s)
         IN  Renamed(L, Without(AtomsOf(map, s), {i}), [b \in DOMAIN L |-> Identity(b.data)])
<1> DEFINE M == map \ StoredFor(i)
           here == InShard(M, s)
           L == Linked(BucketsFor(M), s)
           A == AtomsOf(map, s)
           n == Without(A, {i})
           f == [b \in DOMAIN L |-> Identity(b.data)]
           g == [x \in here |-> Erased(x.value)]
<1>1. MapOK(M) /\ here \subseteq map
  BY SmallerMap DEF InShard
<1>2. /\ Distinct(map) /\ IsFiniteSet(here)
      /\ here = {x \in InShard(map, s) : Identity(x.key.data) # i}
  BY <1>1, FS_Subset DEF MapOK, StoredFor, InShard
<1>3. ASSUME NEW x \in here
      PROVE  /\ Erased(x.value).data = x.value
             /\ Identity(x.value) = Identity(x.key.data)
  <2>1. x.value \in Data /\ Identity(x.value) = Identity(x.key.data)
    BY <1>1, EntryFacts
  <2> QED BY <2>1, ErasedType
<1> HIDE DEF M
<1>4. /\ DOMAIN L = LastKeys(here)
      /\ \A x \in here : L[Erased(x.value)] = [size |-> 1, policy |-> x.policy]
  BY <1>1, LinkedDef
<1>5. /\ DOMAIN A = Identities(InShard(map, s))
      /\ \A x \in InShard(map, s) :
           A[Identity(x.key.data)] = [size |-> 1, policy |-> x.policy]
  BY <1>2, AtomsDef
<1>6. /\ DOMAIN n = DOMAIN A \ {i} /\ \A j \in DOMAIN n : n[j] = A[j]
  BY DEF Without, Restrict
<1> HIDE DEF here, L, n, A
<1>7. /\ DOMAIN n = Identities(here)
      /\ \A x \in here : n[Identity(x.key.data)] = [size |-> 1, policy |-> x.policy]
  BY <1>2, <1>5, <1>6 DEF Identities
<1>8. IsFiniteSet(DOMAIN L)
  <2>1. g \in Surjection(here, DOMAIN L)
    <3>1. g \in [here -> DOMAIN L] /\ \A b \in DOMAIN L : \E x \in here : g[x] = b
      BY <1>4 DEF LastKeys
    <3> QED BY <3>1 DEF Surjection
  <2> HIDE DEF g
  <2> QED BY <1>2, <2>1, FS_Surjection
<1>9. DOMAIN f = DOMAIN L /\ \A x \in here : f[Erased(x.value)] = Identity(x.key.data)
  BY <1>3, <1>4 DEF LastKeys
<1> HIDE DEF f
<1>10. DOMAIN n = {f[k] : k \in DOMAIN L}
  BY <1>4, <1>7, <1>9 DEF LastKeys, Identities
<1>11. \A j, k \in DOMAIN L : f[j] = f[k] => j = k
  BY <1>1, <1>2, <1>4, <1>9 DEF LastKeys, Distinct
<1>12. ASSUME NEW k \in DOMAIN L
       PROVE  L[k].size = 1 /\ n[f[k]].size = 1 /\ n[f[k]].policy = L[k].policy
  <2>1. PICK x \in here : k = Erased(x.value)
    BY <1>4 DEF LastKeys
  <2>2. /\ f[k] = Identity(x.key.data)
        /\ L[k] = [size |-> 1, policy |-> x.policy]
        /\ n[Identity(x.key.data)] = [size |-> 1, policy |-> x.policy]
    BY <1>4, <1>7, <1>9, <2>1
  <2> QED BY <2>2
<1>13. Renamed(L, n, f)
  BY <1>8, <1>9, <1>10, <1>11, <1>12 DEF Renamed
<1> QED BY <1>13 DEF L, n, f, A, M

\* An insert is an insert of one shard's atoms and leaves the other shards alone.
LEMMA InsertAtoms ==
  ASSUME KeysInv, KeysInv', NEW d \in Data, NEW policy \in Policies, Insert(d, policy), NEW s
  PROVE  Atoms(s)' = Atoms(s) \/ Abstract(s)!Insert(Identity(d), 1, policy)
<1> DEFINE i == Identity(d)
<1>1. PICK G, key : Inserted(d, policy, G, key)
  BY InsertFacts
<1> DEFINE new == [key |-> Erased(key), value |-> d, policy |-> policy]
           rest == map \ (G \cup StoredFor(i))
           e == [size |-> 1, policy |-> policy]
<1>2. /\ ChosenOK /\ MapOK(map) /\ map' = rest \cup {new} /\ G \subseteq map
      /\ \A x \in G : Identity(x.key.data) # i /\ ShardOf(x.key.hash) = ShardOf(hash_of[i])
  BY <1>1 DEF Inserted, KeysInv
<1>3. Identity(new.key.data) = i /\ new.key.hash = hash_of[i] /\ new.policy = policy
  BY <1>1, <1>2, ErasedType DEF Inserted
<1>4. Distinct(map) /\ Distinct(map')
  BY <1>2 DEF KeysInv, MapOK, Distinct, Identity
<1>5. \A x \in map : /\ x \in StoredFor(i) <=> Identity(x.key.data) = i
                     /\ Identity(x.key.data) = i => x.key.hash = hash_of[i]
  BY <1>2, EntryFacts DEF StoredFor
<1> HIDE DEF new, i
<1>6. CASE s # ShardOf(hash_of[i])
  <2>1. {x \in map' : ShardOf(x.key.hash) = s} = {x \in map : ShardOf(x.key.hash) = s}
    BY <1>2, <1>3, <1>5, <1>6
  <2>2. AtomsOf(map', s) = AtomsOf(map, s)
    BY <2>1 DEF AtomsOf
  <2> QED BY <2>2, AtomsAre
<1>7. CASE s = ShardOf(hash_of[i])
  <2> DEFINE A == AtomsOf(map, s)
             B == AtomsOf(map', s)
             others == Without(A, {i})
             W == {Identity(x.key.data) : x \in G}
             left == Without(others, W)
             next == With(left, i, e)
  <2>1. W \in Abstract(s)!Victims(others, 1)
    <3> DEFINE L == Linked(BucketsFor(map \ StoredFor(i)), s)
               f == [b \in DOMAIN L |-> Identity(b.data)]
               V == {Erased(x.value) : x \in G}
    <3>1. V \in Contract!Victims(L, 1)
      BY <1>1, <1>7 DEF Inserted, i
    <3>2. Renamed(L, others, f)
      BY <1>2, LinkedRenamed
    <3>3. V \subseteq DOMAIN L
      <4> HIDE DEF L, V
      <4> QED BY <3>1, VictimsLinked
    <3>4. \A x \in G : f[Erased(x.value)] = Identity(x.key.data)
      <4> SUFFICES ASSUME NEW x \in G PROVE f[Erased(x.value)] = Identity(x.key.data)
        OBVIOUS
      <4>1. x \in map /\ Erased(x.value) \in DOMAIN L
        BY <1>2, <3>3
      <4>2. x.value \in Data /\ Identity(x.value) = Identity(x.key.data)
        BY <1>2, <4>1, EntryFacts
      <4>3. Erased(x.value).data = x.value
        BY <1>2, <4>2, ErasedType
      <4> HIDE DEF L
      <4> QED BY <4>1, <4>2, <4>3
    <3>5. W = {f[k] : k \in V}
      <4> HIDE DEF f
      <4> QED BY <3>4
    <3> HIDE DEF L, f, V, W, others
    <3> QED BY <3>1, <3>2, <3>5, RenamedVictims
  <2>2. /\ DOMAIN A = Identities(InShard(map, s))
        /\ \A x \in InShard(map, s) :
             A[Identity(x.key.data)] = [size |-> 1, policy |-> x.policy]
    BY <1>4, AtomsDef
  <2>3. /\ DOMAIN B = Identities(InShard(map', s))
        /\ \A x \in InShard(map', s) :
             B[Identity(x.key.data)] = [size |-> 1, policy |-> x.policy]
    BY <1>4, AtomsDef
  <2>4. /\ DOMAIN left = (DOMAIN A \ {i}) \ W /\ \A j \in DOMAIN left : left[j] = A[j]
    BY DEF Without, Restrict
  <2> HIDE DEF left
  <2>5. /\ next = [j \in DOMAIN next |-> next[j]]
        /\ DOMAIN next = DOMAIN left \cup {i} /\ next[i] = e
        /\ \A j \in DOMAIN left \ {i} : next[j] = left[j]
    BY DEF With
  <2> HIDE DEF next, A, B
  <2>6. InShard(map', s) = InShard(rest, s) \cup {new}
    BY <1>2, <1>3, <1>7 DEF InShard
  <2>7. DOMAIN B = DOMAIN next
    <3>1. DOMAIN B = Identities(InShard(rest, s)) \cup {i}
      <4> HIDE DEF rest
      <4> QED BY <1>3, <2>3, <2>6 DEF Identities
    <3>2. Identities(InShard(rest, s)) = (DOMAIN A \ {i}) \ W
      BY <1>2, <1>4, <1>5, <2>2 DEF Identities, InShard, Distinct
    <3> QED BY <2>4, <2>5, <3>1, <3>2
  <2>8. ASSUME NEW j \in DOMAIN next PROVE B[j] = next[j]
    <3>1. CASE j = i
      <4>1. B[i] = [size |-> 1, policy |-> policy]
        <5>1. new \in InShard(map', s)
          BY <2>6
        <5> QED BY <1>3, <2>3, <5>1
      <4> QED BY <2>5, <3>1, <4>1
    <3>2. CASE j # i
      <4>1. j \in DOMAIN left /\ j \in DOMAIN A /\ j \notin W
        BY <2>4, <2>5, <2>8, <3>2
      <4>2. PICK x \in InShard(map, s) : j = Identity(x.key.data)
        BY <2>2, <4>1 DEF Identities
      <4>3. x \in InShard(map', s)
        BY <1>2, <1>5, <3>2, <4>1, <4>2 DEF InShard
      <4>4. B[j] = [size |-> 1, policy |-> x.policy] /\ A[j] = [size |-> 1, policy |-> x.policy]
        BY <2>2, <2>3, <4>2, <4>3
      <4> QED BY <2>4, <2>5, <3>2, <4>1, <4>4
    <3> QED BY <3>1, <3>2
  <2>9. B = next
    <3>1. AtomsOf(map', s) = next
      BY <2>5, <2>7, <2>8, AtomsEqual DEF B
    <3> QED BY <3>1 DEF B
  <2>10. /\ Atoms(s) = A /\ Atoms(s)' = With(Without(Without(Atoms(s), {i}), W), i, e)
         /\ W \in Abstract(s)!Victims(Without(Atoms(s), {i}), 1)
    BY <2>1, <2>9, AtomsAre DEF A, B, next, left
  <2> HIDE DEF W, others
  <2>11. Abstract(s)!Insert(i, 1, policy)
    BY <2>10, SameAccounting DEF Abstract!Insert
  <2> QED BY <2>11 DEF i
<1> QED BY <1>6, <1>7 DEF i

\* So is a removal.
LEMMA RemoveAtoms ==
  ASSUME KeysInv, NEW d \in Data, Remove(d), NEW s
  PROVE  Atoms(s)' = Atoms(s) \/ Abstract(s)!Remove(Identity(d))
<1> DEFINE i == Identity(d)
           A == AtomsOf(map, s)
           B == AtomsOf(map', s)
           rest == Without(A, {i})
<1>1. map' = map \ StoredFor(i)
  BY RemoveFacts
<1>2. Distinct(map) /\ Distinct(map')
  BY <1>1 DEF KeysInv, MapOK, Distinct
<1>3. InShard(map', s) = {x \in InShard(map, s) : Identity(x.key.data) # i}
  BY <1>1 DEF StoredFor, InShard
<1>4. /\ DOMAIN A = Identities(InShard(map, s))
      /\ \A x \in InShard(map, s) :
           A[Identity(x.key.data)] = [size |-> 1, policy |-> x.policy]
  BY <1>2, AtomsDef
<1>5. /\ DOMAIN B = Identities(InShard(map', s))
      /\ \A x \in InShard(map', s) :
           B[Identity(x.key.data)] = [size |-> 1, policy |-> x.policy]
  BY <1>2, AtomsDef
<1>6. /\ rest = [j \in DOMAIN rest |-> rest[j]]
      /\ DOMAIN rest = DOMAIN A \ {i} /\ \A j \in DOMAIN rest : rest[j] = A[j]
  BY DEF Without, Restrict
<1> HIDE DEF i, A, B, rest
<1>7. DOMAIN B = DOMAIN rest
  BY <1>3, <1>4, <1>5, <1>6 DEF Identities
<1>8. ASSUME NEW j \in DOMAIN rest PROVE B[j] = rest[j]
  <2>1. j \in DOMAIN A /\ j # i /\ rest[j] = A[j]
    BY <1>6
  <2>2. PICK x \in InShard(map, s) : j = Identity(x.key.data)
    BY <1>4, <2>1 DEF Identities
  <2>3. x \in InShard(map', s)
    BY <1>3, <2>1, <2>2
  <2> QED BY <1>4, <1>5, <2>1, <2>2, <2>3
<1>9. B = rest
  <2>1. AtomsOf(map', s) = rest
    BY <1>6, <1>7, <1>8, AtomsEqual DEF B
  <2> QED BY <2>1 DEF B
<1>10. Atoms(s) = A /\ Atoms(s)' = rest
  BY <1>9, AtomsAre DEF A, B
<1>11. CASE i \in DOMAIN A
  <2>1. Atoms(s)' = Without(Atoms(s), {i})
    BY <1>10 DEF rest
  <2> QED BY <1>10, <1>11, <2>1, SameAccounting DEF Abstract!Remove, i
<1>12. CASE i \notin DOMAIN A
  <2>1. A = [j \in DOMAIN A |-> A[j]]
    BY DEF A, AtomsOf
  <2>2. rest = A
    BY <1>6, <1>12, <2>1
  <2> QED BY <1>10, <2>2
<1> QED BY <1>11, <1>12

\* A map without entries is the empty store.
LEMMA NoAtoms == \A s : AtomsOf({}, s) = << >>
<1> SUFFICES ASSUME NEW s PROVE AtomsOf({}, s) = << >>
  OBVIOUS
<1>1. DOMAIN AtomsOf({}, s) = {}
  BY DEF AtomsOf
<1> QED BY <1>1 DEF AtomsOf

\* To the rest of the cache a key is an atom: the map of each shard, seen
\* through Eq, does what each call does to a store of such keys, whatever
\* hashes collide.
THEOREM KeysAreLikeAtoms == CallsSpec => KeysAreAtoms
<1>1. CallsInit => \A s \in 0 .. ShardCount - 1 : Abstract(s)!Init
  <2> SUFFICES ASSUME CallsInit, NEW s \in 0 .. ShardCount - 1 PROVE Abstract(s)!Init
    OBVIOUS
  <2>1. Atoms(s) = << >>
    BY AtomsAre, NoAtoms DEF CallsInit, Init
  <2> QED BY <2>1 DEF Abstract!Init, Abstract!NoEntries
<1>2. KeysInv /\ KeysInv' /\ [Calls(Policies)]_mcvars =>
        [\A s \in 0 .. ShardCount - 1 :
           \/ Atoms(s)' = Atoms(s)
           \/ /\ call'.name = "insert"
              /\ Abstract(s)!Insert(call'.key, 1, call'.policy)
           \/ call'.name = "remove" /\ Abstract(s)!Remove(call'.key)
           \/ call'.name = "clear" /\ Abstract(s)!Drain]_mcvars
  <2> SUFFICES ASSUME KeysInv, KeysInv', Calls(Policies), NEW s \in 0 .. ShardCount - 1
               PROVE  \/ Atoms(s)' = Atoms(s)
                      \/ /\ call'.name = "insert"
                         /\ Abstract(s)!Insert(call'.key, 1, call'.policy)
                      \/ call'.name = "remove" /\ Abstract(s)!Remove(call'.key)
                      \/ call'.name = "clear" /\ Abstract(s)!Drain
    OBVIOUS
  <2>1. CASE Insertion(Policies)
    <3>1. PICK d \in Data, policy \in Policies :
            /\ Insert(d, policy)
            /\ call' = [name |-> "insert", key |-> Identity(d), policy |-> policy]
      BY <2>1 DEF Insertion
    <3>2. call'.name = "insert" /\ call'.key = Identity(d) /\ call'.policy = policy
      BY <3>1
    <3>3. Atoms(s)' = Atoms(s) \/ Abstract(s)!Insert(Identity(d), 1, policy)
      BY <3>1, InsertAtoms
    <3> QED BY <3>2, <3>3
  <2>2. CASE Removal
    <3>1. PICK d \in Data : Remove(d) /\ call' = [name |-> "remove", key |-> Identity(d)]
      BY <2>2 DEF Removal
    <3>2. call'.name = "remove" /\ call'.key = Identity(d)
      BY <3>1
    <3>3. Atoms(s)' = Atoms(s) \/ Abstract(s)!Remove(Identity(d))
      BY <3>1, RemoveAtoms
    <3> QED BY <3>2, <3>3
  <2>3. CASE Clearing
    <3>1. map' = {} /\ call'.name = "clear"
      BY <2>3 DEF Clearing, Clear
    <3>2. Atoms(s)' = << >>
      BY <3>1, AtomsAre, NoAtoms
    <3> QED BY <3>1, <3>2 DEF Abstract!Drain, Abstract!NoEntries
  <2>4. CASE Forget
    <3>1. map' = map
      BY <2>4 DEF Forget
    <3> QED BY <3>1, AtomsAre
  <2> QED BY <2>1, <2>2, <2>3, <2>4 DEF Calls
<1> QED BY <1>1, <1>2, KeysAndTypes, PTL DEF CallsSpec, KeysAreAtoms
=============================================================================
