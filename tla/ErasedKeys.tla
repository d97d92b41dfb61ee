----------------------------- MODULE ErasedKeys -----------------------------
(* Keys of several types in one cache: ErasedKey, the two borrowed forms it *)
(* is looked up by, and what the hooks are given.  Keys may collide in      *)
(* their hash, and keys that are equal may still look different (their      *)
(* form).  The clock is left out: which entries go is any choice of         *)
(* EvictingStore, over entries of size 1.  One operation is one step, for   *)
(* everything here happens under a shard's lock or in one thread after it.  *)
EXTENDS Accounting

CONSTANTS
  KeyTypes,    \* the types that implement CacheKey
  Names,       \* what Eq of a key compares
  Forms,       \* what Eq of a key ignores
  Hashes,      \* the hashes keys may have
  ShardCount,  \* a power of two
  Capacity     \* the entries a shard has room for

ASSUME HashesAssumption == Hashes \subseteq Nat
ASSUME ShardsAssumption == ShardCount \in Nat \ {0} /\ Capacity \in Nat

VARIABLES
  hash_of,    \* the hash of each key: chosen at the start, never changed
  lifecycle,  \* the lifecycle of the cache: the same
  map,        \* Shard::entries of all shards: pairs of an ErasedKey and an Entry
  buckets,    \* per policy, the ErasedKeys linked in the buckets of all shards
  returned,   \* the value the last operation returned, if any
  heard       \* the calls of user code that its hooks led to

vars == <<hash_of, lifecycle, map, buckets, returned, heard>>

Policies == 0 .. 2

\* A key as the client has it.  The value it inserts is named after it, so
\* that it can be told who stored it last.
Data == [type : KeyTypes, name : Names, form : Forms]

\* The wrapped lifecycle, and whether it is behind an Arc: it implements all
\* three hooks, or only on_evict, or it is a TypedLifecycle, or does nothing.
Lifecycles ==
  [kind : {"custom", "evict_only", "default"}, arc : BOOLEAN]
    \cup [kind : {"typed"}, type : KeyTypes, arc : BOOLEAN]

ErasedKey == [type_id : KeyTypes, hash : Hashes, data : Data]

Init ==
  /\ hash_of \in [KeyTypes \X Names -> Hashes]
  /\ lifecycle \in Lifecycles
  /\ map = {}
  /\ buckets = [p \in Policies |-> {}]
  /\ returned = {}
  /\ heard = {}
-----------------------------------------------------------------------------
\* ErasedKey::new.  The hash covers the type and the key.
Erased(d) == [type_id |-> d.type, hash |-> hash_of[<<d.type, d.name>>], data |-> d]

\* eq_impl::<K> and the comparison of the borrowed forms: downcast, compare.
SameKey(K, a, b) == a.type = K /\ b.type = K /\ a.name = b.name

\* Mutant of Equal: the hash is trusted.
EqualHash(a, b) == a.hash = b.hash

\* ErasedKey::eq, with the eq_fn of a.  That two clones of one Arc are equal
\* without calling it makes no difference, since Eq is reflexive.
Equal(a, b) ==
  /\ a.hash = b.hash /\ a.type_id = b.type_id
  /\ SameKey(a.type_id, a.data, b.data)

\* The borrowed forms: ErasedKeyRef has the hash its key has as an ErasedKey;
\* ErasedKeyLookup has the one that the client's Hash of the query gives.
KeyRef(d) == [type_id |-> d.type, hash |-> hash_of[<<d.type, d.name>>], key |-> d]
KeyLookup(d, h) == [type_id |-> d.type, hash |-> h, key |-> d]

RefEquals(q, k) ==
  /\ q.hash = k.hash /\ q.type_id = k.type_id
  /\ SameKey(q.type_id, q.key, k.data)

\* Mutant of LookupEquals: what has the type and the hash is taken.
LookupEqualsUnread(q, k) == q.hash = k.hash /\ q.type_id = k.type_id

\* eq_key is the client's, and compares as Eq does.
LookupEquals(q, k) ==
  /\ q.hash = k.hash /\ q.type_id = k.type_id
  /\ SameKey(q.type_id, q.key, k.data)

\* get_shard, and a lookup in that shard: the owned form for insert and
\* remove, a reference for get and contains, a query for get_by, contains_by.
ShardOf(hash) == hash % ShardCount
In(s) == {x \in map : ShardOf(x.key.hash) = s}
Find(k) == {x \in In(ShardOf(k.hash)) : Equal(k, x.key)}
FindRef(q) == {x \in In(ShardOf(q.hash)) : RefEquals(q, x.key)}
FindBy(q) == {x \in In(ShardOf(q.hash)) : LookupEquals(q, x.key)}

\* value_ref and into_value of the entries E: a downcast to K::Value.
ValuesOf(K, E) == {x.value : x \in {y \in E : y.value.type = K}}
-----------------------------------------------------------------------------
\* Mutant of Forwarded: the Arc has on_evict only, the others go there.
ForwardedEvict(hook) == "on_evict"

\* The impl for Arc<L>: each hook calls the same hook of L.
Forwarded(hook) == hook

\* Mutant of Hear: TypedLifecycle does not look at the type.
HearUntyped(hook, d) ==
  CASE lifecycle.kind = "default" -> {}
    [] lifecycle.kind = "custom" -> {[hook |-> hook, key |-> d]}
    [] OTHER -> {[hook |-> "on_evict", key |-> d]}

\* What L does with a hook: on_remove and on_clear are on_evict by default,
\* and TypedLifecycle calls back for keys of its type only.
Hear(hook, d) ==
  CASE lifecycle.kind = "default" -> {}
    [] lifecycle.kind = "custom" -> {[hook |-> hook, key |-> d]}
    [] lifecycle.kind = "typed" ->
         {[hook |-> "on_evict", key |-> d] : K \in {lifecycle.type} \cap {d.type}}
    [] OTHER -> {[hook |-> "on_evict", key |-> d]}

\* A hook of the cache is called for each of the keys K.
Report(hook, K) ==
  UNION {Hear(IF lifecycle.arc THEN Forwarded(hook) ELSE hook, k.data) : k \in K}

\* The buckets bs without the keys equal to one of K.
Unlinked(bs, K) ==
  [p \in Policies |-> {b \in bs[p] : \A k \in K : ~ Equal(k, b)}]

\* What the buckets of shard s link, as the map of an EvictingStore.
Linked(bs, s) ==
  LET keys(p) == {b \in bs[p] : ShardOf(b.hash) = s}
  IN  [b \in UNION {keys(p) : p \in Policies} |->
         [size |-> 1, policy |-> CHOOSE p \in Policies : b \in keys(p)]]

Contract == INSTANCE EvictingStore
  WITH Keys <- ErasedKey, Sizes <- {1}, store <- Linked(buckets, 0)

\* Mutant of Replaced: only the entry is looked at, not the bucket.
ReplacedUnlinked(k) == buckets

\* The bucket of the entry that an insert replaces lets go of its key.
Replaced(k) == Unlinked(buckets, {x.key : x \in Find(k)})

\* insert: the old entry's key is unlinked and entries are evicted, each with
\* the key its bucket has; an occupied slot of the map keeps its key.
Insert(d, policy) ==
  LET k == Erased(d)
      old == Find(k)
      others == Linked(Replaced(k), ShardOf(k.hash))
      entry(key) == [key |-> key, value |-> d, policy |-> policy]
  IN  \E V \in Contract!Victims(others, 1) :
        LET left == {x \in map \ old : \A v \in V : ~ Equal(v, x.key)}
            bs == Unlinked(Replaced(k), V)
        IN  /\ map' = left \cup (IF old = {} THEN {entry(k)}
                                 ELSE {entry(x.key) : x \in old})
            /\ buckets' = [bs EXCEPT ![policy] =
                 IF \E b \in @ : Equal(k, b) THEN @ ELSE @ \cup {k}]
            /\ returned' = ValuesOf(d.type, old)
            /\ heard' = Report("on_evict", V)
            /\ UNCHANGED <<hash_of, lifecycle>>

\* Mutant of Remove: the hook gets the key that was asked for.
RemoveReportsLookup(d) ==
  LET found == Find(Erased(d))
  IN  /\ map' = map \ found
      /\ buckets' = Unlinked(buckets, {x.key : x \in found})
      /\ returned' = ValuesOf(d.type, found)
      /\ heard' = IF found = {} THEN {} ELSE Report("on_remove", {Erased(d)})
      /\ UNCHANGED <<hash_of, lifecycle>>

\* remove: the hook gets the key of the map.
Remove(d) ==
  LET found == Find(Erased(d))
  IN  /\ map' = map \ found
      /\ buckets' = Unlinked(buckets, {x.key : x \in found})
      /\ returned' = ValuesOf(d.type, found)
      /\ heard' = Report("on_remove", {x.key : x \in found})
      /\ UNCHANGED <<hash_of, lifecycle>>

\* clear: the hooks get the keys of the map.
Clear ==
  /\ map' = {}
  /\ buckets' = [p \in Policies |-> {}]
  /\ returned' = {}
  /\ heard' = Report("on_clear", {x.key : x \in map})
  /\ UNCHANGED <<hash_of, lifecycle>>

Next ==
  \/ \E d \in Data, policy \in Policies : Insert(d, policy)
  \/ \E d \in Data : Remove(d)
  \/ Clear

Spec == Init /\ [][Next]_vars
=============================================================================
