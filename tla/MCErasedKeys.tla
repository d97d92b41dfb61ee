---------------------------- MODULE MCErasedKeys ----------------------------
(* ErasedKeys with a bound for TLC, a history variable for the last call    *)
(* made, and the properties.                                                *)
EXTENDS ErasedKeys, TLC

CONSTANTS
  UsedPolicies,   \* bound: the policies that inserts use
  UsedKinds       \* bound: the kinds of lifecycle, all behind an Arc

VARIABLE call     \* the last call: its name, the identity of its key, its policy

mcvars == <<vars, call>>

\* What a key is to the client: two keys with the same identity are equal.
Identity(d) == <<d.type, d.name>>

Insertion(P) ==
  \E d \in Data, policy \in P :
    /\ Insert(d, policy)
    /\ call' = [name |-> "insert", key |-> Identity(d), policy |-> policy]
Removal ==
  \E d \in Data : Remove(d) /\ call' = [name |-> "remove", key |-> Identity(d)]
Clearing == Clear /\ call' = [name |-> "clear"]

\* Between two calls the client forgets what it was told.
Forget ==
  /\ call' = [name |-> "none"]
  /\ returned' = {} /\ heard' = {}
  /\ UNCHANGED <<hash_of, lifecycle, map, buckets>>

\* One call after another, with the policies P.
CallsInit == Init /\ call = [name |-> "none"]
Calls(P) ==
  \/ call.name = "none" /\ (Insertion(P) \/ Removal \/ Clearing)
  \/ call.name # "none" /\ Forget
CallsSpec == CallsInit /\ [][Calls(Policies)]_mcvars

\* Two hashes of one shard are interchangeable.  So are the shards when one has
\* a key or none, which is what the one with fewer has when their keys differ in
\* number: the smaller hash, or the shard with it, has no fewer keys.
Having(H) == Cardinality({i \in DOMAIN hash_of : hash_of[i] \in H})
HashesOrdered ==
  \A g, h \in Hashes :
    g < h => LET shard(x) == {i \in Hashes : ShardOf(i) = ShardOf(x)}
             IN  IF ShardOf(g) = ShardOf(h) THEN Having({g}) >= Having({h})
                 ELSE Having(shard(g)) >= Having(shard(h))

MCInit ==
  /\ CallsInit
  /\ HashesOrdered
  /\ lifecycle.kind \in UsedKinds /\ lifecycle.arc

MCSpec == MCInit /\ [][Calls(UsedPolicies)]_mcvars

MCSymmetry == Permutations(KeyTypes) \cup Permutations(Names) \cup Permutations(Forms)
-----------------------------------------------------------------------------
StoredFor(i) == {x \in map : Identity(x.key.data) = i}
Present == {Identity(x.key.data) : x \in map}

\* Every variable has its type; in particular a value is stored under the key
\* type it belongs to, and a typed callback gets keys of its type only.
TypeOK ==
  /\ map \subseteq [key : ErasedKey, value : Data, policy : Policies]
  /\ \A x \in map : x.key.type_id = x.key.data.type /\ x.value.type = x.key.type_id
  /\ buckets \in [Policies -> SUBSET ErasedKey]
  /\ returned \in {{}} \cup {{d} : d \in Data}
  /\ heard \subseteq [hook : {"on_evict", "on_remove", "on_clear"},
                      key : IF lifecycle.kind = "typed"
                            THEN {d \in Data : d.type = lifecycle.type} ELSE Data]

\* Whatever hashes collide, a key is found by its owned form, by reference and
\* by a query that hashes as it does, always as the one entry stored for it;
\* a query whose hash breaks the contract of CacheKeyLookup misses its key but
\* never finds another's (erased.rs:89-101, 141-151, 199-209, traits.rs:71-74).
LookupsAgree ==
  \A d \in Data :
    LET entry == StoredFor(Identity(d))
    IN  /\ Cardinality(entry) <= 1
        /\ Find(Erased(d)) = entry
        /\ FindRef(KeyRef(d)) = entry
        /\ \A h \in Hashes :
             FindBy(KeyLookup(d, h)) =
               IF h = hash_of[Identity(d)] THEN entry ELSE {}

\* The buckets link each key of the map once, under the policy of its entry,
\* in the form of the last insert, while the map keeps the form of the first
\* (shard.rs:203-224): they agree up to Eq and no further.
MapAndBucketsAgree ==
  /\ \A p \in Policies : \A b \in buckets[p] :
       \E x \in map : Equal(b, x.key) /\ x.policy = p /\ b.data = x.value
  /\ \A x \in map :
       Cardinality({b \in buckets[x.policy] : Equal(x.key, b)}) = 1

\* The hash of each key, and the lifecycle, are what they were chosen to be.
ChosenOK ==
  /\ hash_of \in [KeyTypes \X Names -> Hashes]
  /\ lifecycle \in Lifecycles

\* No two entries of m are for one identity.
Distinct(m) == \A x, y \in m : Identity(x.key.data) = Identity(y.key.data) => x = y

\* A map of entries: each key is made by ErasedKey::new, each value belongs to
\* a key equal to it, and no two keys are equal.
MapOK(m) ==
  /\ m \subseteq [key : ErasedKey, value : Data, policy : Policies]
  /\ \A x \in m : /\ x.key = Erased(x.key.data)
                  /\ Identity(x.value) = Identity(x.key.data)
  /\ Distinct(m)
  /\ IsFiniteSet(m)

\* The buckets that link the entries of m: each under its policy, by the key of
\* the last insert, which is the one its value came with.
BucketsFor(m) ==
  [p \in Policies |-> {Erased(x.value) : x \in {y \in m : y.policy = p}}]

\* What makes the invariants above inductive: the keys of the map are pairwise
\* different for Eq, and the map determines the buckets, so that none links a
\* key that left (shard.rs:199-227, 349-357, 389-404, 440-450).
KeysInv == ChosenOK /\ MapOK(map) /\ buckets = BucketsFor(map)

\* insert and remove return the value last inserted for an equal key, and
\* nothing if there is none: a downcast never fails and never yields the value
\* of a colliding key (cache.rs:286, 508, erased.rs:258-267).
ReturnsOwnValue ==
  [][call'.name \in {"insert", "remove"} =>
       returned' = {x.value : x \in StoredFor(call'.key)}]_mcvars

\* User code hears of each departure once, through the hook that belongs to
\* the call, if the lifecycle has that one, also behind an Arc; a
\* TypedLifecycle hears of the departures of its own key type and of no other
\* (lifecycle.rs:80-94, 123-138, 199-204).
HooksHearDepartures ==
  [][LET gone == Present \ Present'
         audible == CASE lifecycle.kind = "default" -> {}
                      [] lifecycle.kind = "typed" -> {i \in gone : i[1] = lifecycle.type}
                      [] OTHER -> gone
         hook == IF lifecycle.kind # "custom" THEN "on_evict"
                 ELSE CASE call'.name = "insert" -> "on_evict"
                        [] call'.name = "remove" -> "on_remove"
                        [] OTHER -> "on_clear"
     IN  /\ Cardinality(heard') = Cardinality(audible)
         /\ {<<h.hook, Identity(h.key)>> : h \in heard'} = {hook} \X audible]_mcvars

\* on_remove and on_clear are given the key that the map stores, in the form
\* of the insert that made the entry and not as it was asked for; on_evict is
\* given the form of the last insert (cache.rs:476, 505, shard.rs:347-350, 442).
HooksGetStoredKeys ==
  [][\A h \in heard' : \E x \in StoredFor(Identity(h.key)) :
       h.key = IF call'.name = "insert" THEN x.value ELSE x.key.data]_mcvars

\* To Shard and Cache a key is an atom.  The map of each shard, seen through
\* Eq, does what the call does to an EvictingStore of such keys: nobody else's
\* entry is replaced, removed or evicted because of a hash (shard.rs:21-22).
Atoms(s) ==
  LET here == In(s)
  IN  [i \in {Identity(x.key.data) : x \in here} |->
         [size |-> 1,
          policy |-> (CHOOSE x \in here : Identity(x.key.data) = i).policy]]

Abstract(s) == INSTANCE EvictingStore
  WITH Keys <- KeyTypes \X Names, Sizes <- {1}, store <- Atoms(s)

KeysAreAtoms ==
  /\ \A s \in 0 .. ShardCount - 1 : Abstract(s)!Init
  /\ [][\A s \in 0 .. ShardCount - 1 :
          \/ Atoms(s)' = Atoms(s)
          \/ /\ call'.name = "insert"
             /\ Abstract(s)!Insert(call'.key, 1, call'.policy)
          \/ call'.name = "remove" /\ Abstract(s)!Remove(call'.key)
          \/ call'.name = "clear" /\ Abstract(s)!Drain]_mcvars
=============================================================================
