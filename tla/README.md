# A TLA+ model of priority-lfu

`priority-lfu` is an in-memory cache for several threads: a fixed number of
shards, each a hash map behind an `RwLock`, with a clock over three priority
buckets to choose what to evict when a shard's bytes exceed its capacity. The
modules here model that core, its type-erased keys and the measure of its
values. TLC checks them on small instances. TLAPS proves for every instance the
safety of a shard, alone and with any number of concurrent readers, that it
implements an abstract store, the locks, hooks, counters and metrics of a cache with
any number of threads, that a type-erased key is as good as an atom, and that no
measure of a value waits for itself. Paths below are relative to `src/crates/priority-lfu/src/`.

## Inventory

| Component | State | Operations | What makes it correct |
|---|---|---|---|
| `PolicyBucket` (shard.rs) | keys of one policy in an `IndexMap`, a clock hand (an index) | insert, remove (`swap_remove`) | no key twice; the hand stays in bounds and on its key |
| `Shard` (shard.rs) | entries, three buckets, byte counter, capacity | insert with its eviction loop, `get_ref`, `get_ref_by`, remove, drain | buckets partition the entries; bytes are counted; the clock evicts the lowest priority, coldest first; the loop ends |
| concurrent reads of a `Shard` (shard.rs, erased.rs) | per entry a clock bit and a frequency, both atomics; per reader what it has loaded | `get_ref`, `get_ref_by` under a shared lock | a race loses hits and nothing else; a reader's entry stays; a hit may be taken for one step |
| `Cache` (cache.rs) | shards behind locks, `current_size`, `entry_count`, six metrics | insert, get, get_clone, get_by, get_clone_by, remove, clear, reads of the counters | no counter update lost; each departure reported once; no lock held by a hook; every call returns |
| `Guard` (guard.rs) | a read lock and a raw pointer | deref, drop | the entry cannot change while the Guard lives |
| `Lifecycle` (lifecycle.rs) | user state | on_evict, on_remove, on_clear; `Arc<L>`, `TypedLifecycle` | called after the lock is released, may call the cache, may panic; each departure is heard once, by the right hook with the right key |
| metrics (metrics.rs) | none (a snapshot) | `metrics()`, ratios | metrics explain the entries, until a clear resets them |
| `CacheBuilder`, `compute_shard_count` (builder.rs, cache.rs) | capacity, requested shards | shards, build | every hash finds a shard, every shard is found, none is too small |
| `ErasedKey` and lookups (erased.rs, traits.rs) | hash, type, key | equality, hashing, downcasts | all three forms of a key find the same entry, and a colliding key never does; map and buckets agree on keys that are equal but not the same |
| `DeepSizeOf` (deepsize.rs, deepsize/) | the `Arc`s and `Rc`s seen, guards held | deep_size_of | each allocation counted once; no wait for itself; it ends, but for the deadlocks its comments allow |

Interaction: a thread calls `Cache`; `Cache` picks a shard by the hash, takes
its lock, calls one method of `Shard`, and then updates the global atomics and
calls hooks, partly under the lock and partly after it. `get` leaves the read
lock with the client, as a `Guard`. A hook is user code that may call the cache
again. Nothing is persisted and there are no messages or timeouts: what is hard
is the interleaving of threads between the lock and the counters, the order of
hooks, and the index arithmetic of the clock under `swap_remove`.
`PROJECT.json` lists each hazard at its line, with the properties that cover it.

## Modules

| Module | Models | Used by |
|---|---|---|
| `Accounting` | maps of sized entries and their total size | `Shard`, `EvictingStore`, `Cache` |
| `PolicyBucket` | `struct PolicyBucket`, as operators | `Shard` |
| `Shard` | `struct Shard`, one action per operation, the insert in steps | |
| `MCShard` | `Shard` with a history variable for properties of a whole sweep | |
| `SharedShard` | `Shard` with readers whose hits are a load and two stores | |
| `MCSharedShard` | `SharedShard` with history variables for the hits that are lost | |
| `EvictingStore` | the abstract specification of a shard: an insert is one step | `Shard` implements it, `Cache` and `ErasedKeys` are built on it, and `ErasedKeys` implements it again |
| `ErasedKeys` | `ErasedKey` and its borrowed forms, values and their downcasts, the lifecycle adapters | |
| `MCErasedKeys` | `ErasedKeys` with the last call as a history variable, and the properties | |
| `Cache` | `struct Cache`, `Guard`, hooks: threads, locks, counters | |
| `MCCache` | `Cache` with a bound on the calls and history variables for the hooks | |
| `DeepSize` | `DeepSizeOf`, its impls and `Context`: threads that measure values | |
| `MCDeepSize` | the memory graphs, histories of locks, the definition of a measure, and the properties | |
| `Builder` | `CacheBuilder`, `compute_shard_count`, `get_shard` | |
| `AccountingProofs` | proofs of the laws of total sizes | the proofs below |
| `ShardProofs`, `SharedShardProofs` | proofs about policy buckets, `Shard` and a whole sweep (`MCShard`), and about concurrent readers | |
| `CacheProofs`, `CountersProofs` | proofs about the locks of `Cache`, and about its counters, metrics and the departures it reports (`MCCache`) | |
| `ErasedKeysProofs` | proofs about `MCErasedKeys` | |
| `DeepSizeProofs` | proofs about `DeepSize` | |
| `BuilderProofs` | proofs about `Builder` | |

**Shard.** `entries`, `buckets` and `size_current` are the fields of the same
name; `ins` holds the locals of an insert under way. All methods run under the
shard's lock, so one runs at a time; still, the insert is cut at each iteration
of the eviction loop and of the sweep, because that is where its invariants are
hard. `BeginInsert` unlinks the entry being replaced (shard.rs:199-209);
`StartSweep` enters `evict_from_bucket`; `PassOver` is one iteration over an
entry that is not cold; `EvictCold` and `ForceEvict` are its two ways to evict;
`NextBucket` moves to the next policy when a bucket gave nothing; `FinishInsert`
stores the entry (214-227). A key is an atom, a value is its size, the
frequency saturates at `MaxFreq` instead of 255. An `IndexMap` is the sequence
of its keys, a `HashMap` a function.

**SharedShard.** `get_ref` takes `&self`: several threads mark and count hits
under the read lock, with Relaxed accesses. `hit[r]` holds the locals of reader
`r`: the entry it found, whether the clock bit is stored (`Mark`), and the
frequency it loaded (`LoadFrequency`) and stores plus one (`StoreFrequency`,
skipped at the maximum). `Mark` is independent of the other two, because Relaxed
accesses to two atomics may become visible in any order. `Release` drops the read
lock, or the Guard with it. `Write` is any step of `Shard`'s methods under the
write lock, so only without readers, and a reader comes only between inserts.
In `Shard` itself a hit is the one step `GetRef`, which may store any frequency
between 1 and the maximum: that is what lost hits amount to. So it is `SharedTypeOK`,
not `TypeOK`, that says the `u8` never overflows.

**Cache.** `todo[t]` is what thread `t` still has to do, in program order:
acquire a lock and call the shard, then one atomic counter update, unlock or hook
at a time. So every interleaving between the lock and the counters is there. A
write lock is taken in two steps, since with `parking_lot` a writer that waits
already keeps new readers out: `Wait` makes the thread the next writer, and the
call of the shard is enabled once the readers are gone. That call is one step,
since nothing else can see the shard meanwhile. `insert` updates the counters
after the unlock (cache.rs:250-279), `remove` and `clear` before it.
The counters are kept modulo `Width`, like the atomics. A `Guard` is a read lock
at the head of `todo[t]`, which only the client's drop removes. While a hook or a
Guard is at the head, the thread may call the cache again, `MaxNesting` deep: a
hook because the documentation invites it, a client with a Guard because nothing
in the code prevents it. A hook may panic (`HookPanic`): the frames up to whoever
catches it, any user code further out or the end of the thread, release their
locks and do nothing else. A shard is what `EvictingStore` promises, any choice
of victims it allows. Keys are numbers and stand for their hashes, so `ShardOf`
is `get_shard`. Assumed of clients: user code under a lock (`Clone`, `Eq`, `Drop`)
neither calls the cache nor panics.

**ErasedKeys.** The other modules take a key for an atom. Here a key has a type, a
name (what `Eq` compares) and a form (what it ignores: two strings in different
buffers, say), and every assignment of hashes to types and names is an initial
state. `map` is the shards' `HashMap`s: as in the code, an occupied slot keeps
its key, while `buckets` get the key of the last insert. `Find`, `FindRef` and
`FindBy` are the lookups by `ErasedKey`, `ErasedKeyRef` and `ErasedKeyLookup`, the
last with any hash, also one that breaks the contract of `CacheKeyLookup`. The
lifecycle is chosen at the start: one with all hooks, one that leaves the default
`on_remove` and `on_clear`, a `TypedLifecycle`, none; behind an `Arc` or not. The
clock is left out (any victims that `EvictingStore` allows) and so are threads:
all of this happens under one lock or in one thread after it.

**DeepSize.** The recursion of `deep_size_of` is an agenda per thread: visit a
value, or drop a guard. The values of the program are a graph, `heap`; a visit
does what the impl of the value's kind does. `Mutex` and `RwLock` are held while
their content is visited, `Arc` and `Rc` are entered once per `Context`. A client
locks, unlocks and poisons locks meanwhile; a waiting writer blocks readers, as
std's `RwLock` may. Behind a lock the client may drop an `Arc` or replace it, also
by a new one at an address that was freed and that a `Context` still remembers. A
measured value was moved (nothing points at it), and no `RefCell` is mutably
borrowed. The client need not give a guard back. It is one actor with one lock at a
time, and stands for whoever uses a lock outside a measure: for a thread that measures
a value while it keeps a guard of a lock in it, it is that thread's guard, never given
back because the thread waits. The types
with known size 0 are leaves; that `bytes::Bytes`, `regex::Regex` and the `geo`
types own memory all the same is not looked into.

**Builder.** The arithmetic of `usize` modulo `Width`, every capacity and every
requested count.

## Runs

| Run | Instance | Shows |
|---|---|---|
| `shard` | 3 keys, sizes 0, 1, 3, capacity 2, frequency 0 or 1; 348,853 states | the invariants of a shard, `VictimsNeeded`, the refinement, `InsertReturns` |
| `shard_sweep` | 5 keys (symmetric), size 1, capacity 4, two policies, frequency up to 2; 92,203 states | `HandKeepsItsEntry`, `ColdestFirst`, `DecaysOnce`, `SweepInv` |
| `shared_shard` | 2 readers and 3 keys (both symmetric), size 1, capacity 2, one policy, frequency up to 3; 27,199 states | `MarkedIsCounted`, `OnlyRacesLoseHits`, `ReadersSerialize`, `SharedInv` |
| `erased_keys` | 2 key types, 2 names, 2 forms, hashes 0 to 2 over 2 shards of 2 entries, 2 policies, a lifecycle with all hooks and a typed one, behind an `Arc`; 523,722 states | `LookupsAgree`, `MapAndBucketsAgree`, `ReturnsOwnValue`, `HooksHearDepartures`, `HooksGetStoredKeys`, `KeysAreAtoms` |
| `cache` | 2 threads, 3 keys in 2 shards of 2 bytes, sizes 1 and 2, four calls, with metrics, nested Guards and panics; 502,276 states | `CountersAccounted`, `HooksRunLast`, `LocksAreOwed`, `LockInv`, `HooksOwed`, `MetricsExplainEntries`, `GuardPins` |
| `cache_live` | 2 threads, 2 keys of one shard and a second shard, unbounded calls, nested Guards and panics, counters modulo 4; 75,041 states | `CallsReturn` |
| `deep_size` | 3 threads, 52 graphs: two shared values (plain, `Mutex`, `RwLock`) in cyclic and acyclic shapes, for two of the threads, with one use of a lock by the client; structs of two locks with two uses; a cycle of three locks, one for each thread to start from, without uses; 238,265 states | `NeverRelocks`, `CountsEachOnce`, `SizingReturns` |
| `builder` | 6-bit `usize`, minimum 4, default 8; 8,320 states | `EveryShardServes`, `ShardsHaveHalfTheMinimum` |

Why the bounds are enough. In `shard`, three keys fill one bucket or are spread
over the three policies; size 3 is larger than the shard, size 0 frees nothing
when evicted; a frequency of 1 already needs two passes to become cold. In
`shard_sweep` the clock needs five keys: only an eviction saves a hand, so a hand
on the last of three keys, where `swap_remove` of another key matters, takes a
bucket of four and a fifth key to insert. In `shared_shard` two readers make every
race of a load and a store, three frequencies let one reader be two steps behind,
and a third key makes a full shard sweep what was read; eviction itself is
checked in `shard`, so one policy is enough. In `erased_keys` hashes 0 and 2
share a shard and 1 has its own, so keys collide within a type, across types,
only in their shard or not at all; two forms tell which key was kept, and a shard
of two entries evicts as soon as three of the four keys are in it. Two hashes of
one shard are interchangeable, and so are the shards when one has at most one of
the four keys, so `MCInit` takes one hashing of each kind (`HashesOrdered`). The
policy and the kinds of lifecycle left out there do nothing that those kept do
not; `CallsSpec`, which the proofs are about, has all of them. In `cache`
two keys share a shard and one has its own, one shard holds one large or two
small values, and four calls are enough to store, evict and store again while
another thread clears or a hook calls back (each violation below needs at most
four). With the metrics feature there are only more counters to update.
In `deep_size` two shared values give self-loops, cycles of two and diamonds; one
use of a lock is enough to poison it or change what is in it before or during a
measure. Two uses are what it takes to free a value behind one lock and to store
a new one at its address behind another, which TLC does reach. Three threads
deadlock in a cycle of three locks, and the property must see cycles of any length:
if it excused pairs only, TLC would find that one.
`Width` is larger than any total that occurs, except in `cache_live`, where the
counters matter to nobody.

Properties worth knowing:

- `BucketsPartition`, `HandInBounds`, `Accounted`, `FitsOrAlone` hold between
  any two steps of the eviction loop, not only between operations.
- `HandKeepsItsEntry`: removals elsewhere in a bucket never move the hand to
  another entry, although they move entries.
- `ColdestFirst`, `DecaysOnce`: in one sweep, from any start of the hand, a read
  entry is not evicted while a cold one is in the bucket, and no entry decays
  twice.
- `ImplementsStore`: the loop as a whole takes victims from the lowest priority,
  no more than needed, never the entry it replaces. `Cache` rests on this.
- `ReadersSerialize`: a shard with concurrent readers implements `Shard`. Under
  the refinement mapping (`Settled`) the clock bit shows with a positive frequency
  only, and a hit has taken effect once its frequency is stored. Everything
  proved of `Shard` therefore holds with readers racing.
- `OnlyRacesLoseHits`: the "small races" the code accepts lose hits that
  overlapped another's load and store, and invent none.
- `MarkedIsCounted`: no entry is left with its clock bit set and a frequency of
  zero, whichever of the stores a writer sees first.
- `LookupsAgree`, `ReturnsOwnValue`: with hashes that collide in every way, each
  lookup finds the entry of its key or nothing, and no downcast fails.
- `MapAndBucketsAgree`, `HooksGetStoredKeys`: after an update, map and buckets
  keep different representations of one key, so `on_evict` sees the last one
  and `on_remove` and `on_clear` the first.
- `HooksHearDepartures`: the defaults and adapters of `Lifecycle` neither drop
  nor double nor misdirect a departure.
- `KeysAreAtoms`: seen through `Eq`, each shard of `ErasedKeys` does what an
  `EvictingStore` with atoms for keys does; the other modules rest on this.
- `CountersAccounted`: `size()` and `len()` differ from the shards by exactly
  the updates still pending; with no call under way they are exact. This is the
  property the `clear` regression test samples. It survives panics of hooks.
- `HooksOwed`: per key, stores minus hooks is 1 if it is stored and 0 otherwise,
  pending hooks and those a panic skipped included.
- `LocksAreOwed`: neither a return nor a panic leaves a lock behind.
- `HooksRunLast` with `CallsReturn`: a hook may call the cache, because its call
  holds nothing any more.
- `CallsReturn` has a premise: no thread waits for ever for a lock while it holds
  a Guard. The code does not enforce this, and without the premise TLC finds
  deadlocks: a thread with a Guard on a shard it writes to waits for itself. Both
  keys of the run are in one shard, so two threads with Guards on each other's
  shards do not occur in it. They do with `Keys = {0, 1}`, where the property holds
  as well, but the run takes more than twice as long. Under the premise, there
  is no other way to hang.
- `GuardPins`: even such a thread never changes a shard under its own Guard.
- `CountsEachOnce`: a measure returns what a definition by reachability says, in
  whatever order handles are met, less what was poisoned when it was looked at;
  if a client changes what is behind some locks meanwhile, it still does for the
  rest, although addresses are used again.
- `NeverRelocks`: one measure never waits for a guard of its own, however cyclic
  the value.
- `SizingReturns` has a premise, that no client keeps a guard for ever, and an
  exception, that some measures wait for each other in a cycle, of whatever length.
  Without either, TLC finds a measure that never ends. These are the deadlocks
  that the comments warn of (default_impls.rs:173-174, 181-182). The premise excludes
  more than clients that forget a guard: a thread that calls `insert` while it
  holds a guard of a lock in the value waits for itself, and clients that
  nest locks may wait for a measure, or for each other, with a guard kept. Locks are asked for
  finitely often, so a reader that writers overtake for ever is not considered
  either. Under these premises a poisoned lock, a panic, a cyclic value or a change
  behind a lock stops no measure.

Where the program may stop, deadlock is not an error: `MCCache` when the calls
are used up, `Cache` when clients with Guards wait for each other (the premise of
`CallsReturn`), `Builder` when the cache is built, `DeepSize` when all is measured or
measures wait for each other.

### Disagreements with what the repository says

Each is a run that violates one property; `PROJECT.json` quotes the lines.

- `size_wraps`: `size()` may read as almost 2^64 while calls are under way.
- `index_incomplete`: a hook may come after its key was stored again, so an
  index that removes the key in the hook loses a stored key.
- `min_shard_size`: rounding up gives shards below the documented minimum.
- `map_underestimated`: a `BTreeMap` of two `(u64, String)` pairs measures less
  than the pairs, because `BTREE_MIN` and `BTREE_MAX` are swapped.

Two consequences of the design, without a run of their own: a value larger than
its shard is kept, alone, so `utilization` can be above 1.0 (`FitsOrAlone` says
how far it goes); and priorities order evictions within a shard only.

## Fairness

`Shard`: weak fairness of the steps of an insert, which is one thread running
straight-line code under a lock. `Cache`: weak fairness of each thread's steps
outside locks (threads are scheduled), strong fairness
of taking a lock (`parking_lot`'s `RwLock` is eventually fair), and strong
fairness of user code's return, from a hook or from the use of a Guard, at each
depth of nesting (it may call the cache several times, but not for ever). New
calls and panics are never forced. `DeepSize`: weak
fairness of each thread once it measures and of the grant of a free lock to the client;
locks are asked for finitely often (`uses`), so that is enough. That the client gives
a guard back is no fairness: nothing in the code makes it, so it is the
premise of `SizingReturns`.

## Proofs

Every theorem is for all values of the constants: any keys (`Keys` may be
infinite), sizes, capacity and saturation value; any finite set of threads and
any number of shards; any key types, names, forms and hashes; any memory graphs in
which values have owners (`WellOwned`, which is what Rust's ownership guarantees).
The assumptions are
those the modules name with `ASSUME`, and TLC evaluates each in some run.

A total size is the number of bytes of a map's entries (`TotalSize`), not a
recursive sum, so that its laws follow from facts about finite cardinalities:
`AccountingProofs` proves what adding and removing an entry does to it.
`ShardProofs` begins with the proof that inserting into and removing from a bucket
keeps it free of repetitions with its hand in bounds, and changes its keys as
it should, in all cases of `swap_remove`.

**A shard** (`ShardProofs`). `TypeOK`, `BucketsPartition`, `HandInBounds`,
`Accounted` and `FitsOrAlone` are not inductive by themselves. That an evicted
entry can be found rests on the sweep's hand being inside a non-empty bucket;
that a shard fits, or holds one entry, when the loop gives up rests on every
bucket the loop has left being empty; that bytes can be counted rests on the maps
being finite. `IndInv` adds these; `InitInv` and `StepInv` prove it inductive, one
lemma per action. `TurnsAreKept` (`HandKeepsItsEntry`) follows from it step by
step: what `BucketRemove` and `BucketInsert` do to the key under the hand.

**The refinement** (`ShardImplementsStore`). Every step of the loop leaves the
abstract store as it is, because what was evicted so far still counts as stored
until `FinishInsert`, which is one insert of `EvictingStore`. That its victims
are a choice that `EvictingStore` allows needs more than `IndInv`: `VictimsNeeded`
says that no victim came from a bucket the loop has still to reach, that without
the last of them the entry would not have fitted, and that no sweep goes on with
room enough.
`OnlyNeededVictims` proves it invariant.

**A sweep** (`ShardProofs`, about `SweepSpec`). `SweepInv` says what one sweep has done so far, by
the history variable of `MCShard`: the entries between the start of the hand and
its place now, cyclically, decayed by one step each, the others not at all.
`DecaysOnce` and `ColdestFirst` follow: a bucket is never gone around twice, and
when the sweep gives up, each entry was seen and found warm.

**Concurrent readers** (`SharedShardProofs`). `SharedInv` adds to
`IndInv` of the shard what makes the readers' properties inductive: while a
reader is at a hit no writer is at work and its entry stays in the map (so the
reference that `get_ref` returns stays valid), the bit it stored is still set, what
it is about to store is within the maximum, and what it has counted is positive.
Proved from it: `SharedTypeOK` (no race pushes the `u8` past its maximum),
`MarkedIsCounted`, and the refinement `ReadersSerialize`. For the refinement, each
step of a writer is a step of `Shard` because `Settled` is `entries` when nobody
reads (`SettledIdle`). A step of a reader either changes nothing that shows or is
`GetRef`: the store of the bit to an entry with a positive frequency, and the step
that ends a count. One lemma per action says which; each rests on `SharedInv`.
`LostHitsRaced` (`OnlyRacesLoseHits`) needs `HitsInv` besides: a frequency loaded
and not yet stored is at most what the entry would have had without losses, and as
long as no hits on the entry overlapped, one reader at most is between its load
and its store, and the frequency is still what it loaded.

**A cache, its locks** (`CacheProofs`). The inductive invariant, `CInv`, is
`TypeOK`, the shape of the shards' maps and `LockInv`. `LockInv` counts: for each
thread and shard, the locks it holds are as many as the unlocks and Guards among
the effects it still has to do (`Owing`), a writer never holds a shard with a
reader, and `todo[t]` is in turn, frame by frame: updates and unlocks before the
user code of the same call. The counts are needed because one thread may read a
shard several times, by nested Guards, and because a panic drops many frames at
once and gives back exactly what they owed. `NoLockIsLeftBehind` and `HooksComeLast`
follow from it, and so does `GuardsPinTheirShard`, since a Guard is an owed
read lock and a change of the shard needs the write lock.

**A cache, its counters** (`CountersProofs`). `CountersAreExact`: each counter and
the updates pending in all threads are together, modulo `Width`, what the shards
hold. The sum over the threads is the size of a set of units, one per thread and
number up to what it has pending, so that one step changes it by what one thread's agenda changes; one
lemma per action compares that with the change of one shard's map or of the
counter. Congruence modulo `Width` is what survives a difference of sizes that is
negative and wraps. This needs `Threads` to be finite. With no call under way,
`QuietCountersAreExact`: `size()` and `len()` are exact.

**Metrics and hooks** (`CountersProofs`). About `MCSpec`, with `MCCache`'s history
variables and any bound on the calls. `MetricsExplainTheEntries` rests on
`MetricsInv`: each counter taken with its pending updates, `entry_count + evictions +
removals - inserts` is 0 modulo `Width` (`Explained`), because the updates that one
method leaves to do cancel out (`Booked`), and no reset is pending as long as no
clear has drained a shard (`Untouched`). By `CountersAreExact`, `entry_count` is the
number of entries stored. `DeparturesReportedOnce` rests on `HooksInv`: per key, stores less
reports (`balance`) are what is still due (`Due`: one if the key is stored, and its
hooks that run or are still to be called, those a clear has collected included) and
what panics have lost. One lemma per action says how `Due` moves; a panic drops
frames from `todo[t]`, whose running hooks it takes off `balance` and whose others it
adds to `lost`.

**Keys** (`ErasedKeysProofs`). About `CallsSpec`, the calls without TLC's bounds.
`KeysInv` says that no two entries of the map are for equal keys and that the map
determines the buckets (`BucketsFor`): so the buckets need no reasoning of their
own. It is inductive because `Eq` is an equivalence of the identities, the hash a
function of them, and so each of the three lookups finds `StoredFor` that identity.
From it: all the properties of run `erased_keys`. For `KeysAreAtoms`, the victims
that an insert chooses among the keys of the buckets are renamed to identities, one
to one, so that they occupy as much (`RenamedTotal`), and make a choice that
`EvictingStore` allows over atoms (`RenamedVictims`).

**Measures** (`DeepSizeProofs`). `MeasuresNeverRelock` (`NeverRelocks`) is about one
step that would go back; what makes it inductive is a history. `OwnInv` says that for
each thread there is a set of values entered or about to be (`Entered`), such that a
value is in it only once its owner has been entered, or, if handles share it, once the
Context knows it; that what the thread holds was entered and is not to be visited
again; and that no item is on the agenda twice. A value with one owner is thus new
when its owner is entered, and a shared one is new unless the Context knows it: so no
lock comes up a second time, in any cycle. A change that the client makes behind a
lock gives no value a new owner, only an `Arc` a value that other `Arc`s share
(`Keeps`), which is why it cannot lead a thread back either, also where an address
is used again. `ContentUnderGuard` follows too: `Nested` keeps the release of a lock
behind all that is inside it.

`SizingKeepsTypes` (`TypeOK`) says more than types: the memory stays well owned, only
locks are held, one guard at a time of a `Mutex`, and so no lock is freed while it is
held. The proof is about what is alive, which is what a search of the graph finds
(`SearchExists` and `SearchEnds` say that it ends with the least closed set,
`AliveClosed` what that is here). The types are inductive with `HeldInv`: what a thread
has left to do is `Grounded`, reached from its root through owners and through locks
whose guards it keeps until then, and no other actor changes those. What the client
frees, it alone could reach; the rest is `Spared`. `MeasuredIsUndisturbed` says it of
steps: none changes a value that a measure has still to visit or to release, but for
the lock the client holds.

`EachIsCountedOnce` (`CountsEachOnce`) compares a traversal with reachability in a graph
that the client changes. `CountedInv` adds to the set `D` of `Entered` the bytes `B` that
were counted (`Tracked`): they are `total[t]` in number and about values of `D`
(`Tallied`); of what the root leads to, all that was visited is counted, and what that
leads to is in `D` (`Complete`); and, if the client has changed nothing, there is nothing
else in `B` (`Exact`). What a root leads to is its `Span`, the least closed set, with
what was poisoned or changed since cut off. A visit adds to `B` bytes that are new
(`TalliedThen`), because what it enters is new by `Entered`; a change by the client is
cut off and so leaves `Complete` as it was (`CompleteLater`), although freed addresses
are used again (`PoisonedInv`: a lock among them leads nowhere any more). When nothing
is left to visit, `Complete` makes `B` hold the `Span` (`AllCounted`), which is what the
search of `Measure` finds (`ReachedSpan`, `MemoryOwned`).

**The shard count** (`BuilderProofs`). `AllShardsServe` and `ShardsKeepHalfTheMinimum`
are about any width of `usize`. `&` is a recursive function on the naturals here,
so that it can be reasoned about: masking with `2^k - 1` leaves what is below
`2^k` as it is and reaches nothing above (`MaskOf`), and `next_power_of_two` is less than
twice what it is given.

What composes: `Cache` and `ErasedKeys` are built on `EvictingStore`, which a shard
is proved to implement; a shard with racing readers is proved to implement the
shard; and keys, whatever their hashes, are proved to be the atoms that both take
them for.

Model-checked only: `CallsReturn`, `InsertReturns` and `SizingReturns`, because liveness
is outside TLAPS's reach. Every other property of a passing run is a theorem.

The library's induction theorems take an operator as a parameter, which no installed
prover can instantiate. `AccountingProofs` therefore proves induction for sets of
naturals (`SmallestOf`, `Induct`), and from it that functions defined by recursion on
the naturals exist (`Iterates`, `RecursionExists`); the proofs about `Power`, `And` and
`SearchExists` rest on these.

## Not modelled

- Methods that only read (`contains`, `size`, `len`, `is_empty`, the `Deref` and
  comparison traits of `Guard`), and `metrics()` with its ratios: a snapshot loads
  nine counters one by one, so it may mix moments, which the code declares
  observational. When the counters move, and what they add up to, is modelled.
- Panics of `Eq`, `Clone` or `Drop` of a user's type under a lock: each comparison
  in `Shard` would need an unwinding path, and nothing in the repository says
  what should hold afterwards.
- The code generation of the derive macro, which happens at compile time. The impls
  it generates sum over fields, like those for tuples (`DeepSize!Sum`).
- Clients that hold two locks at once while values are measured, and threads that
  measure while they hold a guard of their own: what these do to a measure is
  the premise of `SizingReturns`, see there.
- The order of the metrics' resets against counts under way: `MetricsExplainEntries`
  stops at the first clear that drains a shard, and the code calls what comes after
  observational (cache.rs:599-600).
- A `RefCell` that is mutably borrowed while it is measured (`borrow` panics), and
  values that change after they were stored: their size is what it was.
- `Shard::clear`, which nothing calls; benches, examples, CI and release scripts.

## Plan

What the provers can reach of what the runs check is proved (the rest is listed above). What could be added:
panics of user code under a lock, and a mutably borrowed `RefCell`, once the
repository says what should hold after them.
