------------------------------- MODULE Shard --------------------------------
(* struct Shard: one partition of the cache.  Every method of it runs       *)
(* either under the shard's write lock (insert, remove, drain) or under its *)
(* read lock (get_ref), so here one method runs at a time.  An insert is    *)
(* split into the steps of its eviction loop: each iteration of the clock   *)
(* sweep, each eviction and each move to the next policy bucket is an       *)
(* action, between a first one that unlinks the entry being replaced and a  *)
(* last one that stores the new entry.                                      *)
EXTENDS Accounting, PolicyBucket

CONSTANTS
  Keys,      \* the keys of this shard
  Sizes,     \* the sizes a value may have (deep_size_of), 0 included
  Capacity,  \* size_capacity: max_size_bytes / shard_count
  MaxFreq    \* the value at which the frequency counter saturates (255)

ASSUME SizesAssumption == Sizes \subseteq Nat
ASSUME CapacityAssumption == Capacity \in Nat
ASSUME MaxFreqAssumption == MaxFreq \in Nat \ {0}

VARIABLES
  entries,       \* the stored entries: [key |-> Entry]
  buckets,       \* one PolicyBucket per policy
  size_current,  \* the shard's byte counter
  ins            \* the insert in progress, or NoInsert

vars == <<entries, buckets, size_current, ins>>

\* CachePolicy: Critical = 0, Standard = 1, Volatile = 2.
Policies == 0 .. 2

Entry == [size : Sizes, policy : Policies,
          frequency : 0 .. MaxFreq, clock_bit : BOOLEAN]

EntryMaps == UNION {[S -> Entry] : S \in SUBSET Keys}

NewEntry(size, policy) ==
  [size |-> size, policy |-> policy, frequency |-> 0, clock_bit |-> FALSE]

\* Mutant of Decay: the frequency goes before the clock bit.
DecayFrequency(e) == IF e.frequency > 0 THEN [e EXCEPT !.frequency = @ - 1]
                                        ELSE [e EXCEPT !.clock_bit = FALSE]

\* The sweep passes over an entry that is not cold, and decays it.
Cold(e) == ~ e.clock_bit /\ e.frequency = 0
Decay(e) == IF e.clock_bit THEN [e EXCEPT !.clock_bit = FALSE]
                           ELSE [e EXCEPT !.frequency = @ - 1]

\* The locals of insert, evict_until_space and evict_from_bucket: policy_idx
\* is -1 once every bucket was tried, left counts the iterations the sweep
\* still has, evicted and stats are the values insert will return.
NoInsert == [pc |-> "idle"]
Inserts ==
  [pc : {"evict", "sweep"}, key : Keys, entry : Entry, policy_idx : -1 .. 2,
   hand : Nat, left : Nat, evicted : EntryMaps,
   stats : [count : Nat, size : Nat]]

Init ==
  /\ entries = << >>
  /\ buckets = [p \in Policies |-> NewBucket]
  /\ size_current = 0
  /\ ins = NoInsert

\* A key leaves, or joins, the bucket of a policy.
Unlink(bs, policy, k) == [bs EXCEPT ![policy] = BucketRemove(@, k)]
Link(bs, policy, k) == [bs EXCEPT ![policy] = BucketInsert(@, k)]
-----------------------------------------------------------------------------
\* What every insert starts its eviction loop with.
NewInsert(k, size, policy) ==
  [pc |-> "evict", key |-> k, entry |-> NewEntry(size, policy),
   policy_idx |-> 2, hand |-> 0, left |-> 0,
   evicted |-> << >>, stats |-> [count |-> 0, size |-> 0]]

\* Mutants of BeginInsert: the key is unlinked from the bucket of its new
\* policy; the size of the replaced entry stays counted.
BeginInsertNewPolicy(k, size, policy) ==
  /\ ins = NoInsert
  /\ IF k \in DOMAIN entries
     THEN /\ buckets' = Unlink(buckets, policy, k)
          /\ size_current' = size_current - entries[k].size
     ELSE UNCHANGED <<buckets, size_current>>
  /\ ins' = NewInsert(k, size, policy)
  /\ UNCHANGED entries
BeginInsertStillCounted(k, size, policy) ==
  /\ ins = NoInsert
  /\ buckets' = IF k \in DOMAIN entries
                THEN Unlink(buckets, entries[k].policy, k)
                ELSE buckets
  /\ ins' = NewInsert(k, size, policy)
  /\ UNCHANGED <<entries, size_current>>

\* insert, up to the eviction loop: an entry stored under the same key leaves
\* its bucket and the byte count, but stays in the map.
BeginInsert(k, size, policy) ==
  /\ ins = NoInsert
  /\ IF k \in DOMAIN entries
     THEN /\ buckets' = Unlink(buckets, entries[k].policy, k)
          /\ size_current' = size_current - entries[k].size
     ELSE UNCHANGED <<buckets, size_current>>
  /\ ins' = NewInsert(k, size, policy)
  /\ UNCHANGED entries

\* Mutants of Fits: the new entry is not counted; a shard filled to the last
\* byte is taken to be too full.
FitsWithout == size_current <= Capacity
FitsStrictly == size_current + ins.entry.size < Capacity

Fits == size_current + ins.entry.size <= Capacity
Bucket == buckets[ins.policy_idx]

\* The key under the sweep's hand, and whether both lookups of it succeed.
HandKey == KeyAt(Bucket, ins.hand)
HandFound == HasIndex(Bucket, ins.hand) /\ HandKey \in DOMAIN entries

\* Mutant of StartSweep: the sweep has one iteration too many.
StartSweepTooLong ==
  /\ ins.pc = "evict"
  /\ ~ Fits
  /\ ins.policy_idx >= 0
  /\ Bucket.list # << >>
  /\ ins' = [ins EXCEPT !.pc = "sweep", !.hand = Bucket.hand,
                        !.left = Len(Bucket.list) + 1]
  /\ UNCHANGED <<entries, buckets, size_current>>

\* evict_until_space calls evict_from_bucket on a bucket with entries.
StartSweep ==
  /\ ins.pc = "evict"
  /\ ~ Fits
  /\ ins.policy_idx >= 0
  /\ Bucket.list # << >>
  /\ ins' = [ins EXCEPT !.pc = "sweep", !.hand = Bucket.hand,
                        !.left = Len(Bucket.list)]
  /\ UNCHANGED <<entries, buckets, size_current>>

\* evict_from_bucket returns None: the bucket is empty, or a lookup at the
\* hand failed (which HandInBounds shows cannot happen, so that it does not
\* matter here that the code may have saved the hand by then).
NoVictim == IF ins.pc = "sweep" THEN ~ HandFound ELSE Bucket.list = << >>

\* Mutant of NextBucket: the loop stays on the bucket that gave nothing.
NextBucketNever ==
  /\ ins # NoInsert
  /\ ~ Fits
  /\ ins.policy_idx >= 0
  /\ NoVictim
  /\ ins' = [ins EXCEPT !.pc = "evict", !.hand = 0, !.left = 0]
  /\ UNCHANGED <<entries, buckets, size_current>>

NextBucket ==
  /\ ins # NoInsert
  /\ ~ Fits
  /\ ins.policy_idx >= 0
  /\ NoVictim
  /\ ins' = [ins EXCEPT !.pc = "evict", !.policy_idx = @ - 1,
                        !.hand = 0, !.left = 0]
  /\ UNCHANGED <<entries, buckets, size_current>>

\* One iteration of the sweep over an entry that is not cold.
PassOver ==
  /\ ins.pc = "sweep"
  /\ ins.left > 0
  /\ HandFound
  /\ ~ Cold(entries[HandKey])
  /\ entries' = [entries EXCEPT ![HandKey] = Decay(@)]
  /\ ins' = [ins EXCEPT !.left = @ - 1,
                        !.hand = IF @ + 1 >= Len(Bucket.list) THEN 0 ELSE @ + 1]
  /\ UNCHANGED <<buckets, size_current>>

\* The hand is saved, and its entry leaves the map, the bucket and the count.
Evict(k) ==
  /\ entries' = Without(entries, {k})
  /\ buckets' = Unlink([buckets EXCEPT ![ins.policy_idx].hand = ins.hand],
                       ins.policy_idx, k)
  /\ size_current' = size_current - entries[k].size
  /\ ins' = [ins EXCEPT !.pc = "evict", !.hand = 0, !.left = 0,
                        !.evicted = With(@, k, entries[k]),
                        !.stats = [count |-> @.count + 1,
                                   size |-> @.size + entries[k].size]]

\* Mutant of EvictCold: the frequency is not looked at.
EvictUnread ==
  /\ ins.pc = "sweep"
  /\ ins.left > 0
  /\ HandFound
  /\ ~ entries[HandKey].clock_bit
  /\ Evict(HandKey)

\* The sweep meets a cold entry.
EvictCold ==
  /\ ins.pc = "sweep"
  /\ ins.left > 0
  /\ HandFound
  /\ Cold(entries[HandKey])
  /\ Evict(HandKey)

\* A full sweep found no cold entry: the one at the hand goes.
ForceEvict ==
  /\ ins.pc = "sweep"
  /\ ins.left = 0
  /\ HandFound
  /\ Evict(HandKey)

\* insert, after the eviction loop: there is room, or nothing left to evict.
FinishInsert ==
  /\ ins.pc = "evict"
  /\ Fits \/ ins.policy_idx < 0
  /\ entries' = With(entries, ins.key, ins.entry)
  /\ buckets' = Link(buckets, ins.entry.policy, ins.key)
  /\ size_current' = size_current + ins.entry.size
  /\ ins' = NoInsert

InsertStep ==
  StartSweep \/ NextBucket \/ PassOver \/ EvictCold \/ ForceEvict \/ FinishInsert
-----------------------------------------------------------------------------
\* Mutant of GetRef: the counter saturates one step late.
GetRefLate(k) ==
  /\ ins = NoInsert
  /\ k \in DOMAIN entries
  /\ \E f \in 1 .. MaxFreq + 1 :
       entries' = [entries EXCEPT ![k].clock_bit = TRUE, ![k].frequency = f]
  /\ UNCHANGED <<buckets, size_current, ins>>

\* get_ref and get_ref_by on a stored key: a hit sets the clock bit and stores
\* one more than the frequency it loaded.  Readers share the lock, so what it
\* loaded may be older than the hits of others: the new frequency is positive,
\* and that is all one hit promises (SharedShard has its loads and stores).
GetRef(k) ==
  /\ ins = NoInsert
  /\ k \in DOMAIN entries
  /\ \E f \in 1 .. MaxFreq :
       entries' = [entries EXCEPT ![k].clock_bit = TRUE, ![k].frequency = f]
  /\ UNCHANGED <<buckets, size_current, ins>>

\* remove of a stored key.
Remove(k) ==
  /\ ins = NoInsert
  /\ k \in DOMAIN entries
  /\ entries' = Without(entries, {k})
  /\ buckets' = Unlink(buckets, entries[k].policy, k)
  /\ size_current' = size_current - entries[k].size
  /\ UNCHANGED ins

\* drain, for Cache::clear.
Drain ==
  /\ ins = NoInsert
  /\ entries' = << >>
  /\ buckets' = [p \in Policies |-> NewBucket]
  /\ size_current' = 0
  /\ UNCHANGED ins

Next ==
  \/ \E k \in Keys, size \in Sizes, policy \in Policies : BeginInsert(k, size, policy)
  \/ InsertStep
  \/ \E k \in Keys : GetRef(k) \/ Remove(k)
  \/ Drain

Fairness == WF_vars(InsertStep)
Spec == Init /\ [][Next]_vars /\ Fairness
-----------------------------------------------------------------------------
\* The entries that are linked and counted: all but the one being replaced.
Counted == IF ins = NoInsert THEN entries ELSE Without(entries, {ins.key})

\* The buckets bs hold the keys of map m, each in the bucket of its policy.
Partition(bs, m) ==
  \A p \in Policies : KeysOf(bs[p]) = {k \in DOMAIN m : m[k].policy = p}

\* Every variable has its type; in particular no counter went below zero.
TypeOK ==
  /\ entries \in EntryMaps
  /\ buckets \in [Policies -> [list : Seq(Keys), hand : Nat]]
  /\ size_current \in Nat
  /\ ins \in Inserts \cup {NoInsert}

\* Between any two steps of the eviction loop the three buckets hold exactly
\* the keys of the counted entries, each once and in the bucket of its
\* entry's policy, whatever swap_remove moved: a key in two buckets, or in
\* none, would be evicted twice or never (shard.rs:205-225, 446-448).
BucketsPartition ==
  /\ \A p \in Policies : NoRepeat(buckets[p])
  /\ Partition(buckets, Counted)

\* The saved hand, and the hand of a sweep under way, always point at a key,
\* so that no lookup at the hand makes the loop give up a bucket that still
\* has entries (shard.rs:425-428, 469).
HandInBounds ==
  /\ \A p \in Policies : HandOK(buckets[p])
  /\ ins.pc = "sweep" => HandFound

\* size_current is the sum of the sizes of the counted entries, and the
\* statistics insert will return describe exactly the entries it evicted,
\* none of which is still stored (shard.rs:208, 225, 244-246, 448, 473).
Accounted ==
  /\ size_current = TotalSize(Counted)
  /\ ins # NoInsert =>
       /\ DOMAIN ins.evicted \cap (DOMAIN entries \cup {ins.key}) = {}
       /\ ins.stats = [count |-> Cardinality(DOMAIN ins.evicted),
                       size |-> TotalSize(ins.evicted)]

\* After every operation the shard fits its capacity, or its only entry is
\* one larger than the capacity: the promise behind the test that accepts a
\* single oversized entry (shard.rs:636-672).
FitsOrAlone ==
  ins = NoInsert => size_current <= Capacity \/ Cardinality(DOMAIN entries) = 1

\* Unless a sweep is at work, the entry under a bucket's hand stays under it
\* until it leaves the bucket, although removals elsewhere in the bucket move
\* entries around: nobody loses its turn or gets a second one
\* (shard.rs:119-132).
HandKeepsItsEntry ==
  [][\A p \in Policies :
       LET b == buckets[p]
       IN  /\ b.list # << >>
           /\ ins.pc # "sweep"
           /\ Holds(b', KeyAt(b, b.hand))
           => KeyAt(b', b.hand') = KeyAt(b, b.hand)]_vars

\* What makes the invariants above inductive: the sweep works on a bucket with
\* its hand in bounds, every bucket the loop has left behind is empty, and the
\* maps are finite.
IndInv ==
  /\ TypeOK /\ BucketsPartition /\ Accounted /\ FitsOrAlone
  /\ \A p \in Policies : HandOK(buckets[p])
  /\ ins.pc = "sweep" => ins.policy_idx >= 0 /\ ins.hand < Len(Bucket.list)
  /\ ins # NoInsert =>
       /\ \A p \in Policies : p > ins.policy_idx => buckets[p].list = << >>
       /\ Countable(ins.evicted)
  /\ Countable(entries)

\* Why the loop as a whole picks the victims it should, wherever it stands:
\* no victim came from a bucket it has yet to reach; one of the victims that
\* would be the last to go was needed, since with it the new entry would not
\* fit; and no sweep starts, or goes on, with room enough (shard.rs:230-258).
VictimsNeeded ==
  ins # NoInsert =>
    LET needed == size_current + ins.entry.size
        victims == DOMAIN ins.evicted
    IN  /\ \A v \in victims : ins.evicted[v].policy >= ins.policy_idx
        /\ victims # {} => \E last \in victims :
             /\ needed + ins.evicted[last].size > Capacity
             /\ \A v \in victims : ins.evicted[v].policy >= ins.evicted[last].policy
        /\ ins.pc = "sweep" => needed > Capacity

\* The eviction loop ends: every insert returns.
InsertReturns == ins # NoInsert ~> ins = NoInsert
-----------------------------------------------------------------------------
\* What the callers of a shard rely on is EvictingStore: there, inserting is
\* one step.  The abstract store holds the stored entries and those already
\* evicted by an insert that has not returned.
Store ==
  LET evicted == IF ins = NoInsert THEN << >> ELSE ins.evicted
      at(k) == IF k \in DOMAIN evicted THEN evicted[k] ELSE entries[k]
  IN  [k \in DOMAIN entries \cup DOMAIN evicted |->
         [size |-> at(k).size, policy |-> at(k).policy]]

Abstract == INSTANCE EvictingStore WITH store <- Store

\* The eviction loop as a whole does what an insert of the abstract store
\* does: victims of lower priority first, no more of them than needed, never
\* the entry being replaced.
ImplementsStore == Abstract!Spec
=============================================================================
