------------------------------ MODULE Builder -------------------------------
(* CacheBuilder and the constructors of Cache: how many shards a cache gets, *)
(* how large they are, and which shard a hash selects.                      *)
EXTENDS Integers, FiniteSetsExt

CONSTANTS
  Bits,              \* the bits of a usize
  MinShardSize,      \* MIN_SHARD_SIZE
  DefaultShardCount  \* DEFAULT_SHARD_COUNT

\* 2 to the i.
Power[i \in Nat] == IF i = 0 THEN 1 ELSE 2 * Power[i - 1]

Width == Power[Bits]

ASSUME BuilderAssumption ==
  /\ Bits \in Nat \ {0}
  /\ MinShardSize \in Nat \ {0} /\ MinShardSize % 2 = 0
  /\ DefaultShardCount \in 0 .. Width - 1

VARIABLES
  max_size,     \* the builder's capacity
  shard_count,  \* the builder's Option<usize>: a number of shards, or none
  shards        \* the shards of the cache once it is built; none before

vars == <<max_size, shard_count, shards>>

usize == 0 .. Width - 1
None == -1

\* The smallest power of two that is at least n, which wraps to 0 when it does
\* not fit (usize::next_power_of_two in a release build).
NextPowerOfTwo(n) == Power[Min({i \in 0 .. n : Power[i] >= n})] % Width

\* usize & usize, from the lowest bit up.
And[x \in Nat] ==
  [y \in Nat |-> IF x = 0 \/ y = 0 THEN 0
                 ELSE 2 * And[x \div 2][y \div 2] + (x % 2) * (y % 2)]

AtLeastOne(n) == Max({n, 1})

\* Mutants of ComputeShardCount: not a power of two; not limited by the
\* capacity.
ComputeShardCountExact(capacity, desired) ==
  AtLeastOne(Min({desired, AtLeastOne(capacity \div MinShardSize)}))
ComputeShardCountUnlimited(capacity, desired) ==
  AtLeastOne(NextPowerOfTwo(desired))

ComputeShardCount(capacity, desired) ==
  AtLeastOne(NextPowerOfTwo(Min({desired, AtLeastOne(capacity \div MinShardSize)})))

Init ==
  /\ max_size \in usize
  /\ shard_count = None
  /\ shards = None

\* CacheBuilder::shards, which may be called again.
SetShards(count) ==
  /\ shards = None
  /\ shard_count' = count
  /\ UNCHANGED <<max_size, shards>>

\* build consumes the builder.
Build ==
  /\ shards = None
  /\ shards' = ComputeShardCount(max_size,
                 IF shard_count = None THEN DefaultShardCount ELSE shard_count)
  /\ UNCHANGED <<max_size, shard_count>>

Next == (\E count \in usize : SetShards(count)) \/ Build

Spec == Init /\ [][Next]_vars
-----------------------------------------------------------------------------
Built == shards # None
SizePerShard == max_size \div shards

\* get_shard.
ShardOfHash(hash) == And[hash][shards - 1]

\* Every hash selects a shard that exists, and every shard is selected by some
\* hash: masking by shard_count - 1 loses no capacity, because the count is a
\* power of two whatever was asked for (cache.rs:130, 651-654).
EveryShardServes ==
  Built => {ShardOfHash(hash) : hash \in usize} = 0 .. shards - 1

\* Rounding up costs at most half of the minimum: a cache of several shards
\* gives each at least MIN_SHARD_SIZE / 2, and next_power_of_two never
\* overflows, however many shards are asked for (cache.rs:125-131, 191).
ShardsHaveHalfTheMinimum ==
  Built =>
    /\ shards > 1 => 2 * SizePerShard >= MinShardSize
    /\ shards >= Min({IF shard_count = None THEN DefaultShardCount ELSE shard_count,
                      AtLeastOne(max_size \div MinShardSize)})

\* Each shard has at least MIN_SHARD_SIZE bytes, as compute_shard_count
\* documents, in a cache that has that many (cache.rs:108-112, 123-124).
ShardsHaveTheMinimum ==
  Built /\ max_size >= MinShardSize => SizePerShard >= MinShardSize
=============================================================================
