CONSTANTS
  Bits = 6
  MinShardSize = 4
  DefaultShardCount = 8
SPECIFICATION Spec
INVARIANTS EveryShardServes ShardsHaveHalfTheMinimum
CHECK_DEADLOCK FALSE
