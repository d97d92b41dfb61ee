CONSTANTS
  Bits = 6
  MinShardSize = 4
  DefaultShardCount = 8
SPECIFICATION Spec
INVARIANTS ShardsHaveTheMinimum
CHECK_DEADLOCK FALSE
