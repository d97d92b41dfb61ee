CONSTANTS
  Threads = {1}
  Client = 0
  Usize = 8
  Heaps <- MapHeaps
  Fresh <- NewLeaf
SPECIFICATION MCSpec
INVARIANTS ContentsCounted
CHECK_DEADLOCK FALSE
