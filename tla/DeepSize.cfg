CONSTANTS
  Threads = {1, 2, 3}
  Client = 0
  Usize = 8
  Heaps <- MCHeaps
  Fresh <- NewLeaf
SPECIFICATION MCSpec
INVARIANTS TypeOK NeverRelocks CountsEachOnce
PROPERTIES SizingReturns
CHECK_DEADLOCK FALSE
