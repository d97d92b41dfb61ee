CONSTANTS
  Threads = {t1, t2}
  NoThread = NoThread
  Keys = {0, 1, 2}
  Sizes = {1, 2}
  Policies = {1}
  ShardCount = 2
  MaxSizeBytes = 4
  Width = 32
  MetricsFeature = FALSE
  NestedGuards = FALSE
  MaxNesting = 1
  MaxCalls = 5
SPECIFICATION MCSpec
SYMMETRY ThreadSymmetry
INVARIANTS IndexComplete
CHECK_DEADLOCK FALSE
