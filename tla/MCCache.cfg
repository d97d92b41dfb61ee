CONSTANTS
  Threads = {t1, t2}
  NoThread = NoThread
  Keys = {0, 1, 2}
  Sizes = {1, 2}
  Policies = {1}
  ShardCount = 2
  MaxSizeBytes = 4
  Width = 32
  MetricsFeature = TRUE
  NestedGuards = TRUE
  MaxNesting = 1
  MaxCalls = 4
SPECIFICATION MCSpec
SYMMETRY ThreadSymmetry
INVARIANTS TypeOK CountersAccounted HooksRunLast LocksAreOwed LockInv HooksOwed MetricsExplainEntries
PROPERTIES GuardPins
CHECK_DEADLOCK FALSE
