CONSTANTS
  Threads = {t1, t2}
  NoThread = NoThread
  Keys = {0, 2}
  Sizes = {1}
  Policies = {1}
  ShardCount = 2
  MaxSizeBytes = 2
  Width = 4
  MetricsFeature = FALSE
  NestedGuards = TRUE
  MaxNesting = 1
SPECIFICATION Spec
PROPERTIES CallsReturn
CHECK_DEADLOCK FALSE
