\* Three tasks, two threads at most, and one caller of waitForDone.
SPECIFICATION AnyFairSpec
CONSTANTS
  Thread <- MCThread
  MaxTask = 3
  Priority <- MCPriority
  PageSize = 2
  MaxThreads <- MCLimits
  Reserve = 1
  Waiter = {w1}
  v1 = v1
  v2 = v2
INVARIANTS CountersAgree TasksAreKept ComputationIsExact
PROPERTIES WithinLimit PoolServes EngineFinishes
