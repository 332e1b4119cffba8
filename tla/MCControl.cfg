SPECIFICATION Spec
CONSTANTS
  t1 = t1
  t2 = t2
  t3 = t3
  w1 = w1
  w2 = w2
  w3 = w3
  Callers <- MCCallers
  FailureThreshold = 2
  ResetTimeout = 1
  MaxAttempts = 2
  Delay = 1
  MaxAge = 2
  Unit = 3
  Rate = 1
  Burst = 2
  InitialTokens <- MCInitialTokens
  Costs <- MCCosts
  Limit = 2
  Window = 3
  MaxTime = 7
  MaxGrants = 3
  BatchSize = 2
  FlushInterval = 1
  MaxItems = 4
  Timer = Timer
  Timeouts <- MCTimeouts
  None = None
  MaxBlocks = 3
  MaxClock = 2
  PoolTasks <- MCPoolTasks
  MaxRuntime = 1
  Retried <- MCRetried
  MaxRetries = 2
  GateTasks <- MCGateTasks
  Limits <- MCLimits
  MaxCount = 2
INVARIANTS
  TypeOK
  Trips
  RateHeld
  ItemsKept
  DeadlinesNest
  TasksEnd
  GatesAdmit
PROPERTY
  OverdueBlocksEnd
CHECK_DEADLOCK FALSE
