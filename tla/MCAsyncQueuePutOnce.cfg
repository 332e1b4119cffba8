SPECIFICATION QueueSpec
CONSTANTS
  p1 = p1
  p2 = p2
  c1 = c1
  c2 = c2
  Producers <- MCProducers
  Consumers <- MCConsumers
  j1 = j1
  Joiners <- MCJoiners
  Priorities <- MCPriorities
  MaxSizes <- MCMaxSizes
  Done = Done
  NoItem = NoItem
  MaxPuts = 3
  MaxParked = 2
  MaxOwed = 2
CHECK_DEADLOCK FALSE
INVARIANT PutOnce
