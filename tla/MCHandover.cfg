SPECIFICATION Spec
CONSTANTS
  p1 = p1
  p2 = p2
  c1 = c1
  c2 = c2
  Producers <- MCProducers
  Consumers <- MCConsumers
  j1 = j1
  Joiners <- MCJoiners
  Priorities <- MCPriorities
  MaxSizes <- MCMaxSizes
  Done = Done
  NoItem = NoItem
  MaxPuts = 3
  MaxParked = 2
  MaxOwed = 2
  s1 = s1
  s2 = s2
  news = news
  Subs <- MCSubs
  Topics <- MCTopics
  BufferSizes <- MCBufferSizes
  Limits <- MCLimits
  AllTopics = AllTopics
  None = None
  MaxMsgs = 2
  MaxUnsubs = 1
  MaxCancels = 1
INVARIANTS
  QueueTypeOK
  Capacity
  NoLostWakeup
  ExactlyOnce
  WorkAccounted
  OneFuturePerTask
  ChannelTypeOK
  MembersKept
  StreamInOrder
  ReachesMembers
  CloseReachesAll
PROPERTIES
  ServedInOrder
  BlockedPutIsServed
  LockReleased
CHECK_DEADLOCK FALSE
