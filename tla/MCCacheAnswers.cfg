SPECIFICATION CacheOnly
CONSTANTS
  n1 = n1
  n2 = n2
  k1 = k1
  k2 = k2
  v1 = v1
  u1 = u1
  u2 = u2
  facade = facade
  client = client
  h1 = h1
  h2 = h2
  Users = {u1, u2}
  Facades = {facade}
  Clients = {client}
  OwnerOf <- MCOwnerOf
  Nodes = {n1, n2}
  NodeOrder <- MCNodeOrder
  Hash <- MCHash
  ReplicationFactor = 2
  Values = {v1}
  None = None
  MaxConns = 3
  MaxCalls = 3
  MaxFaults = 1
  Handlers = {h1, h2}
  HandlerLevel <- MCHandlerLevel
  DictFormatters = {h1}
  MaxBytes = 1
  BackupCount = 2
  Closers = {u1, u2}
  Levels = {1}
  Sizes = {1}
  Nothing = Nothing
  MaxRecords = 4
  MaxCloses = 2
  MaxLogFaults = 1
  MqttUsers = {u1, u2}
  Base = 2
  Lengths = {0, 3}
  IdSpace = 2
  MaxPackets = 2
  MaxConnects = 2
  MaxPublishes = 2
  Setters = {u1, u2, n1}
  Cells = {k1}
  CellValues = {v1, h1}
  Absent = Absent
  Observer = n2
  MaxChanges = 3
  MaxLost = 1
  Callers = {u1, u2}
  Kinds <- MCKinds
  StageBatch = 2
  Nil = Nil
  NumStages = 2
  BufferSize = 2
  EndMark = EndMark
  Failure = Failure
  MaxFed = 3
  MaxStageErrors = 1
  MaxItems = 3
  MaxStageFailures = 1
  Authors = {u1, u2}
  PublisherBatchSize = 2
  Topic <- MCTopic
  MaxMessages = 4
  MaxTroubles = 1
  Keys = {k1, k2}
  MaxCancels = 1
INVARIANT
  AnswersMatch
CHECK_DEADLOCK FALSE
