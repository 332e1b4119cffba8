SPECIFICATION FairSpec
CONSTANTS
  login = login
  Events <- MCEvents
  Priorities <- MCPriorities
  Star = Star
  None = None
  MaxListeners = 2
  MaxEmits = 2
CHECK_DEADLOCK FALSE
INVARIANTS
  TypeOK
  OnceRunsOnce
  InOrder
  WaitersListen
PROPERTIES
  EveryoneCalled
  EmitEnds
