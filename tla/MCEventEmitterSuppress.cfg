SPECIFICATION Spec
CONSTANTS
  login = login
  Events <- MCEvents
  Priorities <- MCPriorities
  Star = Star
  None = None
  MaxListeners = 2
  MaxEmits = 2
CHECK_DEADLOCK FALSE
INVARIANT SuppressionHolds
