SPECIFICATION StreamSpec
CONSTANTS
  Source <- MCSource
  Kept = {1, 3}
  Operators <- MCOperators
  MaxOperators = 3
  MaxIterations = 2
INVARIANT
  AppliedOnce
CHECK_DEADLOCK FALSE
