\* A repair asks for tools when the retrieval budget is used up.
SPECIFICATION Spec
CONSTANTS
  None = None
  Failed = Failed
  CallLimit = 3
  MaxRequests = 2
  MaxTurns = 1
INVARIANT
  RepairsOnceWithoutTools
CHECK_DEADLOCK FALSE
