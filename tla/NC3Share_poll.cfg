SPECIFICATION Spec
CONSTANTS
  VarCounts <- Pair
  MaxRec = 1
  MaxPuts = 1
  MaxCrashes = 0
  Faults <- NoErrors
  Retries <- Polls
PROPERTY Served
