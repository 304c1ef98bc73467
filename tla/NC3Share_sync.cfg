SPECIFICATION Spec
CONSTANTS
  VarCounts <- OneOrTwo
  MaxRec = 2
  MaxPuts = 2
  MaxCrashes = 1
  Faults <- ReportedErrors
  Retries <- Syncs
INVARIANTS TypeOK NoHoles Fresh PutsStay
PROPERTY Served
