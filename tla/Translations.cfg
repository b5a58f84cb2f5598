SPECIFICATION Spec
CONSTANTS
  Requests = {r1, r2}
  Jobs = {j1}
  NumBlocks = 2
  BlocksPerPage = 1
  FirstBlocks = 1
  BatchSize = 1
  Workers = 2
  Permits = 1
  Rebuilds = {TRUE, FALSE}
INVARIANTS TypeOK OneUnitPerBlockAndImport CallsBounded PermitsMatchHolders
PROPERTIES AnswerIsStored UnitsLostOnlyToStaleWriters
CHECK_DEADLOCK FALSE
