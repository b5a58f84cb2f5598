SPECIFICATION Spec
CONSTANTS
  NumPages = 2
  AutoFrom = 2
  BatchSize = 1
  Outcomes = {"done"}
  MaxActs = 2
  MaxFailures = 1
INVARIANTS StoredPagesAreShown
CONSTRAINT Disturbances
CHECK_DEADLOCK FALSE
