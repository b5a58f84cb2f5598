SPECIFICATION Spec
CONSTANTS
  NumPages = 5
  AutoFrom = 4
  BatchSize = 5
  Outcomes = {"retry", "done"}
  MaxActs = 0
  MaxFailures = 0
PROPERTY RestIsAsked
CHECK_DEADLOCK FALSE
