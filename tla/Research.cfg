SPECIFICATION Spec
CONSTANTS
  Calls = {"c1", "c2"}
  Plans <- MCPlans
  ReportLimit = 3
INVARIANTS SkippedBehindCycles RunIsOneExecutionsWork
CHECK_DEADLOCK FALSE
