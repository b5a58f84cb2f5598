SPECIFICATION Spec
CONSTANTS
  Cmps = {"c1", "c2"}
  Papers = {"p1", "p2"}
  Fields = {"task", "metric"}
  Evidence = {"e1", "e2", "e3"}
  Ledger <- MCLedger
  Drafts <- MCDrafts
  Artifacts <- MCArtifacts
  NoCmp = "-"
  MaxPolls = 2
  MaxInFlight = 2
  MaxAsks = 1
  MaxRestarts = 1

PROPERTIES RepeatedComparisonIsCached
CHECK_DEADLOCK FALSE
