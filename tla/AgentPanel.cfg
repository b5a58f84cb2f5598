SPECIFICATION Spec
CONSTANTS
  OldSessions = 2
  MaxSessions = 3
  MaxRuns = 2
  MaxBreaks = 1
  MaxMoves = 1
INVARIANTS ShownIsTheRecord ShownAnswersAreStored QuestionsStoredPerAttempt
PROPERTIES BusyEnds
CHECK_DEADLOCK FALSE
