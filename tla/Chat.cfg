SPECIFICATION Spec
CONSTANTS
  Chunks = {"k1", "k2"}
  Excerpt <- MCExcerpt
  Segments <- MCSegments
  Numbers = {"n1", "n2"}
  Negations = {"not", "bu"}
  Comparators = {"up"}
  Stops = {"stop"}
  NegationForms <- MCForms
  Calls = {"a", "b"}
  Streamed = {"a"}
  Sessions = {"s1", "s2"}
  VersionOf <- MCVersionOf
  Questions = {"q1", "q2"}
  NoQuestion = "-"
  NoSession = "-"
  Analytic = {"q2"}
  Retrievals = {{"k1"}, {"k1", "k2"}}
  Drafts <- MCDrafts
  Verdicts = {"SUPPORTED", "NOT_FOUND"}
  CacheMax = 1
  HistoryMax = 1
  MaxDeletes = 1
INVARIANTS TypeOK ShownQuotesAreLiteral ShownClaimsWereJudged CachedDraftsCiteTheLedger StreamMatchesRecord AnswersFollowTheirQuestions CacheAccounted
CHECK_DEADLOCK FALSE
