\* Two runs and a single verification over three references, stored two at a time;
\* no property here looks at the verdicts, so one status stands for all.
SPECIFICATION Spec
CONSTANTS
  NumEntries = 3
  Numbered = TRUE
  StoreEvery = 2
  Runs = {a1, a2}
  Singles = {s1}
  Statuses = {Unverified}
  Unverified = Unverified
  MaxCrashes = 1
  NoRun = NoRun
INVARIANTS TypeOK OneRecordPerEntry PartialListsHeal
PROPERTIES PollingEnds
CHECK_DEADLOCK FALSE
