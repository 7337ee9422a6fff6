SPECIFICATION RepositorySpec
CONSTANTS
  Sessions = {1, 2}
  MaxRuns = 2
  Tests = {t1}
  Outcomes = {"Passed", "Failed"}
  MaxAttempts = 2
  RetentionDays = 1
  MaxFailures = 1
  Pruner = Pruner
  None = None
INVARIANTS
  HistoryFaithful
  FileIsWhole
PROPERTIES
  LoadIsComplete
  RunOutlivesDatabase
CHECK_DEADLOCK FALSE
