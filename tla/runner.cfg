SPECIFICATION FairSpec
CONSTANTS
  NumTests = 2
  Workers = {w1, w2}
  RetryFailed = 0
  FailFast = TRUE
  Cancellers = {c1}
  Profiles <- LivenessProfiles
  Outcomes <- PassOrAssert
INVARIANTS
  CancellationSafe
  LateVerdictsDiscarded
  EveryTestAccountedFor
PROPERTIES
  RunsEnd
