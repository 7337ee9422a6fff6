SPECIFICATION Spec
CONSTANTS
  NumTests = 1
  Workers = {w1}
  RetryFailed = 2
  FailFast = FALSE
  Cancellers = {c1}
  Profiles <- RetryProfiles
  Outcomes <- AllKinds
INVARIANTS
  ZeroMeansVerified
  NothingForgotten
