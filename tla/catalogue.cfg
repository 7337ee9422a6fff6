SPECIFICATION Spec
CONSTANTS
  Registrars = {r1, r2}
  MaxVersions = 3
  MaxGeneratedTests = 2
INVARIANTS OnlyAcceptedRuns SupersededTestsGone
