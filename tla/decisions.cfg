SPECIFICATION DecisionsSpec
CONSTANTS
  MaxGeneratedTests = 2
  IntHalf = 1024
  MaxChecks = 4
INVARIANTS
  StrongestEvidenceWins
  UrlsFaithful
  RoutesDistinct
  SelectionExact
  CommandLineKept
  ValidationSettles
  SettingsLayered
  NoVerdictLost
  ReportsAgree
CHECK_DEADLOCK FALSE
