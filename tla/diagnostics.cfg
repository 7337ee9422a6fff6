SPECIFICATION DiagSpec
CONSTANTS
  PipeRoom = 1
  MaxOutput = 1
  MaxWrite = 2
  HasTimeout = TRUE
  CaptureError = TRUE
  IncludeGpu = TRUE
  IncludeSystemLogs = TRUE
INVARIANTS ResultFaithful DiagnosticsHonest
PROPERTY CollectionEnds
CHECK_DEADLOCK FALSE
