SPECIFICATION CliSpec
CONSTANTS
  Clients = {"main"}
  Cancellers = {"watcher"}
  NumTests = 3
INVARIANTS
  CancelsLiveRunner
  ExitCodeHonest
PROPERTY CommandExits
