SPECIFICATION RestSpec
CONSTANTS
  Clients = {h1, h2}
  Cancellers = {}
  NumTests = 1
  Conns = {h1, h2, h3}
  PoolSize = 2
  Cap = 2
  Stoppers = {"main"}
  Waiters = {}
INVARIANTS
  RunsExclusive
  DescriptorsExact
  StopDrains
PROPERTIES
  ServerSettles
