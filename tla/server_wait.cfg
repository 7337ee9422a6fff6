SPECIFICATION WaitSpec
CONSTANTS
  Clients = {h1}
  Cancellers = {}
  NumTests = 1
  Conns = {h1}
  PoolSize = 2
  Cap = 2
  Stoppers = {"main"}
  Waiters = {w1}
PROPERTY WaitReturns
