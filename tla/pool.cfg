SPECIFICATION FairSpec
CONSTANTS
  Requested = 2
  Callers = {c1, c2}
  Tasks = {t1, t2, t3}
  NoTask = NoTask
INVARIANTS
  WakeupsExact
  OneOwnerPerPromise
PROPERTIES
  JoinSafe
  KeepsLedger
  CallersReturn
