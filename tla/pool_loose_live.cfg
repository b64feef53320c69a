CONSTANTS
  Requests = {r1, r2, r3}
  Clients = {c1, c2}
  NoClient = NoClient
  InitNum = 1
  PoolSize = 1
  IdleDur = 1
  Mode = 1
  RetryTimes = 0
  FactoryMayFail = FALSE
  MayClose = FALSE
  MaxTime = 1
SPECIFICATION FairSpec
INVARIANTS
  NoConnLost
PROPERTIES
  AcquireEnds
