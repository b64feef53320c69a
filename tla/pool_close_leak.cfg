CONSTANTS
  Requests = {r1, r2}
  Clients = {c1, c2}
  NoClient = NoClient
  InitNum = 1
  PoolSize = 1
  IdleDur = 1
  Mode = 0
  RetryTimes = 0
  FactoryMayFail = FALSE
  MayClose = TRUE
  MaxTime = 1
SPECIFICATION FairSpec
PROPERTY ClosedPoolEmpties
