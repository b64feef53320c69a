CONSTANTS
  Requests = {r1, r2}
  Clients = {c1, c2}
  NoClient = NoClient
  InitNum = 1
  PoolSize = 1
  IdleDur = 1
  Mode = 1
  RetryTimes = 0
  FactoryMayFail = TRUE
  MayClose = FALSE
  MaxTime = 1
SPECIFICATION FairSpec
CHECK_DEADLOCK FALSE
PROPERTY DoneRequestReturns
