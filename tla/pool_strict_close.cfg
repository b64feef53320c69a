CONSTANTS
  Requests = {r1, r2}
  Clients = {c1, c2}
  NoClient = NoClient
  InitNum = 2
  PoolSize = 1
  IdleDur = 1
  Mode = 0
  RetryTimes = 1
  FactoryMayFail = TRUE
  MayClose = TRUE
  MaxTime = 1
SPECIFICATION FairSpec
INVARIANTS
  OneOwner
  ConnsBounded
PROPERTIES
  LeaseSpec
  DoneRequestReturns
  HeldAtCloseIsDestroyed
