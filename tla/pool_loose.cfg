CONSTANTS
  Requests = {r1, r2, r3}
  Clients = {c1, c2, c3}
  NoClient = NoClient
  InitNum = 2
  PoolSize = 2
  IdleDur = 1
  Mode = 1
  RetryTimes = 1
  FactoryMayFail = TRUE
  MayClose = FALSE
  MaxTime = 2
SPECIFICATION Spec
SYMMETRY Symm
CHECK_DEADLOCK FALSE
INVARIANTS
  TypeOK
  OneOwner
  HeldHasOwner
  ConnsBounded
  ReturnNeverBlocks
  MetricsCoverInUse
PROPERTY LeaseSpec
