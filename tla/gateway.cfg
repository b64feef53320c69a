SPECIFICATION FairSpec
CONSTANTS
  Requests = {r1, r2}
  RetryTimes = 1
  PoolMayFail = TRUE
  CheckType = "svcNameAndsvcIP"
  Rechecks = 2
  Configs <- MCConfigs
CHECK_DEADLOCK FALSE
INVARIANTS TypeOK RegistryMatchesConfig RegistryOffersOpenPools
PROPERTIES ConfiguredRequestsAreSafe DirectorDecides RegistryRecovers
