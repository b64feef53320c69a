CONSTANTS
  MaxMessages = 3
  RetryTimes = 2
  StreamMayFail = TRUE
SPECIFICATION FairSpec
CHECK_DEADLOCK FALSE
INVARIANTS
  TypeOK
  NothingLost
  StatusFaithful
  HalfCloseFaithful
  NeverReachesEnd
PROPERTIES
  CallSpec
  ProxyEnds
  ForwardersEnd
