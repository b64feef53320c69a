SPECIFICATION Spec
CONSTANTS
  Pools = {p1, p2}
  NoPool = NoPool
  MaxCap = 2
  MaxWeight = 2
CHECK_DEADLOCK FALSE
INVARIANT ShareIsWeight
