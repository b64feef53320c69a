SPECIFICATION Spec
CONSTANTS
  Pools = {p1, p2, p3}
  NoPool = NoPool
  MaxCap = 2
  MaxWeight = 1
SYMMETRY Symm
CHECK_DEADLOCK FALSE
INVARIANTS TypeOK ChoiceIsAPool ChoiceIsIdlest PanicOnlyWithoutPools ShareIsCapacity
