SPECIFICATION Spec
CONSTANTS
  k1 = k1
  k2 = k2
  k3 = k3
  Tokens = {k1, k2, k3}
  EMPTY = EMPTY
  Vacant = Vacant
  Slots = 2
  MaxTick = 4
  TICK_MAX = 99
  Registering = "never"
  Updates = {}
  Unprompted = TRUE
  Kept = {"fired"}
SYMMETRY Symmetry
INVARIANT TypeOK
INVARIANT WheelIsLinked
INVARIANT NothingOverdue
INVARIANT StaleHandleIsDead
CHECK_DEADLOCK FALSE
