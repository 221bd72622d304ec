\* Two timeouts, a timer that is registered at some time, re-registered and
\* deregistered, its wakeup thread and the clock.
SPECIFICATION FairSpec
CONSTANTS
  k1 = k1
  k2 = k2
  Tokens = {k1, k2}
  EMPTY = EMPTY
  Vacant = Vacant
  Slots = 1
  MaxTick = 2
  TICK_MAX = 99
  Registering = "later"
  Updates = {TRUE, FALSE}
  Unprompted = TRUE
  Kept = {}
INVARIANT WakeupCovers
INVARIANT ParkIsNotStale
PROPERTY TimeoutFires
CHECK_DEADLOCK FALSE
