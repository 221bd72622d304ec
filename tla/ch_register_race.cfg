SPECIFICATION Spec
CONSTANTS
  s1 = s1
  s2 = s2
  Senders = {s1, s2}
  FirstSender = s1
  Bound = 2
  W = 16
  Modes <- EdgeMode
  Registered = FALSE
  Updates = {}
INVARIANT RegisterMissesNothing
CHECK_DEADLOCK FALSE
