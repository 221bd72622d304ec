\* A loop that takes two messages per tick, a channel of two, one sender besides
\* the loop's own, one timeout.
SPECIFICATION FairSpec
CONSTANTS
  s1 = s1
  s2 = s2
  t1 = t1
  Senders = {s1, s2}
  FirstSender = s1
  Bound = 2
  W = 16
  Modes = {"oneshot"}
  Registered = TRUE
  Updates = {TRUE}
  MessagesPerTick = 2
  Timeouts = {t1}
INVARIANTS
  MessagesAreNotStranded
PROPERTIES
  MessageIsHandled
  TimeoutIsHandled
  ShutdownEndsRun
CHECK_DEADLOCK FALSE
