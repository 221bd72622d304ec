SPECIFICATION FairSpec
CONSTANTS
  NULL = NULL
  SLEEP = SLEEP
  Nodes = {n1}
  Setters = {s1}
  PollThread = p
  Ready = {"readable", "writable"}
  InterestChoices = {{}, {"readable"}, {"writable"}}
  OptChoices <- WithOneshot
  RegThreads = {p}
  LastDroppers = {p}
  PipeCap = 2
INVARIANT ReportsOnlyArmed
PROPERTIES QueuedIsPolled DroppedIsFreed ImplementsReadiness
