SPECIFICATION Spec
CONSTANTS
  NULL = NULL
  SLEEP = SLEEP
  Nodes = {n1}
  Setters = {s1}
  PollThread = p
  Ready = {"readable"}
  InterestChoices = {{"readable"}}
  OptChoices <- EdgeOnly
  RegThreads = {p}
  LastDroppers = {p, s1}
  PipeCap = 1

INVARIANT NoUseAfterFree
