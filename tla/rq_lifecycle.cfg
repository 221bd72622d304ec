SPECIFICATION Spec
CONSTANTS
  NULL = NULL
  SLEEP = SLEEP
  Nodes = {n1, n2}
  Setters = {s1}
  PollThread = p
  Ready = {"readable"}
  InterestChoices = {{"readable"}}
  OptChoices <- EdgeAndLevel
  RegThreads = {p, s1}
  LastDroppers = {p}
  PipeCap = 1
SYMMETRY Symmetry
INVARIANTS
  TypeOK
  NoLostWakeup
  QueuedFlagIsOwnership
  NoUseAfterFree
  DroppedNodeIsReclaimed
  NoLostReadiness
  RequeueNeedsNoWakeup
