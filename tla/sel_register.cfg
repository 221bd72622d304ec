\* Two sockets with one Poll and one socket between two, on every platform.
SPECIFICATION Spec
CONSTANTS
  a = a
  b = b
  AWAKEN = AWAKEN
  Polls = {1, 2}
  Sockets = {a, b}
  Programs <- TwoPrograms
  Platforms = {"epoll", "kqueue", "iocp"}
  Calls <- LevelReadOrOneshot
  Capacity = 3
SYMMETRY Symmetry
INVARIANTS
  AsRegistered
  OneSelector
  BindingIsPort
  PollReportsAll
CHECK_DEADLOCK FALSE
