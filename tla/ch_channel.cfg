\* Two handles that are cloned and dropped, a receiver that is registered at some
\* time, re-registered with every PollOpt, deregistered and dropped.
SPECIFICATION FairSpec
CONSTANTS
  s1 = s1
  s2 = s2
  Senders = {s1, s2}
  FirstSender = s1
  Bound = 2
  W = 16
  Modes <- AllModes
  Registered = FALSE
  Updates = {TRUE, FALSE}
INVARIANT TypeOK
INVARIANT PendingIsExact
INVARIANT PendingIsReadable
INVARIANT MessageIsSignalled
PROPERTY MessageIsReceived
PROPERTY BlockedSendGetsSlot
CHECK_DEADLOCK FALSE
