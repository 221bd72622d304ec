\* A stream, a listener or a UDP socket, with every interleaving of the user, the
\* kernel and the poll.
SPECIFICATION FairSpec
CONSTANTS
  stream = stream
  listener = listener
  udp = udp
  Streams = {stream}
  Listeners = {listener}
  Udps = {udp}
  Programs <- EachAlone
  Interests <- WriteAndBoth
  Modes = {"level", "oneshot"}
  MaxIn = 2
  MaxOut = 2
  PoolCap = 1
  Impatient = FALSE
INVARIANTS
  TypeOK
  ReferencesMatch
  CallbackFindsItsOperation
  InputIsSignalled
  OutputIsSignalled
PROPERTIES
  InputIsTaken
  DroppedIsFreed
CHECK_DEADLOCK FALSE
