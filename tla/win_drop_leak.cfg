\* A stream that may be dropped at any time, and a peer that may send nothing.
SPECIFICATION FairSpec
CONSTANTS
  stream = stream
  listener = listener
  udp = udp
  Streams = {stream}
  Listeners = {listener}
  Udps = {udp}
  Programs <- StreamAlone
  Interests <- ReadAndBoth
  Modes = {"edge"}
  MaxIn = 1
  MaxOut = 1
  PoolCap = 1
  Impatient = FALSE
PROPERTY DroppedReadEnds
CHECK_DEADLOCK FALSE
