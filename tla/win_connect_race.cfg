\* A stream whose user may re-register it while its connect is in flight.
SPECIFICATION Spec
CONSTANTS
  stream = stream
  listener = listener
  udp = udp
  Streams = {stream}
  Listeners = {listener}
  Udps = {udp}
  Programs <- StreamAlone
  Interests <- ReadAndBoth
  Modes = {"edge"}
  MaxIn = 1
  MaxOut = 1
  PoolCap = 1
  Impatient = TRUE
INVARIANT ElseConnectFinished
CHECK_DEADLOCK FALSE
